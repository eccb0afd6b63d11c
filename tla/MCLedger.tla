------------------------------ MODULE MCLedger ------------------------------
(***************************************************************************)
(* Instances of Ledger for TLC.  The requests are chosen so that every     *)
(* outcome is possible: two keys, a replay under a new request id, a key   *)
(* reused with another request, a request id reused under another key, and *)
(* expected generations that are current or stale depending on the order.  *)
(***************************************************************************)
EXTENDS Ledger

Request(key, rid, req, exp, signer) ==
  [ledger |-> "L", key |-> key, rid |-> rid, req |-> req, exp |-> exp,
   env |-> rid, signer |-> signer,
   rec |-> [body |-> rid, disp |-> "CERTIFIED", hash |-> H(rid)]]

\* A signer that announces and returns the same metadata, and one that
\* announces none and returns some.
Announced == [attr |-> "m", ret |-> "m"]
Unannounced == [attr |-> EmptyMeta, ret |-> "m"]

\* A signer that implements only sign_entry and returns an empty dictionary.
Silent == [attr |-> EmptyMeta, ret |-> EmptyMeta]

MCRequests ==
  { Request("k1", "r1", "q1", 0, NoSigner),
    Request("k1", "r2", "q1", 0, Announced),
    Request("k1", "r3", "q2", 1, NoSigner),
    Request("k2", "r1", "q1", 1, NoSigner),
    Request("k2", "r4", "q2", 1, Unannounced),
    Request("k2", "r5", "q2", 0, NoSigner) }

MCSilentRequests ==
  { Request("k1", "r1", "q1", 0, Silent),
    Request("k2", "r2", "q2", 1, NoSigner) }
=============================================================================
