---------------------------- MODULE MCLedgerAudit ----------------------------
\* An instance of LedgerAudit for TLC: three appends, of which one is signed.
EXTENDS LedgerAudit

Request(key, signer) ==
  [ledger |-> "L", key |-> key, rid |-> key, req |-> key, exp |-> 0, env |-> key,
   signer |-> signer, rec |-> [body |-> key, disp |-> "CERTIFIED", hash |-> H(key)]]

MCRequests ==
  { Request("k1", NoSigner),
    Request("k2", [attr |-> "m", ret |-> "m"]),
    Request("k3", NoSigner) }
=============================================================================
