------------------------------ MODULE LedgerOps ------------------------------
(***************************************************************************)
(* The rows of the certification ledger and the pure functions on them     *)
(* (product/ledger.py).  The SQLite table ledger_entries is a function     *)
(* whose domain is the set of primary keys (the column sequence) that are  *)
(* stored: a deleted row is a key missing from the domain.                 *)
(*                                                                         *)
(* Hashes are free terms: two hashes are equal iff the hashed values are.  *)
(* A receipt is kept as its body and the receipt_hash embedded in it,      *)
(* because the ledger compares only the embedded hash and never recomputes *)
(* it.  The column disp stands for the three columns copied from the       *)
(* request and covered by the entry hash (factual_disposition,             *)
(* claim_ceiling, source_snapshot_hash); the column exp for the columns    *)
(* the entry hash leaves out (expected_generation, attempt, created_at).   *)
(***************************************************************************)
EXTENDS Naturals, FiniteSetsExt

H(x) == <<"sha256", x>>

GENESIS_PREVIOUS_HASH == H(<< >>)

\* json.loads of these bytes fails.
Unparsable == "unparsable"

\* expected_ledger_id = None: the caller of verify_chain does not check the id.
AnyLedger == "any"

\* signer_public_metadata: no signer, the empty dictionary, or something.
NoMeta == "None"
EmptyMeta == "{}"

\* No signer was configured.
NoSigner == [attr |-> NoMeta, ret |-> NoMeta]

\* Mutant: the columns copied from the receipt are left out of the hash.
ComputeEntryHashWithoutDisposition(e, m) ==
  H(<<e.ledger, e.seq, e.gen, e.rid, e.key, e.req, e.env_hash, e.rec_hash, e.prev, m>>)

(***************************************************************************)
(* The hash of an entry over its canonical domain; m is the signer         *)
(* metadata as it enters the hash.                                         *)
(***************************************************************************)
ComputeEntryHash(e, m) ==
  H(<<e.ledger, e.seq, e.gen, e.rid, e.key, e.req, e.env_hash, e.rec_hash,
      e.disp, e.prev, m>>)

\* "meta or None": an empty public_metadata enters the hash as None.
MetaOrNone(m) == IF m = EmptyMeta THEN NoMeta ELSE m

\* Mutant: the entry hash is not recomputed over the metadata the signer returns.
HashedMetaPreliminary(signer) == MetaOrNone(signer.attr)

\* The metadata the stored entry hash covers: the signer's answer when it
\* differs from the announced public_metadata, else the announced one.
HashedMeta(signer) ==
  IF signer.ret # signer.attr THEN signer.ret ELSE MetaOrNone(signer.attr)

-----------------------------------------------------------------------------
\* SELECT ... WHERE idempotency_key = ? and WHERE request_id = ?
RowsWithKey(t, k) == {s \in DOMAIN t : t[s].key = k}

RowsWithRequestId(t, rid) == {s \in DOMAIN t : t[s].rid = rid}

\* SELECT sequence, committed_generation, entry_hash ... ORDER BY sequence
\* DESC LIMIT 1, or the genesis head of an empty table.
DurableHead(t) ==
  IF DOMAIN t = {}
  THEN [seq |-> 0, gen |-> 0, hash |-> GENESIS_PREVIOUS_HASH]
  ELSE LET s == Max(DOMAIN t)
       IN  [seq |-> s, gen |-> t[s].gen, hash |-> t[s].hash]

\* Mutant: the new entry keeps the generation of the head.
StuckGeneration(h) == h.gen

\* new_generation
NextGeneration(h) == h.gen + 1

\* The row the request r makes on top of the head h, signed by r.signer: hash
\* is the stored entry hash, signed the preliminary one in the signed digest.
NewRow(r, h) ==
  LET unsigned ==
        [seq |-> h.seq + 1, gen |-> NextGeneration(h), exp |-> r.exp,
         ledger |-> r.ledger, rid |-> r.rid, key |-> r.key, req |-> r.req,
         env |-> r.env, env_hash |-> H(r.env),
         rec |-> r.rec, rec_hash |-> r.rec.hash, disp |-> r.rec.disp,
         prev |-> h.hash, meta |-> r.signer.ret,
         hash |-> GENESIS_PREVIOUS_HASH, signed |-> GENESIS_PREVIOUS_HASH]
  IN  [unsigned EXCEPT
         !.hash   = ComputeEntryHash(unsigned, HashedMeta(r.signer)),
         !.signed = ComputeEntryHash(unsigned, MetaOrNone(r.signer.attr))]

\* UNIQUE constraints of the table (the primary key, request_id,
\* idempotency_key and entry_hash).
ViolatesUnique(t, e) ==
  \/ e.seq \in DOMAIN t
  \/ \E s \in DOMAIN t : \/ t[s].rid = e.rid
                         \/ t[s].key = e.key
                         \/ t[s].hash = e.hash

\* The table after the INSERT of e is committed.
WithRow(t, e) ==
  [s \in DOMAIN t \cup {e.seq} |-> IF s = e.seq THEN e ELSE t[s]]

-----------------------------------------------------------------------------
(***************************************************************************)
(* verify_chain.  The code walks the rows in ascending order and stops at  *)
(* the first bad one.  Every row before the first bad one is contiguous,   *)
(* so the loop state at row s (expected sequence, previous hash and last   *)
(* generation) is read off the row s - 1.                                  *)
(***************************************************************************)
RowStatus(t, s, expected_ledger_id) ==
  LET e    == t[s]
      last == IF s = 1
              THEN [gen |-> 0, hash |-> GENESIS_PREVIOUS_HASH]
              ELSE [gen |-> t[s - 1].gen, hash |-> t[s - 1].hash]
  IN  IF expected_ledger_id # AnyLedger /\ e.ledger # expected_ledger_id
        THEN "LEDGER_ID_MISMATCH"
      ELSE IF s # 1 /\ (s - 1) \notin DOMAIN t THEN "SEQUENCE_GAP"
      ELSE IF e.gen <= last.gen THEN "GENERATION_NON_MONOTONIC"
      ELSE IF e.prev # last.hash THEN "PREVIOUS_HASH_MISMATCH"
      ELSE IF e.env = Unparsable THEN "ENVELOPE_CORRUPT"
      ELSE IF e.env_hash # H(e.env) THEN "ENVELOPE_TAMPERED"
      ELSE IF e.rec.body = Unparsable THEN "RECEIPT_CORRUPT"
      ELSE IF e.rec_hash # e.rec.hash THEN "RECEIPT_TAMPERED"
      ELSE IF e.hash # ComputeEntryHash(e, e.meta) THEN "ENTRY_HASH_MISMATCH"
      ELSE "OK"

BadRows(t, expected_ledger_id) ==
  {s \in DOMAIN t : RowStatus(t, s, expected_ledger_id) # "OK"}

VerifyChainStatus(t, expected_ledger_id) ==
  IF DOMAIN t = {} THEN "EMPTY"
  ELSE IF BadRows(t, expected_ledger_id) = {} THEN "VALID"
  ELSE RowStatus(t, Min(BadRows(t, expected_ledger_id)), expected_ledger_id)

ChainValid(t, expected_ledger_id) ==
  VerifyChainStatus(t, expected_ledger_id) \in {"EMPTY", "VALID"}
=============================================================================
