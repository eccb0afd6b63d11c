----------------------------- MODULE LedgerProofs -----------------------------
(***************************************************************************)
(* Proofs about Ledger, for any number of processes, any requests and any  *)
(* bound on the attempts.                                                  *)
(***************************************************************************)
EXTENDS Ledger, LedgerOpsProofs, TLAPS

-----------------------------------------------------------------------------
(* The inductive invariant, conjunct by conjunct.                          *)

\* The generation of the head is its sequence number.
LEMMA HeadGeneration ==
  ASSUME TableInv
  PROVE  DurableHead(rows).gen = DurableHead(rows).seq
<1> DEFINE n == DurableHead(rows).seq
<1>1. n \in Nat /\ DOMAIN rows = 1..n
  BY DEF TableInv
<1>2. CASE n = 0
  <2>1. DOMAIN rows = {}
    BY <1>1, <1>2
  <2>2. QED
    BY <2>1, HeadEmpty
<1>3. CASE n # 0
  <2>1. DurableHead(rows) = [seq |-> n, gen |-> rows[n].gen, hash |-> rows[n].hash]
    BY <1>1, <1>3, HeadInterval
  <2>2. n \in DOMAIN rows
    BY <1>1, <1>3
  <2>3. rows[n].gen = n
    BY <2>2 DEF TableInv, LinkedRow
  <2>4. QED
    BY <2>1, <2>3
<1>4. QED
  BY <1>2, <1>3

\* In a transaction the head is n and the pending row is row n + 1.
LEMMA PendingRow ==
  ASSUME IInv, NEW p \in Procs, pc[p] \in {"sign", "insert", "commit"}
  PROVE  /\ pending[p] = NewRow(call[p], DurableHead(rows))
         /\ pending[p].seq = DurableHead(rows).seq + 1
         /\ pending[p].gen = DurableHead(rows).seq + 1
         /\ pending[p].prev = DurableHead(rows).hash
         /\ call[p] \in Requests
<1>1. pending[p] = NewRow(call[p], DurableHead(rows)) /\ call[p] \in Requests
  BY DEF IInv, TransactionInv
<1>2. DurableHead(rows).gen = DurableHead(rows).seq
  BY HeadGeneration DEF IInv
<1>3. QED
  BY <1>1, <1>2, NewRowColumns

LEMMA TypeStep ==
  ASSUME IInv, [Next]_vars
  PROVE  TypeOK'
<1> USE DEF IInv, TypeOK, PCs, InTransaction, Statuses, Goto, Return, Rollback, Answer, NoResult
<1>1. ASSUME NEW p \in Procs, NEW r \in Requests, Call(p, r)
      PROVE  TypeOK'
  <2>1. pc' \in [Procs -> PCs] /\ call' \in [Procs -> Requests \cup {None}]
    BY <1>1 DEF Call
  <2>2. attempts' \in [Procs -> 0..MaxAttempts] /\ commits' \in [Procs -> {0, 1}]
    BY <1>1, MaxAttemptsAssumption DEF Call
  <2>3. DOMAIN result' = Procs /\ \A q \in Procs : result'[q].status \in Statuses
    BY <1>1 DEF Call
  <2>4. QED
    BY <1>1, <2>1, <2>2, <2>3 DEF Call
<1>2. ASSUME NEW p \in Procs, Connect(p)
      PROVE  TypeOK'
  BY <1>2, MaxAttemptsAssumption DEF Connect
<1>3. ASSUME NEW p \in Procs, Exhausted(p)
      PROVE  TypeOK'
  BY <1>3 DEF Exhausted
<1>4. ASSUME NEW p \in Procs, BeginImmediate(p)
      PROVE  TypeOK'
  BY <1>4 DEF BeginImmediate
<1>5. ASSUME NEW p \in Procs, BeginFails(p)
      PROVE  TypeOK'
  BY <1>5 DEF BeginFails
<1>6. ASSUME NEW p \in Procs, Lookup(p)
      PROVE  TypeOK'
  <2>1. LookupResult(call[p]).status \in Statuses
    BY DEF LookupResult
  <2>2. QED
    BY <1>6, <2>1 DEF Lookup
<1>7. ASSUME NEW p \in Procs, ReadHead(p)
      PROVE  TypeOK'
  BY <1>7 DEF ReadHead
<1>8. ASSUME NEW p \in Procs, SignEntry(p)
      PROVE  TypeOK'
  BY <1>8 DEF SignEntry
<1>9. ASSUME NEW p \in Procs, Insert(p)
      PROVE  TypeOK'
  BY <1>9 DEF Insert
<1>10. ASSUME NEW p \in Procs, Commit(p)
       PROVE  TypeOK'
  <2>1. pending[p].seq \in Nat
    BY <1>10, PendingRow DEF Commit, TableInv
  <2>2. DOMAIN rows' \subseteq Nat
    BY <1>10, <2>1 DEF Commit, WithRow
  <2>3. commits' \in [Procs -> {0, 1}]
    BY <1>10 DEF Commit, CommitsInv
  <2>4. QED
    BY <1>10, <2>2, <2>3 DEF Commit
<1>11. ASSUME NEW p \in Procs, Respond(p)
       PROVE  TypeOK'
  BY <1>11 DEF Respond
<1>12. ASSUME NEW p \in Procs, DatabaseError(p)
       PROVE  TypeOK'
  BY <1>12 DEF DatabaseError
<1>13. ASSUME NEW p \in Procs, Abort(p)
       PROVE  TypeOK'
  BY <1>13 DEF Abort
<1>14. ASSUME NEW p \in Procs, Crash(p)
       PROVE  TypeOK'
  BY <1>14 DEF Crash
<1>15. CASE UNCHANGED vars
  BY <1>15 DEF vars
<1>16. QED
  BY <1>1, <1>2, <1>3, <1>4, <1>5, <1>6, <1>7, <1>8, <1>9, <1>10, <1>11, <1>12,
     <1>13, <1>14, <1>15 DEF Next, Step

\* Every step is one of the actions; the other lemmas split on them.
LEMMA StepCases ==
  ASSUME [Next]_vars
  PROVE  \/ \E p \in Procs : \E r \in Requests : Call(p, r)
         \/ \E p \in Procs : Connect(p) \/ Exhausted(p)
         \/ \E p \in Procs : BeginImmediate(p) \/ BeginFails(p)
         \/ \E p \in Procs : Lookup(p)
         \/ \E p \in Procs : ReadHead(p)
         \/ \E p \in Procs : SignEntry(p) \/ Insert(p)
         \/ \E p \in Procs : Commit(p)
         \/ \E p \in Procs : Respond(p)
         \/ \E p \in Procs : DatabaseError(p) \/ Abort(p)
         \/ \E p \in Procs : Crash(p)
         \/ UNCHANGED vars
BY DEF Next, Step

\* Only COMMIT changes the table.
LEMMA OnlyCommitWrites ==
  ASSUME [Next]_vars
  PROVE  rows' = rows \/ \E p \in Procs : Commit(p)
BY StepCases DEF Call, Connect, Exhausted, BeginImmediate, BeginFails, Lookup, ReadHead,
   SignEntry, Insert, Respond, DatabaseError, Abort, Crash, vars

LEMMA LockStep ==
  ASSUME IInv, [Next]_vars
  PROVE  LockInv'
<1> USE NoneAssumption DEF IInv, TypeOK, LockInv, InTransaction, Goto, Return, Rollback
<1>1. ASSUME NEW p \in Procs, NEW r \in Requests, Call(p, r)
      PROVE  LockInv'
  BY <1>1 DEF Call
<1>2. ASSUME NEW p \in Procs, Connect(p) \/ Exhausted(p)
      PROVE  LockInv'
  BY <1>2 DEF Connect, Exhausted
<1>3. ASSUME NEW p \in Procs, BeginImmediate(p) \/ BeginFails(p)
      PROVE  LockInv'
  BY <1>3 DEF BeginImmediate, BeginFails
<1>4. ASSUME NEW p \in Procs, Lookup(p)
      PROVE  LockInv'
  BY <1>4 DEF Lookup
<1>5. ASSUME NEW p \in Procs, ReadHead(p)
      PROVE  LockInv'
  BY <1>5 DEF ReadHead
<1>6. ASSUME NEW p \in Procs, SignEntry(p) \/ Insert(p)
      PROVE  LockInv'
  BY <1>6 DEF SignEntry, Insert
<1>7. ASSUME NEW p \in Procs, Commit(p)
      PROVE  LockInv'
  BY <1>7 DEF Commit
<1>8. ASSUME NEW p \in Procs, Respond(p)
      PROVE  LockInv'
  BY <1>8 DEF Respond
<1>9. ASSUME NEW p \in Procs, DatabaseError(p) \/ Abort(p)
      PROVE  LockInv'
  BY <1>9 DEF DatabaseError, Abort
<1>10. ASSUME NEW p \in Procs, Crash(p)
       PROVE  LockInv'
  BY <1>10 DEF Crash
<1>11. CASE UNCHANGED vars
  BY <1>11 DEF vars
<1>12. QED
  BY <1>1, <1>2, <1>3, <1>4, <1>5, <1>6, <1>7, <1>8, <1>9, <1>10, <1>11, StepCases

\* The effect of COMMIT on the table: row n + 1 behind the rows 1..n, under a
\* key and a request id that no row had.
LEMMA CommitExtends ==
  ASSUME IInv, NEW p \in Procs, Commit(p)
  PROVE  LET n == DurableHead(rows).seq
         IN  /\ n \in Nat
             /\ DOMAIN rows = 1..n
             /\ DOMAIN rows' = 1..(n + 1)
             /\ rows'[n + 1] = pending[p]
             /\ \A s \in 1..n : rows'[s] = rows[s]
             /\ DurableHead(rows') = [seq |-> n + 1, gen |-> n + 1, hash |-> pending[p].hash]
             /\ \A s \in 1..n : rows[s].key # pending[p].key /\ rows[s].rid # pending[p].rid
<1> DEFINE n == DurableHead(rows).seq
<1>1. n \in Nat /\ DOMAIN rows = 1..n
  BY DEF IInv, TableInv
<1>2. rows' = WithRow(rows, pending[p]) /\ pc[p] = "commit"
  BY DEF Commit
<1>3. pending[p].seq = n + 1 /\ pending[p].gen = n + 1
  BY <1>2, PendingRow
<1>4. /\ DOMAIN rows' = 1..(n + 1)
      /\ rows'[n + 1] = pending[p]
      /\ \A s \in 1..n : rows'[s] = rows[s]
      /\ DurableHead(rows') = [seq |-> n + 1, gen |-> n + 1, hash |-> pending[p].hash]
  BY <1>1, <1>2, <1>3, WithRowExtends
<1>5. pending[p].key = call[p].key /\ pending[p].rid = call[p].rid
  BY <1>2, PendingRow, NewRowColumns
<1>6. \A s \in 1..n : rows[s].key # pending[p].key /\ rows[s].rid # pending[p].rid
  BY <1>1, <1>2, <1>5 DEF IInv, TransactionInv, RowsWithKey, RowsWithRequestId
<1>7. QED
  BY <1>1, <1>4, <1>6

\* The head's hash is what the next row must link to.
LEMMA HeadHash ==
  ASSUME TableInv
  PROVE  LET n == DurableHead(rows).seq
         IN  DurableHead(rows).hash = IF n = 0 THEN GENESIS_PREVIOUS_HASH ELSE rows[n].hash
<1> DEFINE n == DurableHead(rows).seq
<1>1. n \in Nat /\ DOMAIN rows = 1..n
  BY DEF TableInv
<1>2. CASE n = 0
  <2>1. DOMAIN rows = {}
    BY <1>1, <1>2
  <2>2. QED
    BY <1>2, <2>1, HeadEmpty
<1>3. CASE n # 0
  BY <1>1, <1>3, HeadInterval
<1>4. QED
  BY <1>2, <1>3

LEMMA TableStep ==
  ASSUME IInv, [Next]_vars
  PROVE  TableInv'
<1>1. CASE rows' = rows
  BY <1>1 DEF IInv, TableInv, LinkedRow
<1>2. ASSUME NEW p \in Procs, Commit(p)
      PROVE  TableInv'
  <2>0. PICK n : n = DurableHead(rows).seq
    OBVIOUS
  <2>1. /\ n \in Nat
        /\ DOMAIN rows = 1..n
        /\ DOMAIN rows' = 1..(n + 1)
        /\ rows'[n + 1] = pending[p]
        /\ \A s \in 1..n : rows'[s] = rows[s]
        /\ DurableHead(rows').seq = n + 1
    BY <1>2, <2>0, CommitExtends
  <2>2. \A s \in 1..n : rows[s].key # pending[p].key /\ rows[s].rid # pending[p].rid
    BY <1>2, <2>0, CommitExtends
  <2>3. \A s \in 1..n : LinkedRow(s)
    BY <2>1 DEF IInv, TableInv
  <2>4. \A s \in 1..n : LinkedRow(s)'
    <3>1. TAKE s \in 1..n
    <3>2. CASE s = 1
      BY <2>1, <2>3, <3>2 DEF LinkedRow
    <3>3. CASE s # 1
      <4>1. s - 1 \in 1..n
        BY <2>1, <3>3
      <4>2. QED
        BY <2>1, <2>3, <3>3, <4>1 DEF LinkedRow
    <3>4. QED
      BY <3>2, <3>3
  <2>5. LinkedRow(n + 1)'
    <3>1. pc[p] = "commit"
      BY <1>2 DEF Commit
    <3>2. /\ pending[p].seq = n + 1
          /\ pending[p].gen = n + 1
          /\ pending[p].prev = DurableHead(rows).hash
      BY <2>0, <3>1, PendingRow
    <3>3. CASE n = 0
      <4>1. DurableHead(rows).hash = GENESIS_PREVIOUS_HASH
        BY <2>0, <3>3, HeadHash DEF IInv
      <4>2. QED
        BY <2>1, <3>2, <3>3, <4>1 DEF LinkedRow
    <3>4. CASE n # 0
      <4>1. DurableHead(rows).hash = rows[n].hash /\ rows'[n] = rows[n]
        BY <2>0, <2>1, <3>4, HeadHash DEF IInv
      <4>2. n + 1 # 1 /\ (n + 1) - 1 = n
        BY <2>1, <3>4
      <4>3. QED
        BY <2>1, <3>2, <4>1, <4>2 DEF LinkedRow
    <3>5. QED
      BY <3>3, <3>4
  <2>6. \A s \in DOMAIN rows' : LinkedRow(s)'
    <3>1. \A s \in 1..(n + 1) : s \in 1..n \/ s = n + 1
      BY <2>1
    <3>2. QED
      BY <2>1, <2>4, <2>5, <3>1
  <2>7. \A s, t \in 1..n : rows[s].key = rows[t].key \/ rows[s].rid = rows[t].rid => s = t
    BY <2>1 DEF IInv, TableInv
  <2>8. \A s, t \in DOMAIN rows' :
          rows'[s].key = rows'[t].key \/ rows'[s].rid = rows'[t].rid => s = t
    BY <2>1, <2>2, <2>7
  <2>9. QED
    BY <2>1, <2>6, <2>8 DEF TableInv
<1>3. QED
  BY <1>1, <1>2, OnlyCommitWrites

LEMMA PayloadStep ==
  ASSUME IInv, [Next]_vars
  PROVE  PayloadInv'
<1>1. CASE rows' = rows
  BY <1>1 DEF IInv, PayloadInv
<1>2. ASSUME NEW p \in Procs, Commit(p)
      PROVE  PayloadInv'
  <2> DEFINE n == DurableHead(rows).seq
             Sound(e) == /\ e.env # Unparsable
                         /\ e.env_hash = H(e.env)
                         /\ e.rec.body # Unparsable
                         /\ e.rec_hash = e.rec.hash
                         /\ \E r \in Requests :
                              /\ e.meta = r.signer.ret
                              /\ e.hash = ComputeEntryHash(e, HashedMeta(r.signer))
  <2>1. /\ n \in Nat
        /\ DOMAIN rows = 1..n
        /\ DOMAIN rows' = 1..(n + 1)
        /\ rows'[n + 1] = pending[p]
        /\ \A s \in 1..n : rows'[s] = rows[s]
    BY <1>2, CommitExtends
  <2>2. Sound(pending[p])
    <3>1. pc[p] = "commit"
      BY <1>2 DEF Commit
    <3>2. pending[p] = NewRow(call[p], DurableHead(rows)) /\ call[p] \in Requests
      BY <3>1, PendingRow
    <3>3. QED
      BY <3>2, NewRowColumns, RequestsAssumption
  <2>3. \A s \in 1..n : Sound(rows[s])
    BY <2>1 DEF IInv, PayloadInv
  <2>4. \A s \in 1..(n + 1) : Sound(rows'[s])
    <3>1. \A s \in 1..(n + 1) : s \in 1..n \/ s = n + 1
      BY <2>1
    <3>2. QED
      BY <2>1, <2>2, <2>3, <3>1
  <2>5. QED
    BY <2>1, <2>4 DEF PayloadInv
<1>3. QED
  BY <1>1, <1>2, OnlyCommitWrites

\* A lookup that finds nothing for the request.
LEMMA LookupMiss ==
  ASSUME NEW r, LookupResult(r) = NoResult
  PROVE  RowsWithKey(rows, r.key) = {} /\ RowsWithRequestId(rows, r.rid) = {}
BY DEF LookupResult, NoResult, Answer

\* A step of p outside or out of a transaction leaves the others' facts alone.
LEMMA TransactionFrame ==
  ASSUME TransactionInv, NEW p \in Procs,
         rows' = rows, call' = call, pc[p] # "idle",
         pc'[p] \notin {"head", "sign", "insert", "commit"},
         \A q \in Procs : q # p => pc'[q] = pc[q] /\ pending'[q] = pending[q]
  PROVE  TransactionInv'
BY DEF TransactionInv

LEMMA TransactionStep ==
  ASSUME IInv, [Next]_vars
  PROVE  TransactionInv'
<1>0. /\ TransactionInv /\ LockInv
      /\ pc \in [Procs -> PCs] /\ DOMAIN pending = Procs /\ DOMAIN call = Procs
  BY DEF IInv, TypeOK
<1> USE <1>0 DEF Goto, Return, Rollback
<1>1. ASSUME NEW p \in Procs, NEW r \in Requests, Call(p, r)
      PROVE  TransactionInv'
  BY <1>1 DEF Call, TransactionInv
<1>2. ASSUME NEW p \in Procs, Connect(p) \/ Exhausted(p)
      PROVE  TransactionInv'
  BY <1>2, TransactionFrame DEF Connect, Exhausted
<1>3. ASSUME NEW p \in Procs, BeginImmediate(p) \/ BeginFails(p)
      PROVE  TransactionInv'
  BY <1>3, TransactionFrame DEF BeginImmediate, BeginFails
<1>4. ASSUME NEW p \in Procs, Lookup(p)
      PROVE  TransactionInv'
  <2>1. CASE LookupResult(call[p]) = NoResult
    BY <1>4, <2>1, LookupMiss DEF Lookup, TransactionInv
  <2>2. CASE LookupResult(call[p]) # NoResult
    BY <1>4, <2>2, TransactionFrame DEF Lookup
  <2>3. QED
    BY <2>1, <2>2
<1>5. ASSUME NEW p \in Procs, ReadHead(p)
      PROVE  TransactionInv'
  <2>1. CASE call[p].exp # DurableHead(rows).gen
    BY <1>5, <2>1, TransactionFrame DEF ReadHead
  <2>2. CASE call[p].exp = DurableHead(rows).gen
    BY <1>5, <2>2 DEF ReadHead, TransactionInv
  <2>3. QED
    BY <2>1, <2>2
<1>6. ASSUME NEW p \in Procs, SignEntry(p)
      PROVE  TransactionInv'
  BY <1>6 DEF SignEntry, TransactionInv
<1>7. ASSUME NEW p \in Procs, Insert(p)
      PROVE  TransactionInv'
  <2>1. CASE ViolatesUnique(rows, pending[p])
    BY <1>7, <2>1, TransactionFrame DEF Insert
  <2>2. CASE ~ ViolatesUnique(rows, pending[p])
    BY <1>7, <2>2 DEF Insert, TransactionInv
  <2>3. QED
    BY <2>1, <2>2
<1>8. ASSUME NEW p \in Procs, Commit(p)
      PROVE  TransactionInv'
  <2>1. \A q \in Procs : pc'[q] \notin InTransaction
    BY <1>8, NoneAssumption DEF Commit, LockInv, InTransaction
  <2>2. QED
    BY <1>8, <2>1 DEF Commit, TransactionInv, InTransaction
<1>9. ASSUME NEW p \in Procs, Respond(p)
      PROVE  TransactionInv'
  BY <1>9, TransactionFrame DEF Respond
<1>10. ASSUME NEW p \in Procs, DatabaseError(p) \/ Abort(p)
       PROVE  TransactionInv'
  BY <1>10, TransactionFrame DEF DatabaseError, Abort, InTransaction
<1>11. ASSUME NEW p \in Procs, Crash(p)
       PROVE  TransactionInv'
  BY <1>11, TransactionFrame DEF Crash
<1>12. CASE UNCHANGED vars
  BY <1>12 DEF vars, TransactionInv
<1>13. QED
  BY <1>1, <1>2, <1>3, <1>4, <1>5, <1>6, <1>7, <1>8, <1>9, <1>10, <1>11, <1>12, StepCases

\* A key that is stored has exactly one row, and the lookup finds that row.
LEMMA KeyHasOneRow ==
  ASSUME IInv, NEW s \in DOMAIN rows
  PROVE  /\ RowsWithKey(rows, rows[s].key) = {s}
         /\ Min(RowsWithKey(rows, rows[s].key)) = s
         /\ rows[s].gen = s
<1>1. RowsWithKey(rows, rows[s].key) = {s}
  BY DEF IInv, TableInv, RowsWithKey
<1>2. s \in Nat
  BY DEF IInv, TypeOK
<1>3. QED
  BY <1>1, <1>2, MinSingleton DEF IInv, TableInv, LinkedRow

\* A lookup that answers REPLAYED answers with the stored row.
LEMMA LookupReplay ==
  ASSUME IInv, NEW r, LookupResult(r).status = "REPLAYED"
  PROVE  \E s \in DOMAIN rows : /\ StoredFor(r, s)
                                /\ rows[s] = LookupResult(r).entry
                                /\ LookupResult(r).gen = s
<1>1. RowsWithKey(rows, r.key) # {}
  BY DEF LookupResult, Answer, NoResult
<1>2. PICK s \in DOMAIN rows : rows[s].key = r.key
  BY <1>1 DEF RowsWithKey
<1>3. Min(RowsWithKey(rows, r.key)) = s /\ rows[s].gen = s
  BY <1>2, KeyHasOneRow
<1>4. rows[s].req = r.req /\ LookupResult(r) = Answer("REPLAYED", rows[s], s)
  BY <1>1, <1>3 DEF LookupResult, Answer
<1>5. QED
  BY <1>2, <1>4 DEF StoredFor, Answer

\* A lookup never claims an append or an unknown effect.
LEMMA LookupStatuses ==
  ASSUME NEW r
  PROVE  LookupResult(r).status \in {"NONE", "REPLAYED", "IDEMPOTENCY_CONFLICT"}
BY DEF LookupResult, Answer, NoResult

LEMMA AnswerStep ==
  ASSUME IInv, [Next]_vars
  PROVE  AnswerInv'
<1>0. /\ AnswerInv /\ CommitsInv
      /\ pc \in [Procs -> PCs] /\ DOMAIN call = Procs /\ commits \in [Procs -> {0, 1}]
      /\ DOMAIN pending = Procs /\ DOMAIN result = Procs
  BY DEF IInv, TypeOK
<1> USE <1>0 DEF AnswerInv, CommitsInv, StoredFor, InTransaction, Goto, Return, Rollback, Answer
<1>1. ASSUME NEW p \in Procs, NEW r \in Requests, Call(p, r)
      PROVE  AnswerInv'
  BY <1>1 DEF Call
<1>2. ASSUME NEW p \in Procs, Connect(p) \/ Exhausted(p)
      PROVE  AnswerInv'
  BY <1>2 DEF Connect, Exhausted
<1>3. ASSUME NEW p \in Procs, BeginImmediate(p) \/ BeginFails(p)
      PROVE  AnswerInv'
  BY <1>3 DEF BeginImmediate, BeginFails
<1>4. ASSUME NEW p \in Procs, Lookup(p)
      PROVE  AnswerInv'
  <2>1. CASE LookupResult(call[p]) = NoResult
    BY <1>4, <2>1 DEF Lookup
  <2>2. CASE LookupResult(call[p]) # NoResult
    <3>1. LookupResult(call[p]).status = "REPLAYED" =>
            \E s \in DOMAIN rows : /\ StoredFor(call[p], s)
                                   /\ rows[s] = LookupResult(call[p]).entry
                                   /\ LookupResult(call[p]).gen = s
      BY LookupReplay
    <3>2. LookupResult(call[p]).status \in {"NONE", "REPLAYED", "IDEMPOTENCY_CONFLICT"}
      BY LookupStatuses
    <3>3. QED
      BY <1>4, <2>2, <3>1, <3>2 DEF Lookup
  <2>3. QED
    BY <2>1, <2>2
<1>5. ASSUME NEW p \in Procs, ReadHead(p)
      PROVE  AnswerInv'
  BY <1>5 DEF ReadHead
<1>6. ASSUME NEW p \in Procs, SignEntry(p) \/ Insert(p)
      PROVE  AnswerInv'
  BY <1>6 DEF SignEntry, Insert
<1>7. ASSUME NEW p \in Procs, Commit(p)
      PROVE  AnswerInv'
  <2>0. PICK n : n = DurableHead(rows).seq
    OBVIOUS
  <2>1. /\ n \in Nat
        /\ DOMAIN rows = 1..n
        /\ DOMAIN rows' = 1..(n + 1)
        /\ rows'[n + 1] = pending[p]
        /\ \A s \in 1..n : rows'[s] = rows[s]
    BY <1>7, <2>0, CommitExtends
  <2>2. \A s \in DOMAIN rows : s \in DOMAIN rows' /\ rows'[s] = rows[s]
    BY <2>1
  <2>3. n + 1 \in DOMAIN rows' /\ rows'[n + 1] = pending[p]
    BY <2>1
  <2>4. pending[p].key = call[p].key /\ pending[p].req = call[p].req
    BY <1>7, PendingRow, NewRowColumns DEF Commit
  <2>5. /\ pc' = [pc EXCEPT ![p] = "respond"]
        /\ UNCHANGED <<call, pending, result>>
        /\ commits' = [commits EXCEPT ![p] = @ + 1]
    BY <1>7 DEF Commit
  <2>6. QED
    BY <2>2, <2>3, <2>4, <2>5
<1>8. ASSUME NEW p \in Procs, Respond(p)
      PROVE  AnswerInv'
  <2>1. PICK s \in DOMAIN rows : StoredFor(call[p], s) /\ rows[s] = pending[p]
    BY <1>8 DEF Respond
  <2>2. rows[s].gen = s
    BY DEF IInv, TableInv, LinkedRow
  <2>3. QED
    BY <1>8, <2>1, <2>2 DEF Respond
<1>9. ASSUME NEW p \in Procs, DatabaseError(p) \/ Abort(p)
      PROVE  AnswerInv'
  BY <1>9 DEF DatabaseError, Abort
<1>10. ASSUME NEW p \in Procs, Crash(p)
       PROVE  AnswerInv'
  BY <1>10 DEF Crash
<1>11. CASE UNCHANGED vars
  BY <1>11 DEF vars
<1>12. QED
  BY <1>1, <1>2, <1>3, <1>4, <1>5, <1>6, <1>7, <1>8, <1>9, <1>10, <1>11, StepCases

LEMMA EffectStep ==
  ASSUME IInv, [Next]_vars
  PROVE  CommitsInv' /\ OutcomeMatchesEffect'
<1> DEFINE Effect == CommitsInv /\ OutcomeMatchesEffect
<1> USE DEF IInv, TypeOK, CommitsInv, OutcomeMatchesEffect, InTransaction, Goto, Return,
            Rollback, Answer, NoResult
<1>1. ASSUME NEW p \in Procs, NEW r \in Requests, Call(p, r)
      PROVE  Effect'
  BY <1>1 DEF Call
<1>2. ASSUME NEW p \in Procs, Connect(p) \/ Exhausted(p)
      PROVE  Effect'
  BY <1>2 DEF Connect, Exhausted
<1>3. ASSUME NEW p \in Procs, BeginImmediate(p) \/ BeginFails(p)
      PROVE  Effect'
  BY <1>3 DEF BeginImmediate, BeginFails
<1>4. ASSUME NEW p \in Procs, Lookup(p)
      PROVE  Effect'
  <2>1. LookupResult(call[p]).status \in {"NONE", "REPLAYED", "IDEMPOTENCY_CONFLICT"}
    BY LookupStatuses
  <2>2. QED
    BY <1>4, <2>1 DEF Lookup
<1>5. ASSUME NEW p \in Procs, ReadHead(p)
      PROVE  Effect'
  BY <1>5 DEF ReadHead
<1>6. ASSUME NEW p \in Procs, SignEntry(p) \/ Insert(p)
      PROVE  Effect'
  BY <1>6 DEF SignEntry, Insert
<1>7. ASSUME NEW p \in Procs, Commit(p)
      PROVE  Effect'
  BY <1>7 DEF Commit
<1>8. ASSUME NEW p \in Procs, Respond(p)
      PROVE  Effect'
  BY <1>8 DEF Respond
<1>9. ASSUME NEW p \in Procs, DatabaseError(p) \/ Abort(p)
      PROVE  Effect'
  BY <1>9 DEF DatabaseError, Abort
<1>10. ASSUME NEW p \in Procs, Crash(p)
       PROVE  Effect'
  BY <1>10 DEF Crash
<1>11. CASE UNCHANGED vars
  BY <1>11 DEF vars
<1>12. QED
  BY <1>1, <1>2, <1>3, <1>4, <1>5, <1>6, <1>7, <1>8, <1>9, <1>10, <1>11, StepCases

LEMMA InitInv ==
  ASSUME Init
  PROVE  IInv
<1> USE DEF Init
<1>1. DOMAIN rows = {}
  BY DEF EmptyTable
<1>2. TypeOK
  BY <1>1, MaxAttemptsAssumption DEF TypeOK, PCs, Statuses, NoResult
<1>3. LockInv
  BY NoneAssumption DEF LockInv, InTransaction
<1>4. TableInv
  <2>1. DurableHead(rows).seq = 0
    BY <1>1, HeadEmpty
  <2>2. QED
    BY <1>1, <2>1 DEF TableInv
<1>5. PayloadInv
  BY <1>1 DEF PayloadInv
<1>6. TransactionInv /\ AnswerInv /\ CommitsInv /\ OutcomeMatchesEffect
  BY DEF TransactionInv, AnswerInv, CommitsInv, OutcomeMatchesEffect, InTransaction
<1>7. QED
  BY <1>2, <1>3, <1>4, <1>5, <1>6 DEF IInv

-----------------------------------------------------------------------------
(* The theorems.                                                           *)

\* The inductive invariant of append_or_replay holds in every reachable state.
THEOREM Invariance == Spec => []IInv
<1>1. Init => IInv
  BY InitInv
<1>2. IInv /\ [Next]_vars => IInv'
  BY TypeStep, LockStep, TableStep, PayloadStep, TransactionStep, AnswerStep, EffectStep
     DEF IInv
<1>3. QED
  BY <1>1, <1>2, PTL DEF Spec

\* Type correctness; in particular no call makes more than MaxAttempts attempts.
THEOREM TypeCorrect == Spec => []TypeOK
<1>1. IInv => TypeOK
  BY DEF IInv
<1>2. QED
  BY <1>1, Invariance, PTL

\* A row that is about to be written collides with no stored row.
LEMMA NoUniqueViolation ==
  ASSUME IInv, NEW p \in Procs, pc[p] \in {"sign", "insert", "commit"}
  PROVE  ~ ViolatesUnique(rows, pending[p])
<1> DEFINE n == DurableHead(rows).seq
<1>1. n \in Nat /\ DOMAIN rows = 1..n
  BY DEF IInv, TableInv
<1>2. pending[p].seq = n + 1 /\ pending[p] = NewRow(call[p], DurableHead(rows))
  BY PendingRow
<1>3. pending[p].seq \notin DOMAIN rows
  BY <1>1, <1>2
<1>4. pending[p].key = call[p].key /\ pending[p].rid = call[p].rid
  BY <1>2, NewRowColumns
<1>5. \A s \in DOMAIN rows : rows[s].key # pending[p].key /\ rows[s].rid # pending[p].rid
  BY <1>4 DEF IInv, TransactionInv, RowsWithKey, RowsWithRequestId
<1>6. \A s \in DOMAIN rows : rows[s].hash # pending[p].hash
  <2>1. TAKE s \in DOMAIN rows
  <2>2. PICK r \in Requests : rows[s].hash = ComputeEntryHash(rows[s], HashedMeta(r.signer))
    BY DEF IInv, PayloadInv
  <2>3. pending[p].hash = ComputeEntryHash(pending[p], HashedMeta(call[p].signer))
    BY <1>2, NewRowColumns
  <2>4. rows[s].seq # pending[p].seq
    BY <1>1, <1>2 DEF IInv, TableInv, LinkedRow
  <2>5. QED
    BY <2>2, <2>3, <2>4, HashSeparatesSequences
<1>7. QED
  BY <1>3, <1>5, <1>6 DEF ViolatesUnique

\* The uniqueness and generation checks of append_or_replay are not stale when
\* the row is inserted and committed, whatever other processes do meanwhile.
THEOREM ChecksAreFresh == Spec => []ChecksHoldAtWrite
<1>1. IInv => ChecksHoldAtWrite
  <2>1. SUFFICES ASSUME IInv, NEW p \in Procs, pc[p] \in {"insert", "commit"}
                 PROVE  /\ ~ ViolatesUnique(rows, pending[p])
                        /\ pending[p] = NewRow(call[p], DurableHead(rows))
                        /\ call[p].exp = DurableHead(rows).gen
    BY DEF ChecksHoldAtWrite
  <2>2. ~ ViolatesUnique(rows, pending[p])
    BY <2>1, NoUniqueViolation
  <2>3. QED
    BY <2>1, <2>2 DEF IInv, TransactionInv
<1>2. QED
  BY <1>1, Invariance, PTL

\* Every answer of append_or_replay, and its unknown-effect error, tells
\* whether the call committed a row (another exception does not).
THEOREM OutcomeIsEffect == Spec => []OutcomeMatchesEffect
<1>1. IInv => OutcomeMatchesEffect
  BY DEF IInv
<1>2. QED
  BY <1>1, Invariance, PTL

\* The lookup replays the stored row of a request.
LEMMA StoredIsReplayed ==
  ASSUME IInv, NEW r, NEW s \in DOMAIN rows, StoredFor(r, s)
  PROVE  LookupResult(r) = Answer("REPLAYED", rows[s], s)
<1>1. RowsWithKey(rows, r.key) = {s} /\ Min(RowsWithKey(rows, r.key)) = s /\ rows[s].gen = s
  BY KeyHasOneRow DEF StoredFor
<1>2. QED
  BY <1>1 DEF LookupResult, StoredFor

\* A request that was acknowledged, or whose call committed before it raised,
\* stays stored, and a retry is answered with the same row and generation.
THEOREM AnswersDurable == Spec => []AnswersAreDurable
<1>1. IInv => AnswersAreDurable
  <2>1. SUFFICES ASSUME IInv, NEW p \in Procs, pc[p] = "done",
                        commits[p] = 1 \/ result[p].status = "REPLAYED"
                 PROVE  /\ LookupResult(call[p]).status = "REPLAYED"
                        /\ result[p].status \in {"APPENDED", "REPLAYED"} =>
                             /\ LookupResult(call[p]).entry = result[p].entry
                             /\ LookupResult(call[p]).gen = result[p].gen
    BY DEF AnswersAreDurable
  <2>2. CASE result[p].status \notin {"APPENDED", "REPLAYED"}
    <3>1. PICK s \in DOMAIN rows : StoredFor(call[p], s)
      BY <2>1, <2>2 DEF IInv, AnswerInv
    <3>2. QED
      BY <2>1, <2>2, <3>1, StoredIsReplayed DEF Answer
  <2>3. CASE result[p].status \in {"APPENDED", "REPLAYED"}
    <3>1. PICK s \in DOMAIN rows : /\ StoredFor(call[p], s)
                                   /\ rows[s] = result[p].entry
                                   /\ result[p].gen = s
      BY <2>1, <2>3 DEF IInv, AnswerInv
    <3>2. QED
      BY <2>1, <3>1, StoredIsReplayed DEF Answer
  <2>4. QED
    BY <2>1, <2>2, <2>3
<1>2. QED
  BY <1>1, Invariance, PTL

\* Committed rows are never changed or removed, and every COMMIT raises the
\* generation of the head by exactly one.
THEOREM LedgerAppendOnly == Spec => AppendOnly
<1> DEFINE Appends == /\ \A s \in DOMAIN rows : s \in DOMAIN rows' /\ rows'[s] = rows[s]
                      /\ DurableHead(rows').gen = DurableHead(rows).gen + 1
<1>1. IInv /\ [Next]_vars => [Appends]_rows
  <2>1. SUFFICES ASSUME IInv, NEW p \in Procs, Commit(p)
                 PROVE  Appends
    BY OnlyCommitWrites
  <2>2. PICK n : n = DurableHead(rows).seq
    OBVIOUS
  <2>3. DurableHead(rows).gen = n
    BY <2>1, <2>2, HeadGeneration DEF IInv
  <2>4. /\ n \in Nat
        /\ DOMAIN rows = 1..n
        /\ DOMAIN rows' = 1..(n + 1)
        /\ \A s \in 1..n : rows'[s] = rows[s]
        /\ DurableHead(rows').gen = n + 1
    BY <2>1, <2>2, CommitExtends
  <2>5. QED
    BY <2>3, <2>4
<1>2. QED
  BY <1>1, Invariance, PTL DEF Spec, AppendOnly

\* With signers whose metadata enters the hash as it is stored, verify_chain
\* accepts the ledger in every reachable state.
THEOREM ChainAlwaysVerifies == ASSUME SignersConsistent PROVE Spec => []ChainVerifies
<1>1. ASSUME IInv, NEW s \in DOMAIN rows
      PROVE  RowStatus(rows, s, AnyLedger) = "OK"
  <2> DEFINE n == DurableHead(rows).seq
  <2>1. n \in Nat /\ DOMAIN rows = 1..n /\ s \in 1..n
    BY <1>1 DEF IInv, TableInv
  <2>2. s = 1 \/ (s - 1 \in DOMAIN rows /\ rows[s - 1].gen = s - 1)
    <3>1. s = 1 \/ s - 1 \in DOMAIN rows
      BY <2>1
    <3>2. QED
      BY <1>1, <3>1 DEF IInv, TableInv, LinkedRow
  <2>3. LinkedRow(s)
    BY <1>1 DEF IInv, TableInv
  <2>4. rows[s].hash = ComputeEntryHash(rows[s], rows[s].meta)
    BY <1>1 DEF IInv, PayloadInv, SignersConsistent
  <2>5. /\ rows[s].env # Unparsable
        /\ rows[s].env_hash = H(rows[s].env)
        /\ rows[s].rec.body # Unparsable
        /\ rows[s].rec_hash = rows[s].rec.hash
    BY <1>1 DEF IInv, PayloadInv
  <2>6. QED
    BY <2>1, <2>2, <2>3, <2>4, <2>5 DEF RowStatus, LinkedRow
<1>2. IInv => ChainVerifies
  BY <1>1 DEF ChainVerifies, ChainValid, VerifyChainStatus, BadRows
<1>3. QED
  BY <1>2, Invariance, PTL
=============================================================================
