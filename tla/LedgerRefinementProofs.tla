------------------------ MODULE LedgerRefinementProofs ------------------------
(***************************************************************************)
(* append_or_replay implements AbstractLedger: the proof.  COMMIT is the   *)
(* step that binds the key; a step that answers the caller is the step     *)
(* that answers in AbstractLedger; every other step is a stutter.          *)
(***************************************************************************)
EXTENDS LedgerProofs, SequenceTheorems

\* What the mapping needs besides IInv: only a finished call has a result, a
\* result is a record, and a committed row is the binding of its request.
ResultInv ==
  \A p \in Procs :
    /\ pc[p] # "done" => result[p] = NoResult
    /\ result[p] = Answer(result[p].status, result[p].entry, result[p].gen)
    /\ pc[p] = "respond" => Promise(pending[p]) = Abstract!Binding(call[p], pending[p].gen)

LEMMA ResultInit ==
  ASSUME Init
  PROVE  ResultInv
BY DEF Init, ResultInv, NoResult, Answer

\* The promise of a new row is the binding of its request.
LEMMA NewRowPromise ==
  ASSUME NEW r, NEW h
  PROVE  Promise(NewRow(r, h)) = Abstract!Binding(r, NewRow(r, h).gen)
BY NewRowColumns DEF Promise, Abstract!Binding

LEMMA ResultStep ==
  ASSUME IInv, ResultInv, [Next]_vars
  PROVE  ResultInv'
<1> USE DEF IInv, TypeOK, ResultInv, Goto, Return, Rollback, Answer, NoResult
<1>1. ASSUME NEW p \in Procs, NEW r \in Requests, Call(p, r)
      PROVE  ResultInv'
  BY <1>1 DEF Call
<1>2. ASSUME NEW p \in Procs, Connect(p) \/ Exhausted(p)
      PROVE  ResultInv'
  BY <1>2 DEF Connect, Exhausted
<1>3. ASSUME NEW p \in Procs, BeginImmediate(p) \/ BeginFails(p)
      PROVE  ResultInv'
  BY <1>3 DEF BeginImmediate, BeginFails
<1>4. ASSUME NEW p \in Procs, Lookup(p)
      PROVE  ResultInv'
  <2>1. LookupResult(call[p]) = [status |-> LookupResult(call[p]).status,
                                 entry |-> LookupResult(call[p]).entry,
                                 gen |-> LookupResult(call[p]).gen]
    BY DEF LookupResult
  <2>2. QED
    BY <1>4, <2>1 DEF Lookup
<1>5. ASSUME NEW p \in Procs, ReadHead(p)
      PROVE  ResultInv'
  BY <1>5 DEF ReadHead
<1>6. ASSUME NEW p \in Procs, SignEntry(p) \/ Insert(p)
      PROVE  ResultInv'
  BY <1>6 DEF SignEntry, Insert
<1>7. ASSUME NEW p \in Procs, Commit(p)
      PROVE  ResultInv'
  <2>1. Promise(pending[p]) = Abstract!Binding(call[p], pending[p].gen)
    BY <1>7, NewRowPromise DEF Commit, TransactionInv
  <2>2. QED
    BY <1>7, <2>1 DEF Commit
<1>8. ASSUME NEW p \in Procs, Respond(p)
      PROVE  ResultInv'
  BY <1>8 DEF Respond
<1>9. ASSUME NEW p \in Procs, DatabaseError(p) \/ Abort(p)
      PROVE  ResultInv'
  BY <1>9 DEF DatabaseError, Abort, InTransaction
<1>10. ASSUME NEW p \in Procs, Crash(p)
       PROVE  ResultInv'
  BY <1>10 DEF Crash
<1>11. CASE UNCHANGED vars
  BY <1>11 DEF vars
<1>12. QED
  BY <1>1, <1>2, <1>3, <1>4, <1>5, <1>6, <1>7, <1>8, <1>9, <1>10, <1>11, StepCases

-----------------------------------------------------------------------------
\* The rows 1..n promise a sequence of length n.
LEMMA LogIsSequence ==
  ASSUME TableInv
  PROVE  /\ AbstractLog \in Seq({Promise(rows[s]) : s \in DOMAIN rows})
         /\ Len(AbstractLog) = DurableHead(rows).seq
         /\ DOMAIN AbstractLog = DOMAIN rows
         /\ \A s \in DOMAIN rows : AbstractLog[s] = Promise(rows[s])
<1> DEFINE n == DurableHead(rows).seq
           S == {Promise(rows[s]) : s \in DOMAIN rows}
<1>1. n \in Nat /\ DOMAIN rows = 1..n
  BY DEF TableInv
<1>2. AbstractLog \in [1..n -> S]
  BY <1>1 DEF AbstractLog
<1>3. AbstractLog \in Seq(S)
  <2>1. \E m \in Nat : AbstractLog \in [1..m -> S]
    BY <1>1, <1>2
  <2>2. QED
    BY <2>1, SeqDef, Zenon
<1>4. DOMAIN AbstractLog = 1..n
  BY <1>2
<1>5. Len(AbstractLog) = n
  BY <1>1, <1>3, <1>4
<1>6. QED
  BY <1>1, <1>3, <1>4, <1>5 DEF AbstractLog

\* Append, element by element.
LEMMA AppendAsFunction ==
  ASSUME NEW S, NEW q \in Seq(S), NEW b
  PROVE  Append(q, b) =
           [s \in 1..(Len(q) + 1) |-> IF s = Len(q) + 1 THEN b ELSE q[s]]
<1> DEFINE T == S \cup {b}
           f == [s \in 1..(Len(q) + 1) |-> IF s = Len(q) + 1 THEN b ELSE q[s]]
<1>1. q \in Seq(T) /\ b \in T /\ Len(q) \in Nat
  OBVIOUS
<1>2. /\ Append(q, b) \in Seq(T)
      /\ Len(Append(q, b)) = Len(q) + 1
      /\ \A i \in 1..Len(q) : Append(q, b)[i] = q[i]
      /\ Append(q, b)[Len(q) + 1] = b
  BY <1>1, AppendProperties
<1>3. f \in [1..(Len(q) + 1) -> T]
  <2>1. \A s \in 1..(Len(q) + 1) : s # Len(q) + 1 => q[s] \in T
    BY <1>1
  <2>2. QED
    BY <2>1
<1>4. f \in Seq(T) /\ Len(f) = Len(q) + 1
  <2>1. f \in Seq(T)
    BY <1>1, <1>3
  <2> HIDE DEF f
  <2>2. QED
    BY <1>1, <1>3, <2>1
<1>5. \A i \in 1..Len(Append(q, b)) : Append(q, b)[i] = f[i]
  BY <1>1, <1>2
<1>6. QED
  <2> HIDE DEF f, T
  <2>1. Append(q, b) = f
    BY <1>2, <1>4, <1>5, SeqEqual
  <2>2. QED
    BY <2>1 DEF f

\* COMMIT appends the binding of its request.
LEMMA CommitBinds ==
  ASSUME IInv, NEW p \in Procs, Commit(p), TableInv'
  PROVE  AbstractLog' = Append(AbstractLog, Abstract!Binding(call[p], Len(AbstractLog) + 1))
<1>0. PICK n : n = DurableHead(rows).seq
  OBVIOUS
<1>1. /\ n \in Nat
      /\ DOMAIN rows = 1..n
      /\ DOMAIN rows' = 1..(n + 1)
      /\ rows'[n + 1] = pending[p]
      /\ \A s \in 1..n : rows'[s] = rows[s]
  BY <1>0, CommitExtends
<1>2. Promise(pending[p]) = Abstract!Binding(call[p], n + 1)
  <2>1. pc[p] = "commit"
    BY DEF Commit
  <2>2. pending[p].gen = n + 1 /\ pending[p] = NewRow(call[p], DurableHead(rows))
    BY <1>0, <2>1, PendingRow
  <2>3. QED
    BY <2>2, NewRowPromise
<1>3. Len(AbstractLog) = n /\ DOMAIN AbstractLog = 1..n
      /\ \A s \in 1..n : AbstractLog[s] = Promise(rows[s])
  BY <1>0, <1>1, LogIsSequence DEF IInv
<1>4. AbstractLog' = [s \in 1..(n + 1) |-> Promise(rows'[s])]
  BY <1>1 DEF AbstractLog, Promise
<1>5. QED
  <2> DEFINE b == Abstract!Binding(call[p], n + 1)
  <2>1. Append(AbstractLog, b) = [s \in 1..(n + 1) |-> IF s = n + 1 THEN b ELSE AbstractLog[s]]
    BY <1>3, LogIsSequence, AppendAsFunction DEF IInv
  <2>2. \A s \in 1..(n + 1) :
          Promise(rows'[s]) = IF s = n + 1 THEN b ELSE AbstractLog[s]
    BY <1>1, <1>2, <1>3
  <2>3. QED
    BY <1>3, <1>4, <2>1, <2>2

-----------------------------------------------------------------------------
\* A step of p changes only p's abstract answer.
LEMMA AnswerOfOne ==
  ASSUME NEW p \in Procs,
         \A q \in Procs : q # p => pc'[q] = pc[q] /\ result'[q] = result[q]
  PROVE  AbstractAns' = [AbstractAns EXCEPT ![p] = AbstractAnswer(p)']
<1>1. \A q \in Procs : q # p => AbstractAnswer(q)' = AbstractAnswer(q)
  BY DEF AbstractAnswer, Promise
<1>2. QED
  BY <1>1 DEF AbstractAns

\* A step of p that neither changes the table nor answers is a stutter.
LEMMA SilentStep ==
  ASSUME NEW p \in Procs, rows' = rows, call' = call,
         \A q \in Procs : q # p => pc'[q] = pc[q] /\ result'[q] = result[q],
         pc[p] \notin {"idle", "done", "respond"}, pc'[p] \notin {"idle", "done", "respond"}
  PROVE  UNCHANGED Abstract!vars
<1>1. AbstractAns' = [AbstractAns EXCEPT ![p] = AbstractAnswer(p)']
  BY AnswerOfOne
<1>2. AbstractAnswer(p)' = AbstractAnswer(p)
  BY DEF AbstractAnswer
<1>3. AbstractAns' = AbstractAns
  BY <1>1, <1>2 DEF AbstractAns
<1>4. AbstractLog' = AbstractLog
  BY DEF AbstractLog, Promise
<1>5. QED
  BY <1>3, <1>4 DEF Abstract!vars

\* A step of p that answers without an entry gives that answer.
LEMMA PlainAnswer ==
  ASSUME NEW p \in Procs, rows' = rows, call' = call, NEW res,
         \A q \in Procs : q # p => pc'[q] = pc[q] /\ result'[q] = result[q],
         pc[p] \notin {"idle", "done", "respond"}, pc'[p] = "done", result'[p] = res,
         res.status \notin {"APPENDED", "REPLAYED"}
  PROVE  /\ AbstractAns[p] = Abstract!Pending
         /\ Abstract!Reply(p, res)
         /\ UNCHANGED <<AbstractLog, call>>
<1>1. AbstractAns' = [AbstractAns EXCEPT ![p] = AbstractAnswer(p)']
  BY AnswerOfOne
<1>2. AbstractAnswer(p)' = res
  BY DEF AbstractAnswer
<1>3. AbstractAns[p] = Abstract!Pending
  BY DEF AbstractAns, AbstractAnswer, Answer, Abstract!Pending, Abstract!Answer
<1>4. AbstractLog' = AbstractLog
  BY DEF AbstractLog, Promise
<1>5. QED
  BY <1>1, <1>2, <1>3, <1>4 DEF Abstract!Reply

\* Giving up or raising is Fail.
LEMMA FailStep ==
  ASSUME NEW p \in Procs, rows' = rows, call' = call,
         NEW status \in {"BUSY_RETRY_EXHAUSTED", "RAISED"},
         \A q \in Procs : q # p => pc'[q] = pc[q] /\ result'[q] = result[q],
         pc[p] \notin {"idle", "done", "respond"}, pc'[p] = "done",
         result'[p] = Answer(status, None, 0)
  PROVE  Abstract!Fail(p)
<1>1. Answer(status, None, 0).status \notin {"APPENDED", "REPLAYED"}
  BY DEF Answer
<1>2. /\ AbstractAns[p] = Abstract!Pending
      /\ Abstract!Reply(p, Answer(status, None, 0))
      /\ UNCHANGED <<AbstractLog, call>>
  BY <1>1, PlainAnswer
<1>3. QED
  BY <1>2 DEF Abstract!Fail, Answer, Abstract!Answer

\* Entering append_or_replay is Invoke.
LEMMA CallInvokes ==
  ASSUME IInv, ResultInv, NEW p \in Procs, NEW r \in Requests, Call(p, r)
  PROVE  Abstract!Invoke(p, r)
<1> USE DEF IInv, TypeOK
<1>1. /\ pc[p] \in {"idle", "done"} /\ pc'[p] = "open" /\ rows' = rows
      /\ call' = [call EXCEPT ![p] = r]
      /\ \A q \in Procs : q # p => pc'[q] = pc[q] /\ result'[q] = result[q]
  BY DEF Call, Goto
<1>2. AbstractAns' = [AbstractAns EXCEPT ![p] = AbstractAnswer(p)']
  BY <1>1, AnswerOfOne
<1>3. AbstractAnswer(p)' = Abstract!Pending
  BY <1>1 DEF AbstractAnswer, Answer, Abstract!Pending, Abstract!Answer
<1>4. AbstractAns[p] \notin {Abstract!Pending, Abstract!Bound}
  <2>1. AbstractAnswer(p).status = result[p].status
    BY <1>1 DEF AbstractAnswer, ResultInv, Answer
  <2>2. AbstractAnswer(p).status \in Statuses
    BY <2>1
  <2>3. QED
    BY <2>2 DEF AbstractAns, Statuses, Abstract!Pending, Abstract!Bound, Abstract!Answer
<1>5. AbstractLog' = AbstractLog
  BY <1>1 DEF AbstractLog, Promise
<1>6. QED
  BY <1>1, <1>2, <1>3, <1>4, <1>5 DEF Abstract!Invoke, Abstract!Reply

\* The lookup stutters, replays or reports a conflict.
LEMMA LookupAnswers ==
  ASSUME IInv, NEW p \in Procs, Lookup(p)
  PROVE  UNCHANGED Abstract!vars \/ Abstract!Replay(p) \/ Abstract!Conflict(p)
<1> USE DEF IInv, TypeOK
<1> DEFINE res == LookupResult(call[p])
<1>1. /\ pc[p] = "lookup" /\ rows' = rows /\ call' = call
      /\ \A q \in Procs : q # p => pc'[q] = pc[q] /\ result'[q] = result[q]
  BY DEF Lookup, Goto, Return
<1>2. CASE res = NoResult
  BY <1>1, <1>2, SilentStep DEF Lookup, Goto
<1>3. CASE res # NoResult /\ res.status = "REPLAYED"
  <2>1. PICK s \in DOMAIN rows :
          StoredFor(call[p], s) /\ rows[s] = res.entry /\ res.gen = s
    BY <1>3, LookupReplay
  <2>2. res = Answer("REPLAYED", rows[s], s)
    BY <2>1, StoredIsReplayed
  <2>3. pc'[p] = "done" /\ result'[p] = res
    BY <1>3 DEF Lookup, Return, Goto
  <2>4. AbstractAnswer(p)' = Answer("REPLAYED", Promise(rows[s]), s)
    BY <2>2, <2>3 DEF AbstractAnswer, Answer, Promise
  <2>5. AbstractAns' = [AbstractAns EXCEPT ![p] = AbstractAnswer(p)']
    BY <1>1, AnswerOfOne
  <2>6. AbstractAns[p] = Abstract!Pending
    BY <1>1 DEF AbstractAns, AbstractAnswer, Answer, Abstract!Pending, Abstract!Answer
  <2>7. /\ s \in DOMAIN AbstractLog
        /\ AbstractLog[s] = Promise(rows[s])
        /\ AbstractLog[s].key = call[p].key
        /\ AbstractLog[s].req = call[p].req
    BY <2>1 DEF AbstractLog, Promise, StoredFor
  <2>8. AbstractLog' = AbstractLog
    BY <1>1 DEF AbstractLog, Promise
  <2>9. Abstract!Replay(p)
    BY <1>1, <2>4, <2>5, <2>6, <2>7, <2>8
       DEF Abstract!Replay, Abstract!Reply, Answer, Abstract!Answer
  <2>10. QED
    BY <2>9
<1>4. CASE res # NoResult /\ res.status # "REPLAYED"
  <2>1. pc'[p] = "done" /\ result'[p] = res
    BY <1>4 DEF Lookup, Return, Goto
  <2>2. res.status = "IDEMPOTENCY_CONFLICT"
    BY <1>4 DEF LookupResult, Answer, NoResult
  <2>3. /\ AbstractAns[p] = Abstract!Pending
        /\ Abstract!Reply(p, res)
        /\ UNCHANGED <<AbstractLog, call>>
    BY <1>1, <2>1, <2>2, PlainAnswer
  <2>4. CASE RowsWithKey(rows, call[p].key) # {}
    <3>1. PICK s \in DOMAIN rows : rows[s].key = call[p].key
      BY <2>4 DEF RowsWithKey
    <3>2. Min(RowsWithKey(rows, call[p].key)) = s /\ rows[s].gen = s
      BY <3>1, KeyHasOneRow
    <3>3. rows[s].req # call[p].req /\ res = Answer("IDEMPOTENCY_CONFLICT", None, s)
      BY <1>4, <2>4, <3>2 DEF LookupResult, Answer
    <3>4. /\ s \in DOMAIN AbstractLog
          /\ AbstractLog[s].key = call[p].key
          /\ AbstractLog[s].req # call[p].req
      BY <3>1, <3>3 DEF AbstractLog, Promise
    <3>5. QED
      BY <2>3, <3>3, <3>4 DEF Abstract!Conflict, Answer, Abstract!Answer
  <2>5. CASE RowsWithKey(rows, call[p].key) = {}
    <3>1. RowsWithRequestId(rows, call[p].rid) # {}
          /\ res = Answer("IDEMPOTENCY_CONFLICT", None, 0)
      BY <1>4, <2>5 DEF LookupResult
    <3>2. Abstract!KeyFree(call[p])
      BY <2>5 DEF Abstract!KeyFree, RowsWithKey, AbstractLog, Promise
    <3>3. ~ Abstract!RequestIdFree(call[p])
      BY <3>1 DEF Abstract!RequestIdFree, RowsWithRequestId, AbstractLog, Promise
    <3>4. QED
      BY <2>3, <3>1, <3>2, <3>3 DEF Abstract!Conflict, Answer, Abstract!Answer
  <2>6. QED
    BY <2>4, <2>5
<1>5. QED
  BY <1>2, <1>3, <1>4

\* Inside a transaction the key and the request id are free in the log too.
LEMMA FreeInLog ==
  ASSUME IInv, NEW p \in Procs, pc[p] \in {"head", "commit"}
  PROVE  Abstract!KeyFree(call[p]) /\ Abstract!RequestIdFree(call[p])
BY DEF IInv, TransactionInv, Abstract!KeyFree, Abstract!RequestIdFree, RowsWithKey,
       RowsWithRequestId, AbstractLog, Promise

\* Reading the head stutters or reports a stale generation.
LEMMA ReadHeadAnswers ==
  ASSUME IInv, NEW p \in Procs, ReadHead(p)
  PROVE  UNCHANGED Abstract!vars \/ Abstract!Stale(p)
<1> USE DEF IInv, TypeOK
<1>1. /\ pc[p] = "head" /\ rows' = rows /\ call' = call
      /\ \A q \in Procs : q # p => pc'[q] = pc[q] /\ result'[q] = result[q]
  BY DEF ReadHead, Goto, Return
<1>2. CASE call[p].exp = DurableHead(rows).gen
  BY <1>1, <1>2, SilentStep DEF ReadHead, Goto
<1>3. CASE call[p].exp # DurableHead(rows).gen
  <2> DEFINE res == Answer("STALE_GENERATION", None, DurableHead(rows).gen)
  <2>1. pc'[p] = "done" /\ result'[p] = res
    BY <1>3 DEF ReadHead, Return, Goto
  <2>2. res.status \notin {"APPENDED", "REPLAYED"}
    BY DEF Answer
  <2>3. /\ AbstractAns[p] = Abstract!Pending
        /\ Abstract!Reply(p, res)
        /\ UNCHANGED <<AbstractLog, call>>
    BY <1>1, <2>1, <2>2, PlainAnswer
  <2>4. Len(AbstractLog) = DurableHead(rows).gen
    BY LogIsSequence, HeadGeneration
  <2>5. QED
    BY <1>1, <1>3, <2>3, <2>4, FreeInLog DEF Abstract!Stale, Answer, Abstract!Answer
<1>4. QED
  BY <1>2, <1>3

\* COMMIT is Bind.
LEMMA CommitIsBind ==
  ASSUME IInv, NEW p \in Procs, Commit(p), TableInv'
  PROVE  Abstract!Bind(p)
<1> USE DEF IInv, TypeOK
<1>1. /\ pc[p] = "commit" /\ pc'[p] = "respond" /\ call' = call
      /\ \A q \in Procs : q # p => pc'[q] = pc[q] /\ result'[q] = result[q]
  BY DEF Commit, Goto
<1>2. AbstractAns' = [AbstractAns EXCEPT ![p] = AbstractAnswer(p)']
  BY <1>1, AnswerOfOne
<1>3. AbstractAnswer(p)' = Abstract!Bound
  BY <1>1 DEF AbstractAnswer, Answer, Abstract!Bound, Abstract!Answer
<1>4. AbstractAns[p] = Abstract!Pending
  BY <1>1 DEF AbstractAns, AbstractAnswer, Answer, Abstract!Pending, Abstract!Answer
<1>5. call[p].exp = Len(AbstractLog)
  BY <1>1, LogIsSequence, HeadGeneration DEF TransactionInv
<1>6. AbstractLog' = Append(AbstractLog, Abstract!Binding(call[p], Len(AbstractLog) + 1))
  BY CommitBinds
<1>7. QED
  BY <1>1, <1>2, <1>3, <1>4, <1>5, <1>6, FreeInLog DEF Abstract!Bind, Abstract!Reply

\* The answer after COMMIT is Acknowledge.
LEMMA RespondAcknowledges ==
  ASSUME IInv, ResultInv, NEW p \in Procs, Respond(p)
  PROVE  Abstract!Acknowledge(p)
<1> USE DEF IInv, TypeOK
<1>1. /\ pc[p] = "respond" /\ pc'[p] = "done" /\ rows' = rows /\ call' = call
      /\ \A q \in Procs : q # p => pc'[q] = pc[q] /\ result'[q] = result[q]
      /\ \/ result'[p] = Answer("APPENDED", pending[p], pending[p].gen)
         \/ \E status \in {"UNKNOWN_EFFECT", "RAISED"} : result'[p] = Answer(status, None, 0)
  BY DEF Respond, Goto, Return
<1>2. AbstractAns' = [AbstractAns EXCEPT ![p] = AbstractAnswer(p)']
  BY <1>1, AnswerOfOne
<1>3. AbstractAns[p] = Abstract!Bound
  BY <1>1 DEF AbstractAns, AbstractAnswer, Answer, Abstract!Bound, Abstract!Answer
<1>4. AbstractLog' = AbstractLog
  BY <1>1 DEF AbstractLog, Promise
<1>5. ASSUME NEW status \in {"UNKNOWN_EFFECT", "RAISED"},
             result'[p] = Answer(status, None, 0)
      PROVE  Abstract!Acknowledge(p)
  <2>1. AbstractAnswer(p)' = Abstract!Answer(status, None, 0)
    BY <1>1, <1>5 DEF AbstractAnswer, Answer, Abstract!Answer
  <2>2. QED
    BY <1>1, <1>2, <1>3, <1>4, <1>5, <2>1 DEF Abstract!Acknowledge, Abstract!Reply
<1>6. CASE result'[p] = Answer("APPENDED", pending[p], pending[p].gen)
  <2>1. PICK s \in DOMAIN rows : StoredFor(call[p], s) /\ rows[s] = pending[p]
    BY <1>1 DEF AnswerInv
  <2>2. rows[s].gen = s
    BY DEF TableInv, LinkedRow
  <2>3. /\ s \in DOMAIN AbstractLog
        /\ AbstractLog[s] = Promise(pending[p])
        /\ AbstractLog[s].key = call[p].key
    BY <2>1 DEF AbstractLog, Promise, StoredFor
  <2>4. AbstractLog[s] = Abstract!Binding(call[p], s)
    BY <1>1, <2>1, <2>2, <2>3 DEF ResultInv
  <2>5. AbstractAnswer(p)' = Abstract!Answer("APPENDED", AbstractLog[s], s)
    BY <1>1, <1>6, <2>1, <2>2, <2>3 DEF AbstractAnswer, Answer, Abstract!Answer, Promise
  <2>6. QED
    BY <1>1, <1>2, <1>3, <1>4, <2>3, <2>4, <2>5 DEF Abstract!Acknowledge, Abstract!Reply
<1>7. QED
  BY <1>1, <1>5, <1>6

\* The death of a process is Vanish.
LEMMA CrashVanishes ==
  ASSUME IInv, ResultInv, NEW p \in Procs, Crash(p)
  PROVE  Abstract!Vanish(p)
<1> USE DEF IInv, TypeOK
<1>1. /\ pc[p] \notin {"idle", "done"} /\ pc'[p] = "idle" /\ rows' = rows /\ call' = call
      /\ result' = result
      /\ \A q \in Procs : q # p => pc'[q] = pc[q] /\ result'[q] = result[q]
  BY DEF Crash, Goto
<1>2. AbstractAns' = [AbstractAns EXCEPT ![p] = AbstractAnswer(p)']
  BY <1>1, AnswerOfOne
<1>3. AbstractAns[p] \in {Abstract!Pending, Abstract!Bound}
  BY <1>1 DEF AbstractAns, AbstractAnswer, Answer, Abstract!Pending, Abstract!Bound,
              Abstract!Answer
<1>4. AbstractAnswer(p)' = Abstract!Silent
  BY <1>1 DEF AbstractAnswer, ResultInv, NoResult, Abstract!Silent, Abstract!Answer
<1>5. AbstractLog' = AbstractLog
  BY <1>1 DEF AbstractLog, Promise
<1>6. QED
  BY <1>1, <1>2, <1>3, <1>4, <1>5 DEF Abstract!Vanish, Abstract!Reply

\* Every step of append_or_replay is a step of AbstractLedger or a stutter.
LEMMA StepRefines ==
  ASSUME IInv, ResultInv, IInv', [Next]_vars
  PROVE  [Abstract!Next]_(Abstract!vars)
<1> USE DEF IInv, TypeOK
<1>1. ASSUME NEW p \in Procs, NEW r \in Requests, Call(p, r)
      PROVE  [Abstract!Next]_(Abstract!vars)
  BY <1>1, CallInvokes DEF Abstract!Next
<1>2. ASSUME NEW p \in Procs,
             \/ Connect(p) \/ Exhausted(p) \/ BeginImmediate(p) \/ BeginFails(p)
             \/ SignEntry(p) \/ Insert(p) \/ DatabaseError(p) \/ Abort(p)
      PROVE  [Abstract!Next]_(Abstract!vars)
  <2>1. /\ pc[p] \notin {"idle", "done", "respond"} /\ rows' = rows /\ call' = call
        /\ \A q \in Procs : q # p => pc'[q] = pc[q] /\ result'[q] = result[q]
        /\ \/ pc'[p] \notin {"idle", "done", "respond"}
           \/ /\ pc'[p] = "done"
              /\ \E status \in {"BUSY_RETRY_EXHAUSTED", "RAISED"} :
                   result'[p] = Answer(status, None, 0)
    BY <1>2 DEF Connect, Exhausted, BeginImmediate, BeginFails, SignEntry, Insert,
                DatabaseError, Abort, InTransaction, Goto, Return
  <2>2. CASE pc'[p] \notin {"idle", "done", "respond"}
    BY <2>1, <2>2, SilentStep
  <2>3. CASE pc'[p] = "done"
    <3>1. PICK status \in {"BUSY_RETRY_EXHAUSTED", "RAISED"} :
            result'[p] = Answer(status, None, 0)
      BY <2>1, <2>3
    <3>2. Abstract!Fail(p)
      BY <2>1, <2>3, <3>1, FailStep
    <3>3. QED
      BY <3>2 DEF Abstract!Next
  <2>4. QED
    BY <2>1, <2>2, <2>3
<1>3. ASSUME NEW p \in Procs, Lookup(p)
      PROVE  [Abstract!Next]_(Abstract!vars)
  BY <1>3, LookupAnswers DEF Abstract!Next
<1>4. ASSUME NEW p \in Procs, ReadHead(p)
      PROVE  [Abstract!Next]_(Abstract!vars)
  BY <1>4, ReadHeadAnswers DEF Abstract!Next
<1>5. ASSUME NEW p \in Procs, Commit(p)
      PROVE  [Abstract!Next]_(Abstract!vars)
  BY <1>5, CommitIsBind DEF Abstract!Next
<1>6. ASSUME NEW p \in Procs, Respond(p)
      PROVE  [Abstract!Next]_(Abstract!vars)
  BY <1>6, RespondAcknowledges DEF Abstract!Next
<1>7. ASSUME NEW p \in Procs, Crash(p)
      PROVE  [Abstract!Next]_(Abstract!vars)
  BY <1>7, CrashVanishes DEF Abstract!Next
<1>8. CASE UNCHANGED vars
  BY <1>8 DEF vars, Abstract!vars, AbstractLog, AbstractAns, AbstractAnswer, Promise
<1>9. QED
  BY <1>1, <1>2, <1>3, <1>4, <1>5, <1>6, <1>7, <1>8, StepCases

LEMMA InitRefines ==
  ASSUME Init
  PROVE  Abstract!Init
<1>1. AbstractLog = << >>
  BY DEF Init, AbstractLog, EmptyTable
<1>2. AbstractAns = [p \in Procs |-> Abstract!Silent]
  BY DEF Init, AbstractAns, AbstractAnswer, NoResult, Abstract!Silent, Abstract!Answer
<1>3. QED
  BY <1>1, <1>2 DEF Init, Abstract!Init

\* append_or_replay, run by any number of processes with contention, errors and
\* crashes, keeps the promise AbstractLedger states: keys are bound at most
\* once, at the expected generation, and replayed exactly.
THEOREM LedgerImplementsPromise == Spec => ImplementsAbstractLedger
<1>1. Init => Abstract!Init
  BY InitRefines
<1>2. Init => ResultInv
  BY ResultInit
<1>3. IInv /\ ResultInv /\ [Next]_vars => ResultInv'
  BY ResultStep
<1>4. IInv /\ ResultInv /\ IInv' /\ [Next]_vars => [Abstract!Next]_(Abstract!vars)
  BY StepRefines
<1>5. QED
  BY <1>1, <1>2, <1>3, <1>4, Invariance, PTL DEF Spec, ImplementsAbstractLedger, Abstract!Spec
=============================================================================
