------------------------------- MODULE Ledger -------------------------------
(***************************************************************************)
(* append_or_replay of product/ledger.py, called by several processes on   *)
(* one SQLite file.  A call runs at most MaxAttempts times through: open   *)
(* the file, BEGIN IMMEDIATE, look the idempotency key and the request id  *)
(* up, read the head and compare generations, sign, INSERT, COMMIT and     *)
(* answer.  Every one of these is a step of its own, so that the steps of  *)
(* other processes, a database error, an exception of the signer or the    *)
(* death of the process can fall between any two of them.                  *)
(*                                                                         *)
(* SQLite itself is external: a transaction's INSERT is private until      *)
(* COMMIT, COMMIT is atomic and durable (journal_mode=WAL,                 *)
(* synchronous=FULL), BEGIN IMMEDIATE takes the only write lock, and a     *)
(* closed or dead connection rolls back and releases it.                   *)
(***************************************************************************)
EXTENDS LedgerOps

CONSTANTS
  Procs,         \* the processes (or threads) that call append_or_replay
  Requests,      \* the LedgerAppendRequest values they call it with
  MaxAttempts,   \* MAX_CONTENTION_ATTEMPTS
  None           \* nobody, no request, no entry

(***************************************************************************)
(* A request carries a parsed, valid envelope and receipt: malformed bytes *)
(* raise ValueError before the ledger is opened.                           *)
(***************************************************************************)
ASSUME RequestsAssumption ==
  \A r \in Requests : r.exp \in Nat /\ r.env # Unparsable /\ r.rec.body # Unparsable

ASSUME MaxAttemptsAssumption == MaxAttempts \in Nat \ {0}

ASSUME NoneAssumption == None \notin Procs

VARIABLES
  rows,       \* the committed table
  writer,     \* the process whose transaction holds the write lock
  pc,         \* where each call is
  call,       \* the request of the current (or last) call of each process
  attempts,   \* the contention attempts of the current call
  pending,    \* the row the current transaction will write or has written
  result,     \* what the last call returned or raised
  commits     \* history: the commits made by the current call

vars == <<rows, writer, pc, call, attempts, pending, result, commits>>

InTransaction == {"lookup", "head", "sign", "insert", "commit"}

PCs == {"idle", "open", "begin", "respond", "done"} \cup InTransaction

\* LedgerAppendStatus, and what is raised instead of an answer: UNKNOWN_EFFECT
\* is UnknownEffectError, RAISED any other exception.
Statuses == {"NONE", "APPENDED", "REPLAYED", "STALE_GENERATION",
             "IDEMPOTENCY_CONFLICT", "BUSY_RETRY_EXHAUSTED",
             "UNKNOWN_EFFECT", "RAISED"}

NoResult == [status |-> "NONE", entry |-> None, gen |-> 0]

Answer(status, entry, gen) == [status |-> status, entry |-> entry, gen |-> gen]

EmptyTable == [s \in {} |-> None]

Init ==
  /\ rows = EmptyTable
  /\ writer = None
  /\ pc = [p \in Procs |-> "idle"]
  /\ call = [p \in Procs |-> None]
  /\ attempts = [p \in Procs |-> 0]
  /\ pending = [p \in Procs |-> None]
  /\ result = [p \in Procs |-> NoResult]
  /\ commits = [p \in Procs |-> 0]

-----------------------------------------------------------------------------
\* p moves to the program point `to`.
Goto(p, to) == pc' = [pc EXCEPT ![p] = to]

\* p's call ends with the result res.
Return(p, res) ==
  /\ Goto(p, "done")
  /\ result' = [result EXCEPT ![p] = res]

\* ROLLBACK, or close() of a connection inside a transaction.
Rollback(p) ==
  /\ writer' = None
  /\ pending' = [pending EXCEPT ![p] = None]

\* p enters append_or_replay with the request r.
Call(p, r) ==
  /\ pc[p] \in {"idle", "done"}
  /\ Goto(p, "open")
  /\ call' = [call EXCEPT ![p] = r]
  /\ attempts' = [attempts EXCEPT ![p] = 0]
  /\ result' = [result EXCEPT ![p] = NoResult]
  /\ commits' = [commits EXCEPT ![p] = 0]
  /\ UNCHANGED <<rows, writer, pending>>

\* Mutant: the bound of the contention loop is off by one.
ConnectOnceMore(p) ==
  /\ pc[p] = "open"
  /\ attempts[p] <= MaxAttempts
  /\ attempts' = [attempts EXCEPT ![p] = @ + 1]
  /\ Goto(p, "begin")
  /\ UNCHANGED <<rows, writer, call, pending, result, commits>>

\* The next attempt of the contention loop: _connect_ledger succeeds, finds
\* the file busy (sleep and try again) or raises.
Connect(p) ==
  /\ pc[p] = "open"
  /\ attempts[p] < MaxAttempts
  /\ attempts' = [attempts EXCEPT ![p] = @ + 1]
  /\ \/ Goto(p, "begin") /\ UNCHANGED result
     \/ Goto(p, "open") /\ UNCHANGED result
     \/ Return(p, Answer("RAISED", None, 0))
  /\ UNCHANGED <<rows, writer, call, pending, commits>>

\* The loop ends without an answer.
Exhausted(p) ==
  /\ pc[p] = "open"
  /\ attempts[p] >= MaxAttempts
  /\ Return(p, Answer("BUSY_RETRY_EXHAUSTED", None, 0))
  /\ UNCHANGED <<rows, writer, call, attempts, pending, commits>>

\* Mutant: BEGIN (deferred) does not take the write lock.
BeginDeferred(p) ==
  /\ pc[p] = "begin"
  /\ Goto(p, "lookup")
  /\ UNCHANGED <<rows, writer, call, attempts, pending, result, commits>>

\* BEGIN IMMEDIATE takes the write lock.
BeginImmediate(p) ==
  /\ pc[p] = "begin"
  /\ writer = None
  /\ writer' = p
  /\ Goto(p, "lookup")
  /\ UNCHANGED <<rows, call, attempts, pending, result, commits>>

\* Mutant: an attempt that finds the lock taken is not counted.
BeginFailsUncounted(p) ==
  /\ pc[p] = "begin"
  /\ writer # None
  /\ Goto(p, "open")
  /\ attempts' = [attempts EXCEPT ![p] = @ - 1]
  /\ UNCHANGED <<rows, writer, call, pending, result, commits>>

\* BEGIN IMMEDIATE fails: the busy timeout expires while another process
\* holds the lock (sleep and try again), or another error is raised.
BeginFails(p) ==
  /\ pc[p] = "begin"
  /\ \/ writer # None /\ Goto(p, "open") /\ UNCHANGED result
     \/ Return(p, Answer("RAISED", None, 0))
  /\ UNCHANGED <<rows, writer, call, attempts, pending, commits>>

\* Mutant: the stored request hash is not compared.
LookupIgnoringRequest(r) ==
  LET hit == RowsWithKey(rows, r.key)
  IN  IF hit # {}
      THEN Answer("REPLAYED", rows[Min(hit)], rows[Min(hit)].gen)
      ELSE NoResult

\* The idempotency key, then the request id: what the table already holds
\* for them ends the call.
LookupResult(r) ==
  LET hit == RowsWithKey(rows, r.key)
  IN  IF hit # {}
      THEN LET e == rows[Min(hit)]
           IN  IF e.req # r.req
               THEN Answer("IDEMPOTENCY_CONFLICT", None, e.gen)
               ELSE Answer("REPLAYED", e, e.gen)
      ELSE IF RowsWithRequestId(rows, r.rid) # {}
           THEN Answer("IDEMPOTENCY_CONFLICT", None, 0)
           ELSE NoResult

Lookup(p) ==
  /\ pc[p] = "lookup"
  /\ LET res == LookupResult(call[p])
     IN  IF res = NoResult
         THEN Goto(p, "head") /\ UNCHANGED <<writer, pending, result>>
         ELSE Rollback(p) /\ Return(p, res)
  /\ UNCHANGED <<rows, call, attempts, commits>>

\* Read the durable head and compare the expected generation with it; the row
\* that follows this head is the one to be signed and written.
ReadHead(p) ==
  LET h == DurableHead(rows)
  IN  /\ pc[p] = "head"
      /\ IF call[p].exp # h.gen
         THEN Rollback(p) /\ Return(p, Answer("STALE_GENERATION", None, h.gen))
         ELSE /\ Goto(p, "sign")
              /\ pending' = [pending EXCEPT ![p] = NewRow(call[p], h)]
              /\ UNCHANGED <<writer, result>>
      /\ UNCHANGED <<rows, call, attempts, commits>>

\* The signer, if there is one, answers inside the transaction.
SignEntry(p) ==
  /\ pc[p] = "sign"
  /\ Goto(p, "insert")
  /\ UNCHANGED <<rows, writer, call, attempts, pending, result, commits>>

\* The INSERT runs under the table's UNIQUE constraints; an IntegrityError is
\* not caught and reaches the caller.
Insert(p) ==
  /\ pc[p] = "insert"
  /\ IF ViolatesUnique(rows, pending[p])
     THEN Rollback(p) /\ Return(p, Answer("RAISED", None, 0))
     ELSE Goto(p, "commit") /\ UNCHANGED <<writer, pending, result>>
  /\ UNCHANGED <<rows, call, attempts, commits>>

\* Mutant: the commit is acknowledged before it is durable, and lost.
CommitLost(p) ==
  /\ pc[p] = "commit"
  /\ writer' = None
  /\ commits' = [commits EXCEPT ![p] = @ + 1]
  /\ Goto(p, "respond")
  /\ UNCHANGED <<rows, call, attempts, pending, result>>

\* COMMIT makes the row durable and visible and releases the lock.
Commit(p) ==
  /\ pc[p] = "commit"
  /\ rows' = WithRow(rows, pending[p])
  /\ writer' = None
  /\ commits' = [commits EXCEPT ![p] = @ + 1]
  /\ Goto(p, "respond")
  /\ UNCHANGED <<call, attempts, pending, result>>

\* After COMMIT: _secure_sidecars may raise (RAISED), the before_response
\* failpoint raises UnknownEffectError, else the entry is returned.
Respond(p) ==
  /\ pc[p] = "respond"
  /\ \/ Return(p, Answer("APPENDED", pending[p], pending[p].gen))
     \/ \E status \in {"UNKNOWN_EFFECT", "RAISED"} : Return(p, Answer(status, None, 0))
  /\ pending' = [pending EXCEPT ![p] = None]
  /\ UNCHANGED <<rows, writer, call, attempts, commits>>

-----------------------------------------------------------------------------
\* Mutant: the error handler also covers the code after COMMIT.
DatabaseErrorAfterCommit(p) ==
  /\ pc[p] \in {"commit", "respond"}
  /\ Rollback(p)
  /\ \/ Goto(p, "open") /\ UNCHANGED result
     \/ Return(p, Answer("RAISED", None, 0))
  /\ UNCHANGED <<rows, call, attempts, commits>>

\* sqlite3.OperationalError inside the transaction: ROLLBACK, then another
\* attempt if the message says busy or locked, else the error is raised.
DatabaseError(p) ==
  /\ pc[p] \in InTransaction \ {"sign"}
  /\ Rollback(p)
  /\ \/ Goto(p, "open") /\ UNCHANGED result
     \/ Return(p, Answer("RAISED", None, 0))
  /\ UNCHANGED <<rows, call, attempts, commits>>

\* Any other exception before COMMIT: the signer raises, or one of the
\* failpoints before_write and before_commit rolls back.
Abort(p) ==
  /\ pc[p] \in {"sign", "insert", "commit"}
  /\ Rollback(p)
  /\ Return(p, Answer("RAISED", None, 0))
  /\ UNCHANGED <<rows, call, attempts, commits>>

\* The process dies; its connection, if any, is rolled back by SQLite.
Crash(p) ==
  /\ pc[p] \notin {"idle", "done"}
  /\ Goto(p, "idle")
  /\ writer' = IF writer = p THEN None ELSE writer
  /\ pending' = [pending EXCEPT ![p] = None]
  /\ UNCHANGED <<rows, call, attempts, result, commits>>

-----------------------------------------------------------------------------
Step(p) ==
  \/ Connect(p)
  \/ Exhausted(p)
  \/ BeginImmediate(p)
  \/ BeginFails(p)
  \/ Lookup(p)
  \/ ReadHead(p)
  \/ SignEntry(p)
  \/ Insert(p)
  \/ Commit(p)
  \/ Respond(p)

Next ==
  \E p \in Procs :
    \/ \E r \in Requests : Call(p, r)
    \/ Step(p)
    \/ DatabaseError(p)
    \/ Abort(p)
    \/ Crash(p)

Spec == Init /\ [][Next]_vars

\* Every running process is scheduled, and the calls it makes return: SQLite
\* gives up after its busy timeout and the signer answers.
FairSpec == Spec /\ \A p \in Procs : WF_vars(Step(p))

-----------------------------------------------------------------------------
TypeOK ==
  /\ DOMAIN rows \subseteq Nat
  /\ writer \in Procs \cup {None}
  /\ pc \in [Procs -> PCs]
  /\ call \in [Procs -> Requests \cup {None}]
  /\ attempts \in [Procs -> 0..MaxAttempts]
  /\ DOMAIN pending = Procs
  /\ DOMAIN result = Procs
  /\ \A p \in Procs : result[p].status \in Statuses
  /\ commits \in [Procs -> {0, 1}]

(***************************************************************************)
(* Whatever the processes do and wherever they die, a restart finds a      *)
(* ledger that verify_chain accepts (contiguous sequence, increasing       *)
(* generation, linked and recomputable hashes, payload hashes).            *)
(***************************************************************************)
ChainVerifies == ChainValid(rows, AnyLedger)

(***************************************************************************)
(* What the lookup and the generation check established still holds when   *)
(* the row is written: the INSERT never meets a UNIQUE constraint, and the *)
(* COMMIT puts the row right behind the current head.  The checks are made *)
(* several steps before the write; only the write lock keeps them true.    *)
(***************************************************************************)
ChecksHoldAtWrite ==
  \A p \in Procs :
    pc[p] \in {"insert", "commit"} =>
      /\ ~ ViolatesUnique(rows, pending[p])
      /\ pending[p] = NewRow(call[p], DurableHead(rows))
      /\ call[p].exp = DurableHead(rows).gen

(***************************************************************************)
(* An acknowledged entry (APPENDED or REPLAYED) is the stored row of the   *)
(* caller's key and request, bytes and generation, for as long as the      *)
(* caller remembers the answer; and once a call has committed, whatever it *)
(* answered or raised, a retry of the same request can only be a replay.   *)
(***************************************************************************)
AnswersAreDurable ==
  \A p \in Procs :
    pc[p] = "done" /\ (commits[p] = 1 \/ result[p].status = "REPLAYED") =>
      LET again == LookupResult(call[p])
      IN  /\ again.status = "REPLAYED"
          /\ result[p].status \in {"APPENDED", "REPLAYED"} =>
               again.entry = result[p].entry /\ again.gen = result[p].gen

(***************************************************************************)
(* The outcome tells what happened: a call that answers APPENDED or raises *)
(* UnknownEffectError made exactly one commit; a call that was answered    *)
(* with an earlier entry, refused or gave up made none, on any attempt.    *)
(***************************************************************************)
OutcomeMatchesEffect ==
  \A p \in Procs :
    pc[p] = "done" =>
      /\ result[p].status \in {"APPENDED", "UNKNOWN_EFFECT"} => commits[p] = 1
      /\ result[p].status \in {"REPLAYED", "STALE_GENERATION", "IDEMPOTENCY_CONFLICT",
                               "BUSY_RETRY_EXHAUSTED"} => commits[p] = 0

(***************************************************************************)
(* The ledger is append-only: a step keeps every committed row as it is    *)
(* and adds at most one, whose generation is one more than the last.       *)
(***************************************************************************)
AppendOnly ==
  [][/\ \A s \in DOMAIN rows : s \in DOMAIN rows' /\ rows'[s] = rows[s]
     /\ DurableHead(rows').gen = DurableHead(rows).gen + 1]_rows

\* Every call returns (or its process dies): contention ends in an answer.
CallReturns ==
  \A p \in Procs : pc[p] = "open" ~> pc[p] \in {"done", "idle"}

-----------------------------------------------------------------------------
(***************************************************************************)
(* The inductive invariant.                                                *)
(***************************************************************************)

\* The write lock is held exactly by the process that is in a transaction.
LockInv == \A p \in Procs : pc[p] \in InTransaction <=> writer = p

\* The table is 1..n, linked, with generation = sequence, and no key and no
\* request id occurs twice.
LinkedRow(s) ==
  /\ rows[s].seq = s
  /\ rows[s].gen = s
  /\ rows[s].prev = IF s = 1 THEN GENESIS_PREVIOUS_HASH ELSE rows[s - 1].hash

TableInv ==
  /\ DurableHead(rows).seq \in Nat
  /\ DOMAIN rows = 1..DurableHead(rows).seq
  /\ \A s \in DOMAIN rows : LinkedRow(s)
  /\ \A s, t \in DOMAIN rows :
       rows[s].key = rows[t].key \/ rows[s].rid = rows[t].rid => s = t

\* Payload hashes recompute, and so does the entry hash if every signer's
\* metadata enters the hash as it is stored.
PayloadInv ==
  \A s \in DOMAIN rows :
    /\ rows[s].env # Unparsable
    /\ rows[s].env_hash = H(rows[s].env)
    /\ rows[s].rec.body # Unparsable
    /\ rows[s].rec_hash = rows[s].rec.hash
    /\ \E r \in Requests : /\ rows[s].meta = r.signer.ret
                           /\ rows[s].hash = ComputeEntryHash(rows[s], HashedMeta(r.signer))

\* What a transaction has established so far.
TransactionInv ==
  \A p \in Procs :
    /\ pc[p] # "idle" => call[p] \in Requests
    /\ pc[p] \in {"head", "sign", "insert", "commit"} =>
         /\ RowsWithKey(rows, call[p].key) = {}
         /\ RowsWithRequestId(rows, call[p].rid) = {}
    /\ pc[p] \in {"sign", "insert", "commit"} =>
         /\ call[p].exp = DurableHead(rows).gen
         /\ pending[p] = NewRow(call[p], DurableHead(rows))

\* Some stored row answers the request r.
StoredFor(r, s) == s \in DOMAIN rows /\ rows[s].key = r.key /\ rows[s].req = r.req

\* What a call that has committed, or was answered, can rely on.
AnswerInv ==
  \A p \in Procs :
    /\ pc[p] = "respond" =>
         \E s \in DOMAIN rows : StoredFor(call[p], s) /\ rows[s] = pending[p]
    /\ pc[p] = "done" /\ result[p].status \in {"APPENDED", "REPLAYED"} =>
         \E s \in DOMAIN rows : /\ StoredFor(call[p], s)
                                /\ rows[s] = result[p].entry
                                /\ result[p].gen = s
    /\ pc[p] = "done" /\ commits[p] = 1 =>
         \E s \in DOMAIN rows : StoredFor(call[p], s)

CommitsInv ==
  \A p \in Procs :
    /\ pc[p] \in {"open", "begin"} \cup InTransaction => commits[p] = 0
    /\ pc[p] = "respond" => commits[p] = 1

IInv ==
  /\ TypeOK
  /\ LockInv
  /\ TableInv
  /\ PayloadInv
  /\ TransactionInv
  /\ AnswerInv
  /\ CommitsInv
  /\ OutcomeMatchesEffect

\* The signers whose metadata enters the entry hash as it is stored: all but
\* the ones that announce no metadata and return an empty dictionary.
SignersConsistent == \A r \in Requests : HashedMeta(r.signer) = r.signer.ret

-----------------------------------------------------------------------------
(***************************************************************************)
(* The refinement mapping: a row promises its binding, a call is pending   *)
(* until its COMMIT and bound between COMMIT and answer.                   *)
(***************************************************************************)
Promise(e) == [gen |-> e.gen, key |-> e.key, req |-> e.req, rid |-> e.rid,
               env |-> e.env, rec |-> e.rec]

AbstractLog == [s \in DOMAIN rows |-> Promise(rows[s])]

AbstractAnswer(p) ==
  IF pc[p] = "respond" THEN Answer("BOUND", None, 0)
  ELSE IF pc[p] \notin {"idle", "done"} THEN Answer("PENDING", None, 0)
  ELSE IF result[p].status \in {"APPENDED", "REPLAYED"}
       THEN [result[p] EXCEPT !.entry = Promise(@)]
       ELSE result[p]

AbstractAns == [p \in Procs |-> AbstractAnswer(p)]

Abstract == INSTANCE AbstractLedger WITH log <- AbstractLog, ans <- AbstractAns

\* append_or_replay keeps the promise of AbstractLedger.
ImplementsAbstractLedger == Abstract!Spec
=============================================================================
