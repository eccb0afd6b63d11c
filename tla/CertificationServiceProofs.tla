----------------------- MODULE CertificationServiceProofs -----------------------
(***************************************************************************)
(* Proofs about CertificationService.  The invariant is stated per service *)
(* and says how its memory (jobs, index of keys), its event loop (queue,   *)
(* running pipeline, drain) and its call of the ledger fit together.  A    *)
(* step of one service leaves the others' state alone, and what they rely  *)
(* on of the shared state, the log and the request ids handed out, only    *)
(* grows.                                                                  *)
(*                                                                         *)
(* The last part is about a service that has the ledger for itself and can *)
(* read it: then the log and the service's memory never disagree.          *)
(***************************************************************************)
EXTENDS CertificationService, FiniteSetTheorems, SequenceTheorems, TLAPS

USE ServiceAssumption, NoneIsNoRequest

Keys == {p.key : p \in Payloads}
Receipts == [job : RequestIds, disp : Dispositions]
Job == [req : Payloads, state : JobStates, gen : Nat, rec : Receipts \cup {None}]
Entry == [gen : Nat, key : Keys, req : Payloads, rid : RequestIds, env : RequestIds,
          rec : Receipts]

Typed ==
  /\ lastId \in 0..MaxJobs
  /\ log \in Seq(Entry)
  /\ call \in [Services -> AppendRequests \cup {None}]
  /\ DOMAIN ans = Services
  /\ up \in [Services -> BOOLEAN]
  /\ stopped \in [Services -> BOOLEAN]
  /\ DOMAIN jobs = Services
  /\ DOMAIN byKey = Services
  /\ ready \in [Services -> Seq(Nat)]
  /\ running \in [Services -> RequestIds \cup {None}]
  /\ drain \in [Services -> {"no", "waiting", "done"}]
  /\ DOMAIN awaited = Services

\* What a job is; until it settles it has the generation its request expects.
Memory(s) ==
  \A rid \in DOMAIN jobs[s] :
    /\ rid \in 1..lastId
    /\ jobs[s][rid] \in Job
    /\ jobs[s][rid].state \notin Settled =>
         jobs[s][rid].gen = jobs[s][rid].req.exp /\ jobs[s][rid].rec = None

\* The index of keys and the jobs point at each other.
Index(s) ==
  /\ \A key \in DOMAIN byKey[s] : byKey[s][key] \in DOMAIN jobs[s]
  /\ \A rid \in DOMAIN jobs[s] :
       /\ jobs[s][rid].req.key \in DOMAIN byKey[s]
       /\ byKey[s][jobs[s][rid].req.key] = rid

\* The queue holds the pending jobs, each once.
Queue(s) ==
  /\ \A i \in DOMAIN ready[s] :
       ready[s][i] # Timer =>
         ready[s][i] \in DOMAIN jobs[s] /\ jobs[s][ready[s][i]].state = "PENDING"
  /\ \A i, j \in DOMAIN ready[s] : ready[s][i] = ready[s][j] => i = j
  /\ \A rid \in DOMAIN jobs[s] :
       jobs[s][rid].state = "PENDING" => \E i \in DOMAIN ready[s] : ready[s][i] = rid

\* One pipeline at a time occupies the loop.
Loop(s) ==
  /\ running[s] # None => running[s] \in DOMAIN jobs[s] /\ jobs[s][running[s]].state = "RUNNING"
  /\ \A rid \in DOMAIN jobs[s] : jobs[s][rid].state = "RUNNING" => running[s] = rid

\* The call of the ledger is that of the running pipeline, and a success is in the log.
Calling(s) ==
  /\ call[s] = None => ans[s] = L!Silent
  /\ call[s] # None =>
       /\ running[s] # None
       /\ \E disp \in Dispositions : call[s] = AppendRequest(running[s], jobs[s][running[s]], disp)
       /\ ans[s].status \in {"APPENDED", "REPLAYED"} =>
            ans[s].gen \in DOMAIN log /\ log[ans[s].gen].req = call[s].req

\* Once drain() has begun nothing is admitted, and its timer is behind the jobs.
Draining(s) ==
  /\ drain[s] # "no" => stopped[s]
  /\ drain[s] = "waiting" => Unsettled(s) \subseteq awaited[s]
  /\ \A i \in DOMAIN ready[s] : ready[s][i] = Timer => drain[s] = "waiting" /\ i = Len(ready[s])
  /\ drain[s] = "done" => Unsettled(s) = {}

Reported(s) ==
  \A rid \in DOMAIN jobs[s] :
    jobs[s][rid].state \in {"COMPLETED", "FAILED"} =>
      /\ jobs[s][rid].gen \in DOMAIN log
      /\ log[jobs[s][rid].gen].req = jobs[s][rid].req

SInv(s) == Memory(s) /\ Index(s) /\ Queue(s) /\ Loop(s) /\ Calling(s) /\ Draining(s) /\ Reported(s)

IInv == Typed /\ \A s \in Services : SInv(s)

-----------------------------------------------------------------------------
(***************************************************************************)
(* A service alone with a readable ledger.                                 *)
(***************************************************************************)
Alone == ~ Unreadable /\ \A s, t \in Services : s = t

\* A request id is in the log at most once, and only after it was handed out.
LogInv ==
  /\ \A i \in DOMAIN log : log[i].rid \in 1..lastId
  /\ \A i, j \in DOMAIN log : log[i].rid = log[j].rid => i = j

\* Only the call that is bound has put its key and request id into the log.
Unbound(s) ==
  \A rid \in Unsettled(s) :
    running[s] # rid \/ ans[s] \in {L!Silent, L!Pending} =>
      \A i \in DOMAIN log : log[i].rid # rid /\ log[i].key # jobs[s][rid].req.key

NoOtherRun(s) ==
  \A rid \in Unsettled(s) : \A i \in DOMAIN log :
    log[i].key = jobs[s][rid].req.key => log[i].rid = rid

\* A success is the entry of the very call.
Appended(s) ==
  call[s] # None /\ ans[s].status \in {"APPENDED", "REPLAYED"} =>
    /\ ans[s].gen \in DOMAIN log
    /\ log[ans[s].gen].rid = call[s].rid
    /\ log[ans[s].gen].rec = call[s].rec

\* What a settled job reports is what the ledger would.
Stored(s) ==
  \A rid \in DOMAIN jobs[s] :
    /\ jobs[s][rid].state \in {"COMPLETED", "FAILED"} =>
         /\ jobs[s][rid].gen \in DOMAIN log
         /\ log[jobs[s][rid].gen].rid = rid
         /\ log[jobs[s][rid].gen].rec = jobs[s][rid].rec
         /\ jobs[s][rid].state = StateOf(jobs[s][rid].rec.disp)
    /\ jobs[s][rid].state = "UNVERIFIABLE" => jobs[s][rid].rec = None

AInv(s) == Unbound(s) /\ NoOtherRun(s) /\ Appended(s) /\ Stored(s)

AloneInv == LogInv /\ \A s \in Services : AInv(s)

-----------------------------------------------------------------------------
(***************************************************************************)
(* What a step may change.                                                 *)
(***************************************************************************)
\* Nothing of service t changes, except that its process may be started.
Untouched(t) ==
  /\ jobs'[t] = jobs[t] /\ byKey'[t] = byKey[t]
  /\ ready'[t] = ready[t] /\ running'[t] = running[t]
  /\ stopped'[t] = stopped[t] /\ drain'[t] = drain[t] /\ awaited'[t] = awaited[t]
  /\ call'[t] = call[t] /\ ans'[t] = ans[t]

\* The log and the request ids handed out only grow.
Grows ==
  /\ lastId' >= lastId
  /\ \A i \in DOMAIN log : i \in DOMAIN log' /\ log'[i] = log[i]

\* A step of service s does its part: all that is left is that the others are untouched.
Preserves(s) ==
  /\ Typed' /\ Grows
  /\ SInv(s)'
  /\ \A t \in Services \ {s} : Untouched(t)

\* A service that is not touched keeps its invariant.
LEMMA UntouchedKeeps ==
  ASSUME NEW t \in Services, Typed, SInv(t), Typed', Grows, Untouched(t)
  PROVE  SInv(t)'
<1> USE DEF Untouched
<1>1. Memory(t)'
  BY DEF SInv, Memory, Grows, Typed
<1>2. Index(t)' /\ Queue(t)' /\ Loop(t)'
  BY DEF SInv, Index, Queue, Loop
<1>3. Calling(t)'
  BY DEF SInv, Calling, Grows, AppendRequest, L!Silent, L!Answer
<1>4. Draining(t)'
  BY DEF SInv, Draining, Unsettled
<1>5. Reported(t)'
  BY DEF SInv, Reported, Grows
<1> QED
  BY <1>1, <1>2, <1>3, <1>4, <1>5 DEF SInv

\* The memory of s after a job was written.
LEMMA JobWritten ==
  ASSUME NEW s \in Services, NEW rid, NEW job, DOMAIN jobs = Services, WithJob(s, rid, job)
  PROVE  /\ DOMAIN jobs' = Services
         /\ DOMAIN jobs'[s] = DOMAIN jobs[s] \cup {rid}
         /\ jobs'[s][rid] = job
         /\ \A r \in DOMAIN jobs[s] \ {rid} : jobs'[s][r] = jobs[s][r]
         /\ \A t \in Services \ {s} : jobs'[t] = jobs[t]
  BY DEF WithJob

\* The index of s after a key was written.
LEMMA KeyWritten ==
  ASSUME NEW s \in Services, NEW key, NEW rid, DOMAIN byKey = Services, WithKey(s, key, rid)
  PROVE  /\ DOMAIN byKey' = Services
         /\ DOMAIN byKey'[s] = DOMAIN byKey[s] \cup {key}
         /\ byKey'[s][key] = rid
         /\ \A k \in DOMAIN byKey[s] \ {key} : byKey'[s][k] = byKey[s][k]
         /\ \A t \in Services \ {s} : byKey'[t] = byKey[t]
  BY DEF WithKey

\* A queue whose entries all go is empty.
LEMMA NothingLeft ==
  ASSUME NEW q, NEW S, \A i \in DOMAIN q : q[i] \in S
  PROVE  Without(q, S) = << >>
<1>1. {i \in DOMAIN q : q[i] \notin S} = {}
  OBVIOUS
<1>2. 1..Cardinality({i \in DOMAIN q : q[i] \notin S}) = {}
  BY <1>1, FS_EmptySet
<1> QED
  BY <1>2 DEF Without

-----------------------------------------------------------------------------
(***************************************************************************)
(* One lemma per action.                                                   *)
(***************************************************************************)
\* start_runtime
LEMMA StartPreserves ==
  ASSUME IInv, NEW s \in Services, StartRuntime(s)
  PROVE  Preserves(s)
<1>1. Typed' /\ Grows /\ \A t \in Services : Untouched(t)
  BY DEF IInv, Typed, StartRuntime, Grows, Untouched, ledgerVars
<1> QED
  BY <1>1, UntouchedKeeps DEF IInv, Preserves

\* The timer of drain() queues up, behind every job.
LEMMA TimerPreserves ==
  ASSUME IInv, NEW s \in Services, TimerExpires(s)
  PROVE  Preserves(s)
<1> USE DEF TimerExpires
<1>1. Typed' /\ Grows /\ \A t \in Services \ {s} : Untouched(t)
  BY DEF IInv, Typed, Grows, Untouched, ledgerVars, Timer
<1>2. SInv(s) /\ Typed
  BY DEF IInv
<1>3. /\ ready[s] \in Seq(Nat) /\ ready'[s] = Append(ready[s], Timer)
      /\ DOMAIN ready'[s] = DOMAIN ready[s] \cup {Len(ready'[s])}
      /\ Len(ready'[s]) \notin DOMAIN ready[s]
      /\ ready'[s][Len(ready'[s])] = Timer
      /\ \A i \in DOMAIN ready[s] : ready'[s][i] = ready[s][i]
  BY <1>2 DEF Typed, Timer
<1>4. Memory(s)' /\ Index(s)' /\ Loop(s)' /\ Reported(s)'
  BY <1>2 DEF SInv, Memory, Index, Loop, Reported, ledgerVars
<1>5. Queue(s)'
  BY <1>2, <1>3 DEF SInv, Queue
<1>6. Calling(s)'
  BY <1>2 DEF SInv, Calling, AppendRequest, L!Silent, L!Answer, ledgerVars
<1>7. Draining(s)'
  BY <1>2, <1>3 DEF SInv, Draining, Unsettled
<1> QED
  BY <1>1, <1>4, <1>5, <1>6, <1>7 DEF SInv, Preserves

\* drain() begins.
LEMMA DrainBeginsPreserves ==
  ASSUME IInv, NEW s \in Services, DrainBegins(s)
  PROVE  Preserves(s)
<1> USE DEF DrainBegins
<1>1. Typed' /\ Grows /\ \A t \in Services \ {s} : Untouched(t)
  BY DEF IInv, Typed, Grows, Untouched, ledgerVars
<1>2. SInv(s) /\ Typed
  BY DEF IInv
<1>4. Memory(s)' /\ Index(s)' /\ Loop(s)' /\ Reported(s)' /\ Queue(s)'
  BY <1>2 DEF SInv, Memory, Index, Loop, Reported, Queue, ledgerVars
<1>6. Calling(s)'
  BY <1>2 DEF SInv, Calling, AppendRequest, L!Silent, L!Answer, ledgerVars
<1>7. Draining(s)'
  BY <1>2 DEF SInv, Draining, Unsettled, Typed
<1> QED
  BY <1>1, <1>4, <1>6, <1>7 DEF SInv, Preserves

\* When the loop is free and no job is queued, every job has a result.
LEMMA NothingQueued ==
  ASSUME NEW s \in Services, SInv(s), LoopFree(s),
         \A i \in DOMAIN ready[s] : ready[s][i] = Timer
  PROVE  Unsettled(s) = {}
<1>1. \A rid \in DOMAIN jobs[s] : jobs[s][rid].state # "RUNNING"
  BY DEF SInv, Loop, LoopFree, Memory
<1>2. \A rid \in DOMAIN jobs[s] : jobs[s][rid].state # "PENDING"
  BY DEF SInv, Queue, Memory, Timer
<1> QED
  BY <1>1, <1>2 DEF Unsettled

\* drain() ends; by its timer or not, the queue is then empty.
LEMMA DrainEndsPreserves ==
  ASSUME IInv, NEW s \in Services, DrainEnds(s)
  PROVE  Preserves(s)
<1> USE DEF DrainEnds
<1>2. SInv(s) /\ Typed /\ ready[s] \in Seq(Nat)
  BY DEF IInv, Typed
<1>3. ready'[s] = << >> /\ Unsettled(s) = {}
  <2>1. CASE /\ awaited[s] \cap Unsettled(s) = {}
             /\ ready' = [ready EXCEPT ![s] = Without(@, {Timer})]
    <3>1. Unsettled(s) = {}
      BY <1>2, <2>1 DEF SInv, Draining
    <3>2. \A i \in DOMAIN ready[s] : ready[s][i] \in {Timer}
      BY <1>2, <3>1 DEF SInv, Queue, Unsettled
    <3> QED
      BY <2>1, <3>1, <3>2, <1>2, NothingLeft DEF Typed
  <2>2. CASE /\ ready[s] # << >>
             /\ Head(ready[s]) = Timer
             /\ ready' = [ready EXCEPT ![s] = Without(Tail(@), awaited[s])]
    <3>1. 1 \in DOMAIN ready[s] /\ ready[s][1] = Timer
      BY <2>2, <1>2
    <3>2. Len(ready[s]) = 1
      BY <3>1, <1>2 DEF SInv, Draining
    <3>3. Unsettled(s) = {}
      BY <3>1, <3>2, <1>2, NothingQueued
    <3>4. \A i \in DOMAIN Tail(ready[s]) : Tail(ready[s])[i] \in awaited[s]
      BY <3>2, <1>2
    <3> QED
      BY <2>2, <3>3, <3>4, <1>2, NothingLeft DEF Typed
  <2> QED
    BY <2>1, <2>2
<1>1. Typed' /\ Grows /\ \A t \in Services \ {s} : Untouched(t)
  <2>1. /\ ready' \in [Services -> Seq(Nat)]
        /\ \A t \in Services \ {s} : ready'[t] = ready[t]
    <3>1. \A q : q = << >> => q \in Seq(Nat)
      OBVIOUS
    <3>2. ready' = [ready EXCEPT ![s] = << >>]
      BY <1>2, <1>3 DEF Typed
    <3> QED
      BY <3>1, <3>2, <1>2 DEF Typed
  <2> QED
    BY <2>1, <1>2 DEF Typed, Grows, Untouched, ledgerVars
<1>4. Memory(s)' /\ Index(s)' /\ Loop(s)' /\ Reported(s)'
  BY <1>2 DEF SInv, Memory, Index, Loop, Reported, ledgerVars
<1>5. Queue(s)'
  BY <1>2, <1>3 DEF SInv, Queue, Unsettled
<1>6. Calling(s)'
  BY <1>2 DEF SInv, Calling, AppendRequest, L!Silent, L!Answer, ledgerVars
<1>7. Draining(s)'
  BY <1>2, <1>3 DEF SInv, Draining, Unsettled, Typed
<1> QED
  BY <1>1, <1>4, <1>5, <1>6, <1>7 DEF SInv, Preserves

\* A process that stops or dies forgets everything but the ledger.
LEMMA ForgetPreserves ==
  ASSUME IInv, NEW s \in Services, Forget(s)
  PROVE  Preserves(s)
<1> USE DEF Forget
<1>1. Typed' /\ Grows /\ \A t \in Services \ {s} : Untouched(t)
  BY DEF IInv, Typed, Grows, Untouched
<1>2. /\ jobs'[s] = NoJobs /\ byKey'[s] = NoJobs /\ ready'[s] = << >> /\ running'[s] = None
      /\ drain'[s] = "no" /\ call'[s] = None /\ ans'[s] = L!Silent
  BY DEF IInv, Typed
<1>3. DOMAIN jobs'[s] = {} /\ DOMAIN byKey'[s] = {} /\ DOMAIN ready'[s] = {}
  BY <1>2 DEF NoJobs
<1>4. Memory(s)' /\ Index(s)' /\ Loop(s)' /\ Reported(s)' /\ Queue(s)'
  BY <1>2, <1>3 DEF Memory, Index, Loop, Reported, Queue
<1>5. Calling(s)' /\ Draining(s)'
  BY <1>2, <1>3 DEF Calling, Draining, L!Silent, L!Answer
<1> QED
  BY <1>1, <1>4, <1>5 DEF SInv, Preserves

(***************************************************************************)
(* submit_certification accepts only while it admits requests, and only a  *)
(* key that neither its memory nor, as far as it could read, the ledger    *)
(* knows.                                                                  *)
(***************************************************************************)
LEMMA SubmitAccepted ==
  ASSUME IInv, NEW s \in Services, NEW p \in Payloads, NEW keyRead \in BOOLEAN, NEW genRead \in BOOLEAN,
         SubmitReply(s, p, keyRead, genRead) = Accepted
  PROVE  ~ stopped[s] /\ p.key \notin DOMAIN byKey[s] /\ (keyRead => EntriesWithKey(p.key) = {})
<1> DEFINE entries == IF keyRead THEN EntriesWithKey(p.key) ELSE {}
           generation == IF genRead THEN CurrentGeneration ELSE 0
           i0 == CHOOSE i \in entries : TRUE
           byLog == IF log[i0].req # p THEN Refusal(409) ELSE EntryReply(i0)
           rid0 == byKey[s][p.key]
           byMemory == IF jobs[s][rid0].req # p THEN Refusal(409) ELSE JobReply(202, rid0, jobs[s][rid0])
<1>1. stopped[s] \in BOOLEAN
  BY DEF IInv, Typed
<1>2. byLog # Accepted
  BY DEF Accepted, Refusal, EntryReply, Reply
<1>3. p.key \in DOMAIN byKey[s] => byMemory # Accepted
  <2> SUFFICES ASSUME p.key \in DOMAIN byKey[s] PROVE byMemory # Accepted
    OBVIOUS
  <2>1. rid0 # None
    BY DEF IInv, SInv, Index, Memory, Typed
  <2> QED
    BY <2>1 DEF Accepted, Refusal, JobReply, Reply
<1>4. Refusal(503) # Accepted
  BY DEF Accepted, Refusal, Reply
<1> HIDE DEF byLog, byMemory
<1>5. /\ stopped[s] => SubmitReply(s, p, keyRead, genRead) = Refusal(503)
      /\ ~ stopped[s] /\ entries # {} => SubmitReply(s, p, keyRead, genRead) = byLog
      /\ ~ stopped[s] /\ entries = {} /\ p.key \in DOMAIN byKey[s] =>
           SubmitReply(s, p, keyRead, genRead) = byMemory
  BY <1>1 DEF SubmitReply, byLog, byMemory
<1> QED
  BY <1>1, <1>2, <1>3, <1>4, <1>5

\* A new job is accepted.
LEMMA SubmitPreserves ==
  ASSUME IInv, NEW s \in Services, NEW p \in Payloads, Submit(s, p)
  PROVE  Preserves(s)
<1> DEFINE rid == lastId + 1
           job == [req |-> p, state |-> "PENDING", gen |-> p.exp, rec |-> None]
<1>1. ~ stopped[s] /\ p.key \notin DOMAIN byKey[s]
  BY SubmitAccepted DEF Submit
<1>2. SInv(s) /\ Typed
  BY DEF IInv
<1>3. /\ WithJob(s, rid, job) /\ WithKey(s, p.key, rid)
      /\ ready' = [ready EXCEPT ![s] = Append(@, rid)]
      /\ lastId' = rid /\ lastId < MaxJobs
      /\ UNCHANGED <<ledgerVars, up, stopped, running, drain, awaited>>
  BY DEF Submit, AcceptJob
<1>4. job \in Job /\ rid \in 1..lastId' /\ rid \in RequestIds /\ rid # None
  BY <1>2, <1>3 DEF Job, JobStates, Typed, RequestIds
<1>5. rid \notin DOMAIN jobs[s]
  BY <1>2 DEF SInv, Memory, Typed
<1> HIDE DEF rid, job
<1>6. /\ DOMAIN jobs' = Services
      /\ DOMAIN jobs'[s] = DOMAIN jobs[s] \cup {rid}
      /\ jobs'[s][rid] = job
      /\ \A r \in DOMAIN jobs[s] : jobs'[s][r] = jobs[s][r]
      /\ \A t \in Services \ {s} : jobs'[t] = jobs[t]
  BY <1>2, <1>3, <1>5, JobWritten DEF Typed
<1>7. /\ DOMAIN byKey' = Services
      /\ DOMAIN byKey'[s] = DOMAIN byKey[s] \cup {p.key}
      /\ byKey'[s][p.key] = rid
      /\ \A k \in DOMAIN byKey[s] : byKey'[s][k] = byKey[s][k]
      /\ \A t \in Services \ {s} : byKey'[t] = byKey[t]
  BY <1>1, <1>2, <1>3, KeyWritten DEF Typed
<1>8. /\ ready[s] \in Seq(Nat) /\ ready'[s] = Append(ready[s], rid)
      /\ DOMAIN ready'[s] = DOMAIN ready[s] \cup {Len(ready'[s])}
      /\ Len(ready'[s]) \notin DOMAIN ready[s]
      /\ ready'[s][Len(ready'[s])] = rid
      /\ \A i \in DOMAIN ready[s] : ready'[s][i] = ready[s][i]
      /\ ready' \in [Services -> Seq(Nat)]
      /\ \A t \in Services \ {s} : ready'[t] = ready[t]
  BY <1>2, <1>3, <1>4 DEF Typed, RequestIds
<1>9. Typed' /\ Grows /\ \A t \in Services \ {s} : Untouched(t)
  <2>1. lastId' \in 0..MaxJobs /\ lastId' >= lastId
    BY <1>2, <1>3 DEF Typed, rid
  <2> QED
    BY <2>1, <1>2, <1>3, <1>6, <1>7, <1>8 DEF Typed, Grows, Untouched, ledgerVars
<1>10. job.state = "PENDING" /\ job.req = p /\ job.gen = p.exp /\ job.rec = None
  BY DEF job
<1>11. drain[s] = "no" /\ rid # Timer
  BY <1>1, <1>2, <1>4 DEF SInv, Draining, Typed, Timer, RequestIds
<1>12. Memory(s)'
  BY <1>2, <1>4, <1>6, <1>9, <1>10 DEF SInv, Memory, Grows, Typed
<1>13. Index(s)'
  BY <1>1, <1>2, <1>5, <1>6, <1>7, <1>10 DEF SInv, Index
<1>14. Queue(s)'
  <2>1. \A i \in DOMAIN ready[s] : ready[s][i] # rid
    BY <1>2, <1>5, <1>11 DEF SInv, Queue
  <2>2. \A i \in DOMAIN ready'[s] :
          ready'[s][i] # Timer =>
            ready'[s][i] \in DOMAIN jobs'[s] /\ jobs'[s][ready'[s][i]].state = "PENDING"
    BY <1>2, <1>6, <1>8, <1>10 DEF SInv, Queue
  <2>3. \A i, j \in DOMAIN ready'[s] : ready'[s][i] = ready'[s][j] => i = j
    BY <2>1, <1>2, <1>8 DEF SInv, Queue
  <2>4. \A r \in DOMAIN jobs'[s] :
          jobs'[s][r].state = "PENDING" => \E i \in DOMAIN ready'[s] : ready'[s][i] = r
    BY <1>2, <1>6, <1>8 DEF SInv, Queue
  <2> QED
    BY <2>2, <2>3, <2>4 DEF Queue
<1>15. Loop(s)'
  BY <1>2, <1>3, <1>5, <1>6, <1>10 DEF SInv, Loop
<1>16. Calling(s)'
  <2>1. running[s] # None => jobs'[s][running[s]] = jobs[s][running[s]]
    BY <1>2, <1>6 DEF SInv, Loop
  <2> QED
    BY <2>1, <1>2, <1>3 DEF SInv, Calling, AppendRequest, L!Silent, L!Answer, ledgerVars
<1>17. Draining(s)'
  BY <1>2, <1>3, <1>8, <1>11 DEF SInv, Draining
<1>18. Reported(s)'
  BY <1>2, <1>3, <1>6, <1>10 DEF SInv, Reported, ledgerVars
<1> QED
  BY <1>9, <1>12, <1>13, <1>14, <1>15, <1>16, <1>17, <1>18 DEF SInv, Preserves

\* The loop starts a pipeline; what it finds at the head of its queue is a pending job.
LEMMA RunTaskPreserves ==
  ASSUME IInv, NEW s \in Services, RunTask(s)
  PROVE  Preserves(s)
<1> DEFINE rid == Head(ready[s])
           job == [jobs[s][rid] EXCEPT !.state = "RUNNING"]
<1>1. SInv(s) /\ Typed /\ ready[s] \in Seq(Nat)
  BY DEF IInv, Typed
<1>2. /\ LoopFree(s) /\ ready[s] # << >> /\ rid # Timer
      /\ running' = [running EXCEPT ![s] = rid]
      /\ ready' = [ready EXCEPT ![s] = Tail(@)]
      /\ WithJob(s, rid, job)
      /\ UNCHANGED <<ledgerVars, up, stopped, byKey, drain, awaited, lastId>>
  BY DEF RunTask
<1>3. 1 \in DOMAIN ready[s] /\ ready[s][1] = rid
  BY <1>1, <1>2
<1>4. rid \in DOMAIN jobs[s] /\ jobs[s][rid].state = "PENDING" /\ jobs[s][rid] \in Job
  BY <1>1, <1>2, <1>3 DEF SInv, Queue, Memory
<1>5. /\ job \in Job /\ job.state = "RUNNING" /\ job.req = jobs[s][rid].req
      /\ job.gen = jobs[s][rid].gen /\ job.rec = jobs[s][rid].rec
  BY <1>4 DEF Job, JobStates
<1>6. rid \in RequestIds /\ rid # None
  BY <1>1, <1>4 DEF SInv, Memory, Typed, RequestIds
<1>7. /\ ready'[s] \in Seq(Nat) /\ Len(ready'[s]) = Len(ready[s]) - 1
      /\ \A i \in DOMAIN ready'[s] : i + 1 \in DOMAIN ready[s] /\ ready'[s][i] = ready[s][i + 1]
      /\ \A i \in DOMAIN ready[s] : i # 1 => i - 1 \in DOMAIN ready'[s] /\ ready'[s][i - 1] = ready[s][i]
      /\ ready' \in [Services -> Seq(Nat)]
      /\ \A t \in Services \ {s} : ready'[t] = ready[t]
  <2>1. Tail(ready[s]) \in Seq(Nat) /\ Len(Tail(ready[s])) = Len(ready[s]) - 1
    BY <1>1, <1>2
  <2>2. \A i \in 1..(Len(ready[s]) - 1) : Tail(ready[s])[i] = ready[s][i + 1]
    BY <1>1, <1>2
  <2>3. ready'[s] = Tail(ready[s])
    BY <1>1, <1>2 DEF Typed
  <2>4. DOMAIN ready[s] = 1..Len(ready[s]) /\ DOMAIN ready'[s] = 1..(Len(ready[s]) - 1)
    BY <1>1, <2>1, <2>3
  <2>5. ready' \in [Services -> Seq(Nat)] /\ \A t \in Services \ {s} : ready'[t] = ready[t]
    BY <1>1, <1>2, <2>1 DEF Typed
  <2>6. Len(ready[s]) \in Nat /\ Len(ready'[s]) = Len(ready[s]) - 1 /\ ready'[s] \in Seq(Nat)
    BY <1>1, <2>1, <2>3
  <2>7. \A i \in DOMAIN ready'[s] : i + 1 \in DOMAIN ready[s] /\ ready'[s][i] = ready[s][i + 1]
    BY <2>2, <2>3, <2>4, <2>6
  <2>8. \A i \in DOMAIN ready[s] : i # 1 => i - 1 \in DOMAIN ready'[s] /\ ready'[s][i - 1] = ready[s][i]
    <3> SUFFICES ASSUME NEW i \in 2..Len(ready[s])
                 PROVE  i - 1 \in DOMAIN ready'[s] /\ ready'[s][i - 1] = ready[s][i]
      BY <2>4, <2>6
    <3>1. i - 1 \in 1..(Len(ready[s]) - 1) /\ (i - 1) + 1 = i
      BY <2>6
    <3> QED
      BY <3>1, <2>2, <2>3, <2>4
  <2> QED
    BY <2>5, <2>6, <2>7, <2>8
<1> HIDE DEF rid, job
<1>8. /\ DOMAIN jobs' = Services
      /\ DOMAIN jobs'[s] = DOMAIN jobs[s]
      /\ jobs'[s][rid] = job
      /\ \A r \in DOMAIN jobs[s] \ {rid} : jobs'[s][r] = jobs[s][r]
      /\ \A t \in Services \ {s} : jobs'[t] = jobs[t]
  <2>1. DOMAIN jobs = Services /\ WithJob(s, rid, job)
    BY <1>1, <1>2 DEF Typed
  <2>2. DOMAIN jobs[s] \cup {rid} = DOMAIN jobs[s]
    BY <1>4
  <2> QED
    BY <2>1, <2>2, JobWritten
<1>9. Typed' /\ Grows /\ \A t \in Services \ {s} : Untouched(t)
  BY <1>1, <1>2, <1>6, <1>7, <1>8 DEF Typed, Grows, Untouched, ledgerVars
<1>10. running[s] = None /\ running'[s] = rid /\ call[s] = None
  BY <1>1, <1>2 DEF LoopFree, Typed, SInv, Calling
<1>11. Memory(s)'
  <2> SUFFICES ASSUME NEW r \in DOMAIN jobs'[s]
               PROVE  /\ r \in 1..lastId'
                      /\ jobs'[s][r] \in Job
                      /\ jobs'[s][r].state \notin Settled =>
                           jobs'[s][r].gen = jobs'[s][r].req.exp /\ jobs'[s][r].rec = None
    BY DEF Memory
  <2>1. r \in DOMAIN jobs[s] /\ r \in 1..lastId'
    BY <1>1, <1>2, <1>8 DEF SInv, Memory
  <2>2. CASE r = rid
    BY <2>1, <2>2, <1>1, <1>4, <1>5, <1>8 DEF SInv, Memory, Settled
  <2>3. CASE r # rid
    BY <2>1, <2>3, <1>1, <1>8 DEF SInv, Memory
  <2> QED
    BY <2>2, <2>3
<1>12. Index(s)'
  BY <1>1, <1>2, <1>5, <1>8 DEF SInv, Index
<1>13. Queue(s)'
  <2>1. \A i \in DOMAIN ready'[s] : ready'[s][i] # rid
    BY <1>1, <1>3, <1>7 DEF SInv, Queue
  <2>2. \A i \in DOMAIN ready'[s] :
          ready'[s][i] # Timer =>
            ready'[s][i] \in DOMAIN jobs'[s] /\ jobs'[s][ready'[s][i]].state = "PENDING"
    BY <2>1, <1>1, <1>7, <1>8 DEF SInv, Queue
  <2>3. \A i, j \in DOMAIN ready'[s] : ready'[s][i] = ready'[s][j] => i = j
    <3> TAKE i, j \in DOMAIN ready'[s]
    <3> HAVE ready'[s][i] = ready'[s][j]
    <3>1. i + 1 = j + 1
      BY <1>1, <1>7 DEF SInv, Queue
    <3> QED
      BY <3>1, <1>7
  <2>4. \A r \in DOMAIN jobs'[s] :
          jobs'[s][r].state = "PENDING" => \E i \in DOMAIN ready'[s] : ready'[s][i] = r
    <3> TAKE r \in DOMAIN jobs'[s]
    <3> HAVE jobs'[s][r].state = "PENDING"
    <3>1. r # rid /\ jobs[s][r].state = "PENDING"
      BY <1>5, <1>8
    <3>2. PICK i \in DOMAIN ready[s] : ready[s][i] = r
      BY <3>1, <1>1, <1>8 DEF SInv, Queue
    <3> QED
      BY <3>1, <3>2, <1>3, <1>7
  <2> QED
    BY <2>2, <2>3, <2>4 DEF Queue
<1>14. Loop(s)'
  <2>1. \A r \in DOMAIN jobs[s] : jobs[s][r].state # "RUNNING"
    BY <1>1, <1>10 DEF SInv, Loop, Memory
  <2>2. \A r \in DOMAIN jobs'[s] : jobs'[s][r].state = "RUNNING" => r = rid
    BY <2>1, <1>8
  <2> QED
    BY <2>2, <1>4, <1>5, <1>8, <1>10 DEF Loop
<1>15. Calling(s)'
  BY <1>1, <1>2, <1>10 DEF SInv, Calling, L!Silent, L!Answer, ledgerVars
<1>16. Draining(s)'
  <2>1. \A r \in DOMAIN jobs[s] : r \in Unsettled(s)' <=> r \in Unsettled(s)
    BY <1>4, <1>5, <1>8 DEF Unsettled
  <2>2. Unsettled(s)' = Unsettled(s)
    BY <2>1, <1>8 DEF Unsettled
  <2>3. drain'[s] = drain[s] /\ stopped'[s] = stopped[s] /\ awaited'[s] = awaited[s]
    BY <1>2
  <2>4. \A i \in DOMAIN ready'[s] :
          ready'[s][i] = Timer => drain'[s] = "waiting" /\ i = Len(ready'[s])
    <3> TAKE i \in DOMAIN ready'[s]
    <3> HAVE ready'[s][i] = Timer
    <3>1. drain[s] = "waiting" /\ i + 1 = Len(ready[s])
      BY <1>1, <1>7 DEF SInv, Draining
    <3> QED
      BY <3>1, <2>3, <1>1, <1>7
  <2> QED
    BY <2>2, <2>3, <2>4, <1>1 DEF SInv, Draining
<1>17. Reported(s)'
  BY <1>1, <1>2, <1>5, <1>8 DEF SInv, Reported, ledgerVars
<1> QED
  BY <1>9, <1>11, <1>12, <1>13, <1>14, <1>15, <1>16, <1>17 DEF SInv, Preserves

\* A pipeline ends and leaves a result that the log supports.
LEMMA SettlePreserves ==
  ASSUME IInv, NEW s \in Services, NEW job \in Job, running[s] # None, Settle(s, job),
         job.req = jobs[s][running[s]].req, job.state \in Settled,
         job.state \in {"COMPLETED", "FAILED"} => job.gen \in DOMAIN log /\ log[job.gen].req = job.req,
         log' = log, DOMAIN call' = Services, DOMAIN ans' = Services,
         call'[s] = None, ans'[s] = L!Silent,
         \A t \in Services \ {s} : call'[t] = call[t] /\ ans'[t] = ans[t],
         call' \in [Services -> AppendRequests \cup {None}]
  PROVE  Preserves(s)
<1> DEFINE rid == running[s]
<1>1. SInv(s) /\ Typed
  BY DEF IInv
<1>2. /\ WithJob(s, rid, job) /\ running' = [running EXCEPT ![s] = None]
      /\ UNCHANGED <<up, stopped, byKey, ready, drain, awaited, lastId>>
  BY DEF Settle
<1>3. rid \in DOMAIN jobs[s] /\ jobs[s][rid].state = "RUNNING"
  BY <1>1 DEF SInv, Loop
<1> HIDE DEF rid
<1>4. /\ DOMAIN jobs' = Services
      /\ DOMAIN jobs'[s] = DOMAIN jobs[s]
      /\ jobs'[s][rid] = job
      /\ \A r \in DOMAIN jobs[s] \ {rid} : jobs'[s][r] = jobs[s][r]
      /\ \A t \in Services \ {s} : jobs'[t] = jobs[t]
  <2>1. DOMAIN jobs = Services /\ WithJob(s, rid, job)
    BY <1>1, <1>2 DEF Typed
  <2>2. DOMAIN jobs[s] \cup {rid} = DOMAIN jobs[s]
    BY <1>3
  <2>3. /\ DOMAIN jobs' = Services
        /\ DOMAIN jobs'[s] = DOMAIN jobs[s] \cup {rid}
        /\ jobs'[s][rid] = job
        /\ \A r \in DOMAIN jobs[s] \ {rid} : jobs'[s][r] = jobs[s][r]
        /\ \A t \in Services \ {s} : jobs'[t] = jobs[t]
    BY <2>1, JobWritten
  <2> QED
    BY <2>2, <2>3
<1>5. Typed' /\ Grows /\ \A t \in Services \ {s} : Untouched(t)
  BY <1>1, <1>2, <1>4 DEF Typed, Grows, Untouched
<1>6. job.req = jobs[s][rid].req /\ job.state \notin {"PENDING", "RUNNING"}
  BY DEF rid, Settled
<1>7. Memory(s)'
  BY <1>1, <1>2, <1>4, <1>6 DEF SInv, Memory
<1>8. Index(s)'
  BY <1>1, <1>2, <1>4, <1>6 DEF SInv, Index
<1>9. Queue(s)'
  BY <1>1, <1>2, <1>3, <1>4, <1>6 DEF SInv, Queue
<1>10. Loop(s)'
  <2>1. \A r \in DOMAIN jobs[s] : jobs[s][r].state = "RUNNING" => r = rid
    BY <1>1 DEF SInv, Loop, rid
  <2>2. \A r \in DOMAIN jobs'[s] : jobs'[s][r].state # "RUNNING"
    BY <2>1, <1>4, <1>6
  <2>3. running'[s] = None
    BY <1>1, <1>2 DEF Typed
  <2> QED
    BY <2>2, <2>3 DEF Loop
<1>11. Calling(s)'
  BY DEF Calling, L!Silent, L!Answer
<1>12. Draining(s)'
  <2>1. Unsettled(s)' \subseteq Unsettled(s)
    BY <1>4, <1>6 DEF Unsettled
  <2> QED
    BY <2>1, <1>1, <1>2 DEF SInv, Draining
<1>13. Reported(s)'
  BY <1>1, <1>4 DEF SInv, Reported
<1> QED
  BY <1>5, <1>7, <1>8, <1>9, <1>10, <1>11, <1>12, <1>13 DEF SInv, Preserves

\* The job whose pipeline runs.
LEMMA RunningJob ==
  ASSUME IInv, NEW s \in Services, running[s] # None
  PROVE  /\ running[s] \in DOMAIN jobs[s] /\ running[s] \in RequestIds
         /\ jobs[s][running[s]] \in Job
         /\ jobs[s][running[s]].state = "RUNNING"
         /\ jobs[s][running[s]].gen = jobs[s][running[s]].req.exp
         /\ jobs[s][running[s]].rec = None
  BY ZenonT(40) DEF IInv, SInv, Loop, Memory, Typed, Settled

\* A pipeline fails before it calls the ledger.
LEMMA FailsPreserves ==
  ASSUME IInv, NEW s \in Services, PipelineFails(s)
  PROVE  Preserves(s)
<1> DEFINE job == Unverifiable(jobs[s][running[s]])
<1>1. /\ running[s] # None /\ call[s] = None /\ Settle(s, job)
      /\ call' = call /\ ans' = ans /\ log' = log
  BY DEF PipelineFails, BeforeAppend, ledgerVars
<1>2. job \in Job /\ job.req = jobs[s][running[s]].req /\ job.state = "UNVERIFIABLE"
  BY <1>1, RunningJob DEF Unverifiable, Job, JobStates
<1>3. ans[s] = L!Silent
  BY <1>1 DEF IInv, SInv, Calling
<1>4. DOMAIN call = Services /\ DOMAIN ans = Services /\ call \in [Services -> AppendRequests \cup {None}]
  BY DEF IInv, Typed
<1> HIDE DEF job
<1> QED
  BY <1>1, <1>2, <1>3, <1>4, SettlePreserves DEF Settled

\* A pipeline takes the answer of the ledger.
LEMMA EndsPreserves ==
  ASSUME IInv, NEW s \in Services, PipelineEnds(s)
  PROVE  Preserves(s)
<1> DEFINE old == jobs[s][running[s]]
           job == SettledJob(old, ans[s], call[s])
<1>1. /\ running[s] # None /\ call[s] # None /\ Settle(s, job)
      /\ call' = [call EXCEPT ![s] = None]
      /\ ans' = [ans EXCEPT ![s] = L!Silent] /\ log' = log
  BY DEF PipelineEnds
<1>2. old \in Job
  BY <1>1, RunningJob
<1>3. call[s] \in AppendRequests /\ call[s].req = old.req
  BY <1>1, <1>2 DEF IInv, SInv, Calling, AppendRequest, Typed
<1>4. call[s].rec \in Receipts
  BY <1>3 DEF AppendRequests, Receipts
<1>5. ans[s].status \in {"APPENDED", "REPLAYED"} =>
        ans[s].gen \in DOMAIN log /\ log[ans[s].gen].req = old.req
  BY <1>1, <1>3 DEF IInv, SInv, Calling
<1>6. DOMAIN log \subseteq Nat
  BY DEF IInv, Typed
<1>7. /\ job \in Job /\ job.req = old.req /\ job.state \in Settled
      /\ job.state \in {"COMPLETED", "FAILED"} => job.gen \in DOMAIN log /\ log[job.gen].req = job.req
  <2>1. CASE ans[s].status \in {"APPENDED", "REPLAYED"}
    <3>1. job = [old EXCEPT !.state = StateOf(call[s].rec.disp), !.gen = ans[s].gen, !.rec = call[s].rec]
      BY <2>1 DEF SettledJob
    <3>2. StateOf(call[s].rec.disp) \in {"COMPLETED", "FAILED"}
      BY DEF StateOf
    <3> QED
      BY <2>1, <3>1, <3>2, <1>2, <1>4, <1>5, <1>6 DEF Job, JobStates, Settled
  <2>2. CASE ans[s].status \notin {"APPENDED", "REPLAYED"}
    <3>1. job = [old EXCEPT !.state = "UNVERIFIABLE"]
      BY <2>2 DEF SettledJob, Unverifiable
    <3> QED
      BY <3>1, <1>2 DEF Job, JobStates, Settled
  <2> QED
    BY <2>1, <2>2
<1>8. /\ DOMAIN call' = Services /\ DOMAIN ans' = Services
      /\ call' \in [Services -> AppendRequests \cup {None}]
      /\ call'[s] = None /\ ans'[s] = L!Silent
      /\ \A t \in Services \ {s} : call'[t] = call[t] /\ ans'[t] = ans[t]
  BY <1>1 DEF IInv, Typed
<1> HIDE DEF job
<1> QED
  BY <1>1, <1>7, <1>8, SettlePreserves

\* The pipeline calls append_or_replay.
LEMMA CallPreserves ==
  ASSUME IInv, NEW s \in Services, CallAppend(s)
  PROVE  Preserves(s)
<1>1. SInv(s) /\ Typed
  BY DEF IInv
<1>2. PICK disp \in Dispositions :
        /\ running[s] # None /\ log' = log
        /\ call' = [call EXCEPT ![s] = AppendRequest(running[s], jobs[s][running[s]], disp)]
        /\ ans' = [ans EXCEPT ![s] = L!Pending]
        /\ UNCHANGED <<memory, lastId>>
  BY DEF CallAppend, BeforeAppend, L!Invoke, L!Reply
<1> DEFINE r == AppendRequest(running[s], jobs[s][running[s]], disp)
<1>3. r \in AppendRequests
  <2>1. /\ jobs[s][running[s]].req \in Payloads /\ running[s] \in RequestIds
        /\ jobs[s][running[s]].gen = jobs[s][running[s]].req.exp
    BY <1>2, RunningJob DEF Job
  <2> QED
    BY <2>1 DEF AppendRequest, AppendRequests
<1>4. r # None
  BY <1>3
<1>5. r = AppendRequest(running[s], jobs[s][running[s]], disp)
  OBVIOUS
<1> HIDE DEF r
<1>6. call'[s] = r /\ ans'[s] = L!Pending
  BY <1>1, <1>2, <1>5 DEF Typed
<1>7. Typed' /\ Grows /\ \A t \in Services \ {s} : Untouched(t)
  BY <1>1, <1>2, <1>3, <1>5 DEF Typed, Grows, Untouched, memory
<1>8. Memory(s)' /\ Index(s)' /\ Loop(s)' /\ Reported(s)' /\ Queue(s)'
  BY <1>1, <1>2 DEF SInv, Memory, Index, Loop, Reported, Queue, memory
<1>9. Calling(s)'
  <2>1. \E d \in Dispositions : call'[s] = AppendRequest(running'[s], jobs'[s][running'[s]], d)
    BY <1>2, <1>5, <1>6 DEF memory
  <2> QED
    BY <2>1, <1>2, <1>4, <1>6 DEF Calling, memory, L!Pending, L!Answer
<1>10. Draining(s)'
  BY <1>1, <1>2 DEF SInv, Draining, Unsettled, memory
<1> QED
  BY <1>7, <1>8, <1>9, <1>10 DEF SInv, Preserves

(***************************************************************************)
(* A step of append_or_replay answers the call or binds it; a success it   *)
(* answers is in the log under the request of the call.                    *)
(***************************************************************************)
LEMMA LedgerEffect ==
  ASSUME IInv, NEW s \in Services, LedgerStep(s)
  PROVE  /\ running[s] # None /\ call[s] # None
         /\ call' = call /\ UNCHANGED <<memory, lastId>>
         /\ \E a : /\ ans' = [ans EXCEPT ![s] = a]
                   /\ a.status \notin {"NONE", "PENDING"}
                   /\ a.status \in {"APPENDED", "REPLAYED"} =>
                        /\ log' = log
                        /\ a.gen \in DOMAIN log /\ log[a.gen].req = call[s].req
                   /\ a.status = "APPENDED" => log[a.gen] = L!Binding(call[s], a.gen)
                   /\ a.status = "REPLAYED" => ans[s] = L!Pending /\ ~ L!KeyFree(call[s])
         /\ \/ log' = log
            \/ /\ ans[s] = L!Pending /\ ans' = [ans EXCEPT ![s] = L!Bound]
               /\ L!KeyFree(call[s]) /\ L!RequestIdFree(call[s])
               /\ log' = Append(log, L!Binding(call[s], Len(log) + 1))
<1>1. running[s] # None /\ UNCHANGED <<memory, lastId>>
  BY DEF LedgerStep
<1>2. ans[s] \in {L!Pending, L!Bound} => call[s] # None
  BY DEF IInv, SInv, Calling, L!Silent, L!Pending, L!Bound, L!Answer
<1>3. CASE L!Bind(s)
  <2>1. L!Bound.status \notin {"APPENDED", "REPLAYED", "NONE", "PENDING"}
    BY DEF L!Bound, L!Answer
  <2> QED
    BY <1>1, <1>2, <1>3, <2>1 DEF L!Bind, L!Reply
<1>4. CASE L!Acknowledge(s)
  <2>1. call[s] # None /\ log' = log /\ call' = call
    BY <1>2, <1>4 DEF L!Acknowledge
  <2>2. CASE \E i \in DOMAIN log : /\ log[i] = L!Binding(call[s], i)
                                   /\ L!Reply(s, L!Answer("APPENDED", log[i], i))
    <3>1. PICK i \in DOMAIN log : /\ log[i] = L!Binding(call[s], i)
                                  /\ ans' = [ans EXCEPT ![s] = L!Answer("APPENDED", log[i], i)]
      BY <2>2 DEF L!Reply
    <3>2. /\ L!Answer("APPENDED", log[i], i).gen = i /\ log[i].req = call[s].req
          /\ L!Answer("APPENDED", log[i], i).status = "APPENDED"
      BY <3>1 DEF L!Answer, L!Binding
    <3> QED
      BY <1>1, <2>1, <3>1, <3>2
  <2>3. CASE \E status \in {"UNKNOWN_EFFECT", "RAISED"} : L!Reply(s, L!Answer(status, None, 0))
    <3>1. PICK status \in {"UNKNOWN_EFFECT", "RAISED"} :
            ans' = [ans EXCEPT ![s] = L!Answer(status, None, 0)]
      BY <2>3 DEF L!Reply
    <3>2. L!Answer(status, None, 0).status \notin {"APPENDED", "REPLAYED", "NONE", "PENDING"}
      BY <3>1 DEF L!Answer
    <3> QED
      BY <1>1, <2>1, <3>1, <3>2
  <2> QED
    BY <1>4, <2>2, <2>3 DEF L!Acknowledge
<1>5. CASE L!Replay(s)
  <2>1. PICK i \in DOMAIN log : /\ log[i].key = call[s].key /\ log[i].req = call[s].req
                                /\ ans' = [ans EXCEPT ![s] = L!Answer("REPLAYED", log[i], i)]
    BY <1>5 DEF L!Replay, L!Reply
  <2>2. /\ L!Answer("REPLAYED", log[i], i).gen = i
        /\ L!Answer("REPLAYED", log[i], i).status = "REPLAYED"
    BY DEF L!Answer
  <2>3. ~ L!KeyFree(call[s])
    BY <2>1 DEF L!KeyFree
  <2> QED
    BY <1>1, <1>2, <1>5, <2>1, <2>2, <2>3 DEF L!Replay
<1>6. CASE L!Conflict(s) \/ L!Stale(s) \/ L!Fail(s)
  <2>1. call[s] # None /\ log' = log /\ call' = call
    BY <1>2, <1>6 DEF L!Conflict, L!Stale, L!Fail
  <2>2. \E status \in {"IDEMPOTENCY_CONFLICT", "STALE_GENERATION", "BUSY_RETRY_EXHAUSTED", "RAISED"} :
          \E n : ans' = [ans EXCEPT ![s] = L!Answer(status, None, n)]
    BY <1>6 DEF L!Conflict, L!Stale, L!Fail, L!Reply
  <2>3. PICK status \in {"IDEMPOTENCY_CONFLICT", "STALE_GENERATION", "BUSY_RETRY_EXHAUSTED", "RAISED"} :
          \E n : ans' = [ans EXCEPT ![s] = L!Answer(status, None, n)]
    BY <2>2
  <2>4. PICK n : ans' = [ans EXCEPT ![s] = L!Answer(status, None, n)]
    BY <2>3
  <2>5. L!Answer(status, None, n).status \notin {"APPENDED", "REPLAYED", "NONE", "PENDING"}
    BY <2>3 DEF L!Answer
  <2> QED
    BY <1>1, <2>1, <2>4, <2>5
<1> QED
  BY <1>3, <1>4, <1>5, <1>6 DEF LedgerStep

\* A binding of a request of a service is an entry of the log.
LEMMA BindingTyped ==
  ASSUME NEW r \in AppendRequests, NEW n \in Nat
  PROVE  L!Binding(r, n) \in Entry
  BY DEF AppendRequests, L!Binding, Entry, Keys, Receipts

\* append_or_replay at work.
LEMMA LedgerPreserves ==
  ASSUME IInv, NEW s \in Services, LedgerStep(s)
  PROVE  Preserves(s) /\ Len(log') >= Len(log)
<1>1. SInv(s) /\ Typed
  BY DEF IInv
<1>2. /\ running[s] # None /\ call[s] # None
      /\ call' = call /\ UNCHANGED <<memory, lastId>>
  BY LedgerEffect
<1>3. PICK a : /\ ans' = [ans EXCEPT ![s] = a]
               /\ a.status \in {"APPENDED", "REPLAYED"} =>
                    log' = log /\ a.gen \in DOMAIN log /\ log[a.gen].req = call[s].req
  BY LedgerEffect
<1>4. /\ log' \in Seq(Entry) /\ Len(log') >= Len(log)
      /\ \A i \in DOMAIN log : i \in DOMAIN log' /\ log'[i] = log[i]
  <2>1. CASE log' = log
    BY <2>1, <1>1 DEF Typed
  <2>2. CASE log' = Append(log, L!Binding(call[s], Len(log) + 1))
    <3>1. log \in Seq(Entry) /\ Len(log) + 1 \in Nat
      BY <1>1 DEF Typed
    <3>2. call[s] \in AppendRequests
      BY <1>1, <1>2 DEF Typed
    <3>3. L!Binding(call[s], Len(log) + 1) \in Entry
      BY <3>1, <3>2, BindingTyped
    <3> QED
      BY <2>2, <3>1, <3>3
  <2> QED
    BY <2>1, <2>2, LedgerEffect
<1>5. Typed' /\ Grows /\ \A t \in Services \ {s} : Untouched(t)
  BY <1>1, <1>2, <1>3, <1>4 DEF Typed, Grows, Untouched, memory
<1>6. Memory(s)' /\ Index(s)' /\ Loop(s)' /\ Queue(s)'
  BY <1>1, <1>2 DEF SInv, Memory, Index, Loop, Queue, memory
<1>7. Calling(s)'
  <2>1. ans'[s] = a
    BY <1>1, <1>3 DEF Typed
  <2>2. \E d \in Dispositions : call'[s] = AppendRequest(running'[s], jobs'[s][running'[s]], d)
    BY <1>1, <1>2 DEF SInv, Calling, memory
  <2> QED
    BY <2>1, <2>2, <1>2, <1>3, <1>4 DEF Calling, memory
<1>8. Draining(s)'
  BY <1>1, <1>2 DEF SInv, Draining, Unsettled, memory
<1>9. Reported(s)'
  BY <1>1, <1>2, <1>4 DEF SInv, Reported, memory
<1> QED
  BY <1>4, <1>5, <1>6, <1>7, <1>8, <1>9 DEF SInv, Preserves

-----------------------------------------------------------------------------
(***************************************************************************)
(* The invariant.                                                          *)
(***************************************************************************)
\* A step of service s.
ServiceStep(s) ==
  \/ StartRuntime(s)
  \/ \E p \in Payloads : Submit(s, p)
  \/ Work(s)
  \/ DrainBegins(s)
  \/ TimerExpires(s)
  \/ StopRuntime(s)
  \/ Crash(s)

LEMMA ServiceStepPreserves ==
  ASSUME IInv, NEW s \in Services, ServiceStep(s)
  PROVE  Preserves(s)
<1>1. CASE StartRuntime(s)
  BY <1>1, StartPreserves
<1>2. CASE \E p \in Payloads : Submit(s, p)
  BY <1>2, SubmitPreserves
<1>3. CASE Work(s)
  BY <1>3, RunTaskPreserves, FailsPreserves, CallPreserves, LedgerPreserves, EndsPreserves,
     DrainEndsPreserves DEF Work
<1>4. CASE DrainBegins(s)
  BY <1>4, DrainBeginsPreserves
<1>5. CASE TimerExpires(s)
  BY <1>5, TimerPreserves
<1>6. CASE StopRuntime(s) \/ Crash(s)
  BY <1>6, ForgetPreserves DEF StopRuntime, Crash
<1> QED
  BY <1>1, <1>2, <1>3, <1>4, <1>5, <1>6 DEF ServiceStep

LEMMA InitIInv == Init => IInv
<1> SUFFICES ASSUME Init PROVE IInv
  OBVIOUS
<1>1. Typed
  <2>1. << >> \in Seq(Entry) /\ << >> \in Seq(Nat)
    OBVIOUS
  <2> QED
    BY <2>1 DEF Init, L!Init, Typed
<1>2. ASSUME NEW s \in Services PROVE SInv(s)
  <2>1. /\ DOMAIN jobs[s] = {} /\ DOMAIN byKey[s] = {} /\ DOMAIN ready[s] = {} /\ running[s] = None
        /\ drain[s] = "no" /\ call[s] = None /\ ans[s] = L!Silent
    BY <1>2 DEF Init, L!Init, NoJobs
  <2> QED
    BY <2>1 DEF SInv, Memory, Index, Queue, Loop, Calling, Draining, Reported
<1> QED
  BY <1>1, <1>2 DEF IInv

LEMMA NextIInv == IInv /\ [Next]_vars => IInv'
<1> SUFFICES ASSUME IInv, [Next]_vars PROVE IInv'
  OBVIOUS
<1>1. CASE UNCHANGED vars
  <2>1. Typed' /\ Grows /\ \A t \in Services : Untouched(t)
    BY <1>1 DEF IInv, Typed, Grows, Untouched, vars, memory, ledgerVars
  <2> QED
    BY <2>1, UntouchedKeeps DEF IInv
<1>2. CASE Next
  <2>1. PICK s \in Services : ServiceStep(s)
    BY <1>2 DEF Next, ServiceStep
  <2>2. Preserves(s)
    BY <2>1, ServiceStepPreserves
  <2>3. \A t \in Services \ {s} : SInv(t)'
    BY <2>2, UntouchedKeeps DEF IInv, Preserves
  <2> QED
    BY <2>2, <2>3 DEF IInv, Preserves
<1> QED
  BY <1>1, <1>2

\* The invariant holds for all services, requests and bounds.
THEOREM Invariance == Spec => []IInv
  BY InitIInv, NextIInv, PTL DEF Spec

(***************************************************************************)
(* Type correctness: what the index, the queue and the loop of a service   *)
(* name are jobs that the service remembers (_in_flight).                  *)
(***************************************************************************)
THEOREM TypeCorrect == Spec => []TypeOK
<1>1. IInv => TypeOK
  <2> SUFFICES ASSUME IInv PROVE TypeOK
    OBVIOUS
  <2>1. lastId \in 0..MaxJobs /\ drain \in [Services -> {"no", "waiting", "done"}]
    BY DEF IInv, Typed
  <2>2. ASSUME NEW s \in Services
        PROVE  /\ DOMAIN jobs[s] \subseteq RequestIds
               /\ \A rid \in DOMAIN jobs[s] : jobs[s][rid].state \in JobStates
               /\ \A key \in DOMAIN byKey[s] : byKey[s][key] \in DOMAIN jobs[s]
               /\ \A i \in DOMAIN ready[s] : ready[s][i] \in DOMAIN jobs[s] \cup {Timer}
               /\ running[s] # None => running[s] \in DOMAIN jobs[s]
    <3>1. DOMAIN jobs[s] \subseteq RequestIds
      BY <2>1 DEF IInv, SInv, Memory, RequestIds
    <3>2. \A rid \in DOMAIN jobs[s] : jobs[s][rid].state \in JobStates
      BY DEF IInv, SInv, Memory, Job
    <3> QED
      BY <3>1, <3>2 DEF IInv, SInv, Index, Queue, Loop
  <2> QED
    BY <2>1, <2>2 DEF TypeOK
<1> QED
  BY <1>1, Invariance, PTL

(***************************************************************************)
(* A job is reported COMPLETED or FAILED only when the ledger binds, at    *)
(* the generation it reports, the request the client made: for any number  *)
(* of services on one ledger, failing lookups, restarts and lost answers.  *)
(***************************************************************************)
THEOREM ReportsAreBound == Spec => []ReportedIsBound
<1>1. IInv => ReportedIsBound
  BY DEF IInv, SInv, Reported, ReportedIsBound
<1> QED
  BY <1>1, Invariance, PTL

\* A service has one job for an idempotency key (_by_idempotency), whatever the ledger lookups say.
THEOREM KeysHaveOneJob == Spec => []OneJobPerKey
<1>1. IInv => OneJobPerKey
  BY DEF IInv, SInv, Index, OneJobPerKey
<1> QED
  BY <1>1, Invariance, PTL

\* drain() ends only when every job has a result; its timer cancels none.
THEOREM DrainLeavesNothing == Spec => []DrainSettles
<1>1. IInv => DrainSettles
  BY DEF IInv, SInv, Draining, DrainSettles
<1> QED
  BY <1>1, Invariance, PTL

-----------------------------------------------------------------------------
(***************************************************************************)
(* Results are final.                                                      *)
(***************************************************************************)
ResultsStay(s) ==
  \A rid \in DOMAIN jobs[s] :
    jobs[s][rid].state \in Settled /\ rid \in DOMAIN jobs'[s] => jobs'[s][rid] = jobs[s][rid]

\* Only a job without a result is ever written.
LEMMA WritingKeepsResults ==
  ASSUME IInv, NEW s \in Services, NEW rid, NEW job, WithJob(s, rid, job),
         rid \in DOMAIN jobs[s] => jobs[s][rid].state \notin Settled
  PROVE  ResultsStay(s)
<1>1. \A r \in DOMAIN jobs[s] \ {rid} : jobs'[s][r] = jobs[s][r]
  BY JobWritten DEF IInv, Typed
<1> QED
  BY <1>1 DEF ResultsStay

LEMMA StepKeepsResults ==
  ASSUME IInv, NEW s \in Services, ServiceStep(s)
  PROVE  ResultsStay(s)
<1>1. CASE UNCHANGED jobs
  BY <1>1 DEF ResultsStay
<1>2. ASSUME NEW p \in Payloads, Submit(s, p) PROVE ResultsStay(s)
  <2>1. lastId + 1 \notin DOMAIN jobs[s]
    BY DEF IInv, SInv, Memory, Typed
  <2> QED
    BY <2>1, <1>2, WritingKeepsResults DEF Submit, AcceptJob
<1>3. CASE RunTask(s)
  <2>1. ready[s] \in Seq(Nat) /\ ready[s] # << >> /\ Head(ready[s]) # Timer
    BY <1>3 DEF RunTask, IInv, Typed
  <2>2. 1 \in DOMAIN ready[s] /\ ready[s][1] = Head(ready[s])
    BY <2>1
  <2>3. jobs[s][Head(ready[s])].state \notin Settled
    BY <2>1, <2>2 DEF IInv, SInv, Queue, Settled
  <2> QED
    BY <2>3, <1>3, WritingKeepsResults DEF RunTask
<1>4. ASSUME NEW job, running[s] # None, Settle(s, job) PROVE ResultsStay(s)
  <2>1. jobs[s][running[s]].state \notin Settled
    BY <1>4, RunningJob DEF Settled
  <2> QED
    BY <2>1, <1>4, WritingKeepsResults DEF Settle
<1>5. CASE Forget(s)
  <2>1. DOMAIN jobs'[s] = {}
    BY <1>5 DEF Forget, NoJobs, IInv, Typed
  <2> QED
    BY <2>1 DEF ResultsStay
<1>6. CASE Work(s)
  <2>1. CASE PipelineFails(s)
    BY <2>1, <1>4 DEF PipelineFails, BeforeAppend
  <2>2. CASE PipelineEnds(s)
    BY <2>2, <1>4 DEF PipelineEnds
  <2>3. CASE CallAppend(s) \/ LedgerStep(s) \/ DrainEnds(s)
    BY <2>3, <1>1 DEF CallAppend, LedgerStep, DrainEnds, memory
  <2> QED
    BY <1>3, <1>6, <2>1, <2>2, <2>3 DEF Work
<1>7. CASE StartRuntime(s) \/ DrainBegins(s) \/ TimerExpires(s)
  BY <1>7, <1>1 DEF StartRuntime, DrainBegins, TimerExpires
<1> QED
  BY <1>2, <1>5, <1>6, <1>7 DEF ServiceStep, StopRuntime, Crash

(***************************************************************************)
(* The result of a job is final (_run_pipeline settles it once): no later  *)
(* answer of the ledger, retry of the client or drain() changes it while   *)
(* the service lives.                                                      *)
(***************************************************************************)
THEOREM ResultsAreFinal == Spec => ResultIsFinal
<1>1. IInv /\ [Next]_vars =>
        [\A s \in Services : \A rid \in DOMAIN jobs[s] :
           jobs[s][rid].state \in Settled /\ rid \in DOMAIN jobs'[s] =>
             jobs'[s][rid] = jobs[s][rid]]_jobs
  <2> SUFFICES ASSUME IInv, Next, NEW t \in Services PROVE ResultsStay(t)
    BY DEF ResultsStay, vars, memory
  <2>1. PICK s \in Services : ServiceStep(s)
    BY DEF Next, ServiceStep
  <2>2. CASE t = s
    BY <2>1, <2>2, StepKeepsResults
  <2>3. CASE t # s
    BY <2>1, <2>3, ServiceStepPreserves DEF Preserves, Untouched, ResultsStay
  <2> QED
    BY <2>2, <2>3
<1> QED
  BY <1>1, Invariance, PTL DEF Spec, ResultIsFinal

-----------------------------------------------------------------------------
(***************************************************************************)
(* A service alone with a readable ledger: one lemma per kind of step.     *)
(* The result of each is stated for the service that steps, which is the   *)
(* only one.                                                               *)
(***************************************************************************)
\* The jobs, the loop and the ledger stay as they are.
LEMMA NothingChanges ==
  ASSUME LogInv, NEW s \in Services, AInv(s),
         jobs'[s] = jobs[s], running'[s] = running[s], call'[s] = call[s], ans'[s] = ans[s],
         log' = log, lastId' = lastId
  PROVE  LogInv' /\ AInv(s)'
<1>1. LogInv'
  BY DEF LogInv
<1>2. Unbound(s)' /\ NoOtherRun(s)' /\ Appended(s)' /\ Stored(s)'
  BY DEF AInv, Unbound, NoOtherRun, Appended, Stored, Unsettled, L!Silent, L!Pending, L!Answer
<1> QED
  BY <1>1, <1>2 DEF AInv

\* A new job: its id is fresh, and its key is not in the ledger that was read.
LEMMA SubmitAlone ==
  ASSUME IInv, LogInv, NEW s \in Services, AInv(s), ~ Unreadable,
         NEW p \in Payloads, Submit(s, p)
  PROVE  LogInv' /\ AInv(s)'
<1> DEFINE rid == lastId + 1
           job == [req |-> p, state |-> "PENDING", gen |-> p.exp, rec |-> None]
<1>1. \A i \in DOMAIN log : log[i].key # p.key
  BY SubmitAccepted DEF Submit, EntriesWithKey
<1>2. /\ WithJob(s, rid, job) /\ lastId' = rid
      /\ log' = log /\ call' = call /\ ans' = ans /\ running' = running
  BY DEF Submit, AcceptJob, ledgerVars
<1>3. /\ rid \notin DOMAIN jobs[s]
      /\ \A i \in DOMAIN log : log[i].rid # rid
      /\ \A i \in DOMAIN log : log[i].rid \in 1..rid
  BY DEF IInv, SInv, Memory, Typed, LogInv
<1>4. job.state = "PENDING" /\ job.req = p
  OBVIOUS
<1> HIDE DEF rid, job
<1>5. /\ DOMAIN jobs'[s] = DOMAIN jobs[s] \cup {rid}
      /\ jobs'[s][rid] = job
      /\ \A r \in DOMAIN jobs[s] : jobs'[s][r] = jobs[s][r]
  BY <1>2, <1>3, JobWritten DEF IInv, Typed
<1>6. LogInv'
  BY <1>2, <1>3 DEF LogInv
<1>7. Unsettled(s)' = Unsettled(s) \cup {rid} /\ rid \notin Unsettled(s)
  BY <1>3, <1>4, <1>5 DEF Unsettled
<1>8. \A r \in Unsettled(s) : jobs'[s][r] = jobs[s][r]
  BY <1>5 DEF Unsettled
<1>9. Unbound(s)'
  BY <1>1, <1>2, <1>3, <1>4, <1>5, <1>7, <1>8 DEF AInv, Unbound, L!Silent, L!Pending, L!Answer
<1>10. NoOtherRun(s)'
  BY <1>1, <1>2, <1>4, <1>5, <1>7, <1>8 DEF AInv, NoOtherRun
<1>11. Appended(s)' /\ Stored(s)'
  BY <1>2, <1>4, <1>5 DEF AInv, Appended, Stored
<1> QED
  BY <1>6, <1>9, <1>10, <1>11 DEF AInv

\* The loop starts a pipeline: nothing of it is in the log.
LEMMA RunTaskAlone ==
  ASSUME IInv, LogInv, NEW s \in Services, AInv(s), RunTask(s)
  PROVE  LogInv' /\ AInv(s)'
<1> DEFINE rid == Head(ready[s])
           job == [jobs[s][rid] EXCEPT !.state = "RUNNING"]
<1>1. /\ ready[s] \in Seq(Nat) /\ ready[s] # << >> /\ rid # Timer /\ running[s] = None
      /\ WithJob(s, rid, job) /\ log' = log /\ call' = call /\ ans' = ans /\ lastId' = lastId
  BY DEF RunTask, LoopFree, IInv, Typed, ledgerVars
<1>2. 1 \in DOMAIN ready[s] /\ ready[s][1] = rid
  BY <1>1
<1>3. rid \in DOMAIN jobs[s] /\ jobs[s][rid].state = "PENDING" /\ jobs[s][rid] \in Job
  BY <1>1, <1>2 DEF IInv, SInv, Queue, Memory
<1>4. job.state = "RUNNING" /\ job.req = jobs[s][rid].req
  BY <1>3 DEF Job
<1>5. \A r \in DOMAIN jobs[s] : r # None
  BY DEF IInv, SInv, Memory, Typed
<1>6. call[s] = None
  BY <1>1 DEF IInv, SInv, Calling
<1> HIDE DEF rid, job
<1>7. /\ DOMAIN jobs'[s] = DOMAIN jobs[s] \cup {rid}
      /\ jobs'[s][rid] = job
      /\ \A r \in DOMAIN jobs[s] \ {rid} : jobs'[s][r] = jobs[s][r]
  BY <1>1, JobWritten DEF IInv, Typed
<1>8. /\ Unsettled(s)' = Unsettled(s)
      /\ \A r \in Unsettled(s) : r # None /\ jobs'[s][r].req = jobs[s][r].req
  BY <1>3, <1>4, <1>5, <1>7 DEF Unsettled
<1>9. \A r \in Unsettled(s) : \A i \in DOMAIN log : log[i].rid # r /\ log[i].key # jobs[s][r].req.key
  BY <1>1, <1>8 DEF AInv, Unbound
<1>10. Unbound(s)' /\ NoOtherRun(s)'
  BY <1>1, <1>8, <1>9 DEF Unbound, NoOtherRun
<1>11. Appended(s)' /\ Stored(s)'
  BY <1>1, <1>3, <1>4, <1>6, <1>7 DEF AInv, Appended, Stored
<1> QED
  BY <1>1, <1>10, <1>11 DEF AInv, LogInv

\* A pipeline ends with a result that the log supports.
LEMMA SettleAlone ==
  ASSUME IInv, LogInv, NEW s \in Services, AInv(s), NEW job, running[s] # None, Settle(s, job),
         job.state \in Settled, log' = log, call'[s] = None,
         job.state \in {"COMPLETED", "FAILED"} =>
           /\ job.gen \in DOMAIN log
           /\ log[job.gen].rid = running[s]
           /\ log[job.gen].rec = job.rec
           /\ job.state = StateOf(job.rec.disp),
         job.state = "UNVERIFIABLE" => job.rec = None
  PROVE  LogInv' /\ AInv(s)'
<1> DEFINE rid == running[s]
<1>1. WithJob(s, rid, job) /\ lastId' = lastId
  BY DEF Settle
<1>2. rid \in DOMAIN jobs[s]
  BY RunningJob
<1>3. /\ DOMAIN jobs'[s] = DOMAIN jobs[s] \cup {rid}
      /\ jobs'[s][rid] = job
      /\ \A r \in DOMAIN jobs[s] \ {rid} : jobs'[s][r] = jobs[s][r]
  BY <1>1, JobWritten DEF IInv, Typed
<1>4. \A r \in Unsettled(s)' : r \in Unsettled(s) /\ r # rid /\ jobs'[s][r] = jobs[s][r]
  BY <1>3 DEF Unsettled, Settled
<1>5. Unbound(s)' /\ NoOtherRun(s)'
  BY <1>4 DEF AInv, Unbound, NoOtherRun
<1>6. Appended(s)'
  BY DEF Appended
<1>7. Stored(s)'
  <2> SUFFICES ASSUME NEW r \in DOMAIN jobs'[s]
               PROVE  /\ jobs'[s][r].state \in {"COMPLETED", "FAILED"} =>
                           /\ jobs'[s][r].gen \in DOMAIN log
                           /\ log[jobs'[s][r].gen].rid = r
                           /\ log[jobs'[s][r].gen].rec = jobs'[s][r].rec
                           /\ jobs'[s][r].state = StateOf(jobs'[s][r].rec.disp)
                      /\ jobs'[s][r].state = "UNVERIFIABLE" => jobs'[s][r].rec = None
    BY DEF Stored
  <2>1. CASE r = rid
    BY <2>1, <1>3
  <2>2. CASE r # rid
    BY <2>2, <1>3 DEF AInv, Stored
  <2> QED
    BY <2>1, <2>2
<1> QED
  BY <1>1, <1>5, <1>6, <1>7 DEF AInv, LogInv

\* The call of a service names the running job.
LEMMA CallOfRunning ==
  ASSUME IInv, NEW s \in Services, call[s] # None
  PROVE  call[s].rid = running[s] /\ call[s].key = jobs[s][running[s]].req.key
<1>1. Calling(s)
  BY DEF IInv, SInv
<1>2. PICK disp \in Dispositions : call[s] = AppendRequest(running[s], jobs[s][running[s]], disp)
  BY <1>1 DEF Calling
<1> QED
  BY <1>2 DEF AppendRequest

\* The two ends of a pipeline.
LEMMA PipelineEndsAlone ==
  ASSUME IInv, LogInv, NEW s \in Services, AInv(s), PipelineFails(s) \/ PipelineEnds(s)
  PROVE  LogInv' /\ AInv(s)'
<1> DEFINE old == jobs[s][running[s]]
<1>1. running[s] # None
  BY DEF PipelineFails, PipelineEnds, BeforeAppend
<1>2. old \in Job /\ old.rec = None
  BY <1>1, RunningJob
<1>3. Unverifiable(old).state = "UNVERIFIABLE" /\ Unverifiable(old).rec = None
  BY <1>2 DEF Unverifiable, Job
<1>4. CASE PipelineFails(s)
  BY <1>1, <1>3, <1>4, SettleAlone DEF PipelineFails, BeforeAppend, ledgerVars, Settled
<1>5. CASE PipelineEnds(s)
  <2> DEFINE job == SettledJob(old, ans[s], call[s])
  <2>1. call[s] # None /\ Settle(s, job) /\ log' = log /\ call'[s] = None
    BY <1>5 DEF PipelineEnds, IInv, Typed
  <2>2. call[s].rid = running[s]
    BY <2>1, CallOfRunning
  <2>3. CASE ans[s].status \in {"APPENDED", "REPLAYED"}
    <3>1. job = [old EXCEPT !.state = StateOf(call[s].rec.disp), !.gen = ans[s].gen, !.rec = call[s].rec]
      BY <2>3 DEF SettledJob
    <3>2. job.state = StateOf(call[s].rec.disp) /\ job.gen = ans[s].gen /\ job.rec = call[s].rec
      BY <3>1, <1>2 DEF Job
    <3>3. job.state \in Settled /\ job.state # "UNVERIFIABLE"
      BY <3>2 DEF StateOf, Settled
    <3>4. ans[s].gen \in DOMAIN log /\ log[ans[s].gen].rid = running[s] /\ log[ans[s].gen].rec = call[s].rec
      BY <2>1, <2>2, <2>3 DEF AInv, Appended
    <3> HIDE DEF job
    <3> QED
      BY <1>1, <2>1, <3>2, <3>3, <3>4, SettleAlone
  <2>4. CASE ans[s].status \notin {"APPENDED", "REPLAYED"}
    <3>1. job = Unverifiable(old)
      BY <2>4 DEF SettledJob
    <3> HIDE DEF job
    <3> QED
      BY <1>1, <1>3, <2>1, <3>1, SettleAlone DEF Settled
  <2> QED
    BY <2>3, <2>4
<1> QED
  BY <1>4, <1>5

\* The pipeline calls the ledger, which holds nothing of it yet.
LEMMA CallAlone ==
  ASSUME IInv, LogInv, NEW s \in Services, AInv(s), CallAppend(s)
  PROVE  LogInv' /\ AInv(s)'
<1>1. /\ ans'[s] = L!Pending /\ log' = log /\ call[s] = None
      /\ jobs' = jobs /\ running' = running /\ lastId' = lastId
  BY DEF CallAppend, BeforeAppend, L!Invoke, L!Reply, memory, IInv, Typed
<1>2. ans[s] = L!Silent
  BY <1>1 DEF IInv, SInv, Calling
<1>3. \A r \in Unsettled(s) : \A i \in DOMAIN log : log[i].rid # r /\ log[i].key # jobs[s][r].req.key
  BY <1>2 DEF AInv, Unbound
<1>4. Unbound(s)' /\ NoOtherRun(s)'
  BY <1>1, <1>3 DEF Unbound, NoOtherRun, Unsettled
<1>5. Appended(s)'
  BY <1>1 DEF Appended, L!Pending, L!Answer
<1>6. Stored(s)'
  BY <1>1 DEF AInv, Stored
<1> QED
  BY <1>1, <1>4, <1>5, <1>6 DEF AInv, LogInv

(***************************************************************************)
(* append_or_replay binds the running job, whose key and id are in no      *)
(* entry; it has nothing to replay.                                        *)
(***************************************************************************)
LEMMA LedgerAlone ==
  ASSUME IInv, LogInv, NEW s \in Services, AInv(s), LedgerStep(s)
  PROVE  LogInv' /\ AInv(s)'
<1> DEFINE rid == running[s]
<1>1. /\ rid # None /\ call[s] # None
      /\ call' = call /\ jobs' = jobs /\ running' = running /\ lastId' = lastId
  BY LedgerEffect DEF memory
<1>2. PICK a :
        /\ ans' = [ans EXCEPT ![s] = a]
        /\ a.status \notin {"NONE", "PENDING"}
        /\ a.status \in {"APPENDED", "REPLAYED"} => log' = log /\ a.gen \in DOMAIN log
        /\ a.status = "APPENDED" => log[a.gen] = L!Binding(call[s], a.gen)
        /\ a.status = "REPLAYED" => ans[s] = L!Pending /\ ~ L!KeyFree(call[s])
  BY LedgerEffect
<1>3. ans'[s] = a /\ ans'[s] \notin {L!Silent, L!Pending}
  BY <1>2 DEF IInv, Typed, L!Silent, L!Pending, L!Answer
<1>4. /\ rid \in DOMAIN jobs[s] /\ jobs[s][rid].state = "RUNNING" /\ rid \in 1..lastId
      /\ call[s].rid = rid /\ call[s].key = jobs[s][rid].req.key
  BY <1>1, RunningJob, CallOfRunning DEF IInv, SInv, Memory
<1>5. rid \in Unsettled(s)
  BY <1>4 DEF Unsettled
<1>6. ans[s] = L!Pending => \A i \in DOMAIN log : log[i].rid # rid /\ log[i].key # call[s].key
  BY <1>4, <1>5 DEF AInv, Unbound
<1>7. a.status # "REPLAYED"
  BY <1>2, <1>6 DEF L!KeyFree
<1>8. Appended(s)'
  BY <1>1, <1>2, <1>3, <1>7 DEF Appended, L!Binding
<1>9. Unsettled(s)' = Unsettled(s)
  BY <1>1 DEF Unsettled
<1>10. CASE log' = log
  <2>1. Unbound(s)' /\ NoOtherRun(s)' /\ Stored(s)'
    BY <1>1, <1>3, <1>9, <1>10 DEF AInv, Unbound, NoOtherRun, Stored
  <2> QED
    BY <1>1, <1>8, <1>10, <2>1 DEF AInv, LogInv
<1>11. CASE /\ ans[s] = L!Pending
            /\ log' = Append(log, L!Binding(call[s], Len(log) + 1))
  <2> DEFINE n == Len(log) + 1
  <2>1. log \in Seq(Entry)
    BY DEF IInv, Typed
  <2>2. /\ DOMAIN log' = DOMAIN log \cup {n} /\ n \notin DOMAIN log
        /\ log'[n] = L!Binding(call[s], n)
        /\ \A i \in DOMAIN log : log'[i] = log[i]
    <3>1. \A b : /\ DOMAIN Append(log, b) = DOMAIN log \cup {n} /\ n \notin DOMAIN log
                 /\ Append(log, b)[n] = b
                 /\ \A i \in DOMAIN log : Append(log, b)[i] = log[i]
      BY <2>1, AppendProperties
    <3> QED
      BY <3>1, <1>11
  <2>3. log'[n].rid = rid /\ log'[n].key = jobs[s][rid].req.key
    BY <2>2, <1>4 DEF L!Binding
  <2> HIDE DEF n
  <2>4. LogInv'
    BY <2>2, <2>3, <1>1, <1>4, <1>6, <1>11 DEF LogInv
  <2>5. \A r \in Unsettled(s) : r # rid => jobs[s][r].req.key # jobs[s][rid].req.key
    BY <1>4 DEF IInv, SInv, Index, Unsettled
  <2>6. Unbound(s)'
    BY <2>2, <2>3, <2>5, <1>1, <1>3, <1>9 DEF AInv, Unbound
  <2>7. NoOtherRun(s)'
    BY <2>2, <2>3, <2>5, <1>1, <1>9 DEF AInv, NoOtherRun
  <2>8. Stored(s)'
    BY <2>2, <1>1 DEF AInv, Stored
  <2> QED
    BY <2>4, <2>6, <2>7, <2>8, <1>8 DEF AInv
<1> QED
  BY <1>10, <1>11, LedgerEffect

\* A process that stops or dies leaves the log as it is.
LEMMA ForgetAlone ==
  ASSUME IInv, LogInv, NEW s \in Services, Forget(s)
  PROVE  LogInv' /\ AInv(s)'
<1>1. DOMAIN jobs'[s] = {} /\ call'[s] = None /\ log' = log /\ lastId' = lastId
  BY DEF Forget, NoJobs, IInv, Typed
<1> QED
  BY <1>1 DEF AInv, LogInv, Unbound, NoOtherRun, Appended, Stored, Unsettled

LEMMA StepAlone ==
  ASSUME IInv, LogInv, NEW s \in Services, AInv(s), ~ Unreadable, ServiceStep(s)
  PROVE  LogInv' /\ AInv(s)'
<1>1. CASE StartRuntime(s) \/ DrainBegins(s) \/ TimerExpires(s) \/ DrainEnds(s)
  BY <1>1, NothingChanges DEF StartRuntime, DrainBegins, TimerExpires, DrainEnds, ledgerVars
<1>2. CASE \E p \in Payloads : Submit(s, p)
  BY <1>2, SubmitAlone
<1>3. CASE RunTask(s) \/ PipelineFails(s) \/ PipelineEnds(s) \/ CallAppend(s) \/ LedgerStep(s)
  BY <1>3, RunTaskAlone, PipelineEndsAlone, CallAlone, LedgerAlone
<1>4. CASE StopRuntime(s) \/ Crash(s)
  BY <1>4, ForgetAlone DEF StopRuntime, Crash
<1> QED
  BY <1>1, <1>2, <1>3, <1>4 DEF ServiceStep, Work

LEMMA InitAlone == Init => AloneInv
<1> SUFFICES ASSUME Init PROVE AloneInv
  OBVIOUS
<1>1. DOMAIN log = {}
  BY DEF Init, L!Init
<1>2. \A s \in Services : DOMAIN jobs[s] = {} /\ call[s] = None
  BY DEF Init, L!Init, NoJobs
<1> QED
  BY <1>1, <1>2 DEF AloneInv, AInv, LogInv, Unbound, NoOtherRun, Appended, Stored, Unsettled

LEMMA NextAlone ==
  ASSUME Alone
  PROVE  IInv /\ AloneInv /\ [Next]_vars => AloneInv'
<1> SUFFICES ASSUME IInv, AloneInv, [Next]_vars PROVE AloneInv'
  OBVIOUS
<1>1. CASE UNCHANGED vars
  <2>1. ASSUME NEW s \in Services PROVE LogInv' /\ AInv(s)'
    BY <1>1, <2>1, NothingChanges DEF AloneInv, vars, memory, ledgerVars
  <2>2. LogInv'
    BY <1>1 DEF AloneInv, LogInv, vars, ledgerVars
  <2> QED
    BY <2>1, <2>2 DEF AloneInv
<1>2. CASE Next
  <2>1. PICK s \in Services : ServiceStep(s)
    BY <1>2 DEF Next, ServiceStep
  <2>2. LogInv' /\ AInv(s)'
    BY <2>1, StepAlone DEF Alone, AloneInv
  <2>3. \A t \in Services : t = s
    BY DEF Alone
  <2> QED
    BY <2>2, <2>3 DEF AloneInv
<1> QED
  BY <1>1, <1>2

\* Alone with a readable ledger, a service's memory and the log agree for ever.
THEOREM AloneInvariance ==
  ASSUME Alone
  PROVE  Spec => []AloneInv
<1>1. IInv /\ AloneInv /\ [Next]_vars => AloneInv'
  BY NextAlone
<1> QED
  BY <1>1, InitAlone, Invariance, PTL DEF Spec

(***************************************************************************)
(* get_receipt hands out only receipts that the ledger stores for the      *)
(* request id: a job keeps a receipt only if the ledger bound it.  With a  *)
(* second service this fails: the pipeline takes a replay for its own.     *)
(***************************************************************************)
THEOREM ReceiptsAreInTheLedger ==
  ASSUME Alone
  PROVE  Spec => []ReceiptsAreStored
<1>1. IInv /\ AloneInv => ReceiptsAreStored
  <2> SUFFICES ASSUME IInv, AloneInv, NEW s \in Services, NEW rid \in RequestIds,
                      ReceiptReply(s, rid).code = 200
               PROVE  \E i \in DOMAIN log : log[i].rid = rid /\ log[i].rec = ReceiptReply(s, rid).rec
    BY DEF ReceiptsAreStored
  <2> DEFINE i0 == CHOOSE i \in EntriesWithRequestId(rid) : TRUE
  <2>1. CASE rid \in DOMAIN jobs[s] /\ jobs[s][rid].state \notin {"PENDING", "RUNNING"}
               /\ jobs[s][rid].rec # None
    <3>1. ReceiptReply(s, rid).rec = jobs[s][rid].rec
      BY <2>1 DEF ReceiptReply, JobReply, Reply
    <3>2. jobs[s][rid].state \in {"COMPLETED", "FAILED"}
      BY <2>1 DEF IInv, SInv, Memory, Job, JobStates, AloneInv, AInv, Stored
    <3> QED
      BY <2>1, <3>1, <3>2 DEF AloneInv, AInv, Stored
  <2>2. ReceiptReply(s, rid) \in {Refusal(409), Refusal(404)} => FALSE
    BY DEF Refusal, Reply
  <2>3. CASE /\ ReceiptReply(s, rid) = EntryReply(i0)
             /\ EntriesWithRequestId(rid) # {}
    <3>1. i0 \in EntriesWithRequestId(rid)
      BY <2>3
    <3>2. EntryReply(i0).rec = log[i0].rec
      BY DEF EntryReply, Reply
    <3> HIDE DEF i0
    <3> QED
      BY <2>3, <3>1, <3>2 DEF EntriesWithRequestId
  <2> QED
    BY <2>1, <2>2, <2>3 DEF ReceiptReply
<1> QED
  BY <1>1, Invariance, AloneInvariance, PTL

(***************************************************************************)
(* A request whose result is in the ledger is not executed again: what     *)
(* submit_certification admits has no entry, and nobody else makes one.    *)
(***************************************************************************)
THEOREM NothingRunsTwice ==
  ASSUME Alone
  PROVE  Spec => []NoSecondRun
<1>1. AloneInv => NoSecondRun
  BY DEF AloneInv, AInv, NoOtherRun, NoSecondRun
<1> QED
  BY <1>1, AloneInvariance, PTL

\* What get_status answers from the ledger is the one entry of the request id.
LEMMA StatusFromLedger ==
  ASSUME LogInv, NEW s \in Services, NEW rid, NEW i \in DOMAIN log,
         rid \notin DOMAIN jobs[s], log[i].rid = rid
  PROVE  StatusReply(s, rid) = EntryReply(i)
<1>1. EntriesWithRequestId(rid) = {i}
  BY DEF EntriesWithRequestId, LogInv
<1> QED
  BY <1>1 DEF StatusReply

\* A request id that was handed out earlier gets no second job.
LEMMA IdsAreFresh ==
  ASSUME IInv, NEW s \in Services, ServiceStep(s), NEW rid \in 1..lastId, rid \notin DOMAIN jobs[s]
  PROVE  rid \notin DOMAIN jobs'[s]
<1>1. ASSUME NEW r, NEW job, WithJob(s, r, job), r # rid PROVE rid \notin DOMAIN jobs'[s]
  BY <1>1, JobWritten DEF IInv, Typed
<1>2. ASSUME NEW p \in Payloads, Submit(s, p) PROVE rid \notin DOMAIN jobs'[s]
  <2>1. lastId + 1 # rid
    BY DEF IInv, Typed
  <2> QED
    BY <2>1, <1>1, <1>2 DEF Submit, AcceptJob
<1>3. CASE RunTask(s)
  <2>1. ready[s] \in Seq(Nat) /\ ready[s] # << >> /\ Head(ready[s]) # Timer
    BY <1>3 DEF RunTask, IInv, Typed
  <2>2. 1 \in DOMAIN ready[s] /\ ready[s][1] = Head(ready[s])
    BY <2>1
  <2>3. Head(ready[s]) # rid
    BY <2>1, <2>2 DEF IInv, SInv, Queue
  <2> QED
    BY <2>3, <1>1, <1>3 DEF RunTask
<1>4. CASE PipelineFails(s) \/ PipelineEnds(s)
  <2>1. running[s] # rid
    BY <1>4, RunningJob DEF PipelineFails, PipelineEnds, BeforeAppend
  <2> QED
    BY <2>1, <1>1, <1>4 DEF PipelineFails, PipelineEnds, Settle
<1>5. CASE Forget(s)
  BY <1>5 DEF Forget, NoJobs, IInv, Typed
<1>6. CASE UNCHANGED jobs
  BY <1>6
<1>7. CASE \/ CallAppend(s) \/ LedgerStep(s) \/ DrainEnds(s)
           \/ StartRuntime(s) \/ DrainBegins(s) \/ TimerExpires(s)
  BY <1>6, <1>7
     DEF CallAppend, LedgerStep, DrainEnds, StartRuntime, DrainBegins, TimerExpires, memory
<1> QED
  BY <1>2, <1>3, <1>4, <1>5, <1>7 DEF ServiceStep, Work, StopRuntime, Crash

(***************************************************************************)
(* get_status never takes back a result: it answers from memory while the  *)
(* service lives and, after a stop or a crash, from the ledger with the    *)
(* same state, generation and receipt.                                     *)
(***************************************************************************)
THEOREM StatusIsDurable ==
  ASSUME Alone
  PROVE  Spec => StatusSurvivesRestart
<1>1. ASSUME IInv, AloneInv, AloneInv', NEW s \in Services, ServiceStep(s),
             NEW rid \in RequestIds, StatusReply(s, rid).state \in {"COMPLETED", "FAILED"}
      PROVE  StatusReply(s, rid)' = StatusReply(s, rid)
  <2>1. LogInv /\ LogInv' /\ Grows /\ ResultsStay(s)
    BY <1>1, ServiceStepPreserves, StepKeepsResults DEF AloneInv, Preserves
  <2>2. ASSUME NEW i \in DOMAIN log, log[i].rid = rid, rid \notin DOMAIN jobs'[s]
        PROVE  StatusReply(s, rid)' = EntryReply(i)
    <3>1. i \in DOMAIN log' /\ log'[i] = log[i]
      BY <2>1 DEF Grows
    <3>2. EntriesWithRequestId(rid)' = {i}
      BY <2>1, <2>2, <3>1 DEF EntriesWithRequestId, LogInv
    <3>3. StatusReply(s, rid)' = EntryReply(i)'
      BY <2>2, <3>2 DEF StatusReply
    <3> QED
      BY <3>1, <3>3 DEF EntryReply, Reply
  <2>3. CASE rid \in DOMAIN jobs[s]
    <3> DEFINE job == jobs[s][rid]
    <3>1. StatusReply(s, rid) = JobReply(200, rid, job) /\ job.state \in {"COMPLETED", "FAILED"}
      BY <1>1, <2>3 DEF StatusReply, JobReply, Reply
    <3>2. CASE rid \in DOMAIN jobs'[s]
      <4>1. jobs'[s][rid] = job
        BY <2>1, <2>3, <3>1, <3>2 DEF ResultsStay, Settled
      <4> QED
        BY <3>1, <3>2, <4>1 DEF StatusReply, JobReply, Reply
    <3>3. CASE rid \notin DOMAIN jobs'[s]
      <4>1. /\ job.gen \in DOMAIN log /\ log[job.gen].rid = rid /\ log[job.gen].rec = job.rec
            /\ job.state = StateOf(job.rec.disp)
        BY <1>1, <2>3, <3>1 DEF AloneInv, AInv, Stored
      <4>2. StatusReply(s, rid)' = EntryReply(job.gen)
        BY <2>2, <3>3, <4>1
      <4> QED
        BY <3>1, <4>1, <4>2 DEF EntryReply, JobReply, Reply
    <3> QED
      BY <3>2, <3>3
  <2>4. CASE rid \notin DOMAIN jobs[s]
    <3>1. EntriesWithRequestId(rid) # {}
      <4>1. Refusal(404).state = None
        BY DEF Refusal, Reply
      <4> QED
        BY <1>1, <2>4, <4>1 DEF StatusReply
    <3>2. PICK i \in DOMAIN log : log[i].rid = rid
      BY <3>1 DEF EntriesWithRequestId
    <3>3. rid \in 1..lastId
      BY <2>1, <3>2 DEF LogInv
    <3>4. rid \notin DOMAIN jobs'[s]
      BY <1>1, <2>4, <3>3, IdsAreFresh
    <3>5. StatusReply(s, rid) = EntryReply(i)
      BY <2>1, <2>4, <3>2, StatusFromLedger
    <3> QED
      BY <2>2, <3>2, <3>4, <3>5
  <2> QED
    BY <2>3, <2>4
<1>2. IInv /\ AloneInv /\ AloneInv' /\ [Next]_vars =>
        [\A s \in Services : \A rid \in RequestIds :
           StatusReply(s, rid).state \in {"COMPLETED", "FAILED"} =>
             StatusReply(s, rid)' = StatusReply(s, rid)]_vars
  <2> SUFFICES ASSUME IInv, AloneInv, AloneInv', Next, NEW t \in Services, NEW rid \in RequestIds,
                      StatusReply(t, rid).state \in {"COMPLETED", "FAILED"}
               PROVE  StatusReply(t, rid)' = StatusReply(t, rid)
    OBVIOUS
  <2>1. PICK s \in Services : ServiceStep(s)
    BY DEF Next, ServiceStep
  <2>2. t = s
    BY DEF Alone
  <2> QED
    BY <1>1, <2>1, <2>2
<1> QED
  BY <1>2, Invariance, AloneInvariance, PTL DEF Spec, StatusSurvivesRestart

=============================================================================
