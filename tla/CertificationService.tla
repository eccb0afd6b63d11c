------------------------- MODULE CertificationService -------------------------
(***************************************************************************)
(* RuntimeCertificationService (product/runtime/service.py) and its life   *)
(* cycle (product/runtime/http.py): services that share one ledger file.   *)
(*                                                                         *)
(* A service is one asyncio event loop.  The handlers and the pipeline of  *)
(* a job contain no await, so each runs to its end before the loop turns;  *)
(* what other services do to the ledger, and the death of the process, can *)
(* fall between the steps of a pipeline.  The loop runs its ready tasks in *)
(* FIFO order; the timer that ends drain() takes its place in that queue.  *)
(*                                                                         *)
(* append_or_replay is AbstractLedger, which Ledger implements: an append  *)
(* takes effect in one step and is answered in another.                    *)
(***************************************************************************)
EXTENDS Naturals, Sequences, FiniteSets

CONSTANTS
  Services,    \* the processes that serve the ledger
  Payloads,    \* the valid certification requests: key, body, exp
  MaxJobs,     \* bound: request ids handed out
  Unreadable,  \* TRUE iff a lookup in the ledger file may fail
  None

ASSUME ServiceAssumption ==
  /\ MaxJobs \in Nat
  /\ Unreadable \in BOOLEAN
  /\ \A p \in Payloads : p.exp \in Nat
  /\ None \notin Nat
  /\ None \notin {"COMPLETED", "FAILED"}

VARIABLES
  log, call, ans,  \* the ledger and the services' calls of append_or_replay
  up,              \* the process runs
  stopped,         \* _admission_stopped
  jobs,            \* _in_flight: request id -> job
  byKey,           \* _by_idempotency: idempotency key -> request id
  ready,           \* the event loop's queue of tasks and of drain's timer
  running,         \* the job whose pipeline occupies the loop, or None
  drain,           \* "no", "waiting" or "done"
  awaited,         \* the jobs whose tasks drain() waits for
  lastId           \* uuid4: the request ids 1..lastId have been handed out

ledgerVars == <<log, call, ans>>
memory == <<up, stopped, jobs, byKey, ready, running, drain, awaited>>
vars == <<ledgerVars, memory, lastId>>

RequestIds == 1..MaxJobs

\* The entry of drain's timer in the event loop's queue.
Timer == 0

Dispositions == {"CERTIFIED", "REJECTED", "BLOCKED"}

(***************************************************************************)
(* What a pipeline appends: receipt and envelope name the job, so that no  *)
(* two runs produce the same ones.                                         *)
(***************************************************************************)
AppendRequest(rid, job, disp) ==
  [key |-> job.req.key, req |-> job.req, rid |-> rid, exp |-> job.gen,
   env |-> rid, rec |-> [job |-> rid, disp |-> disp]]

AppendRequests ==
  {[key |-> p.key, req |-> p, rid |-> rid, exp |-> p.exp, env |-> rid,
    rec |-> [job |-> rid, disp |-> disp]] :
     p \in Payloads, rid \in RequestIds, disp \in Dispositions}

ASSUME NoneIsNoRequest == None \notin AppendRequests

L == INSTANCE AbstractLedger WITH Procs <- Services, Requests <- AppendRequests

NoJobs == [rid \in {} |-> None]

Init ==
  /\ L!Init
  /\ up = [s \in Services |-> FALSE]
  /\ stopped = [s \in Services |-> FALSE]
  /\ jobs = [s \in Services |-> NoJobs]
  /\ byKey = [s \in Services |-> NoJobs]
  /\ ready = [s \in Services |-> << >>]
  /\ running = [s \in Services |-> None]
  /\ drain = [s \in Services |-> "no"]
  /\ awaited = [s \in Services |-> {}]
  /\ lastId = 0

-----------------------------------------------------------------------------
(* The ledger as the handlers read it.                                     *)

\* _get_ledger_entry_by_idempotency and get_by_request_id.
EntriesWithKey(key) == {i \in DOMAIN log : log[i].key = key}

EntriesWithRequestId(rid) == {i \in DOMAIN log : log[i].rid = rid}

\* _get_current_ledger_generation
CurrentGeneration == Len(log)

StateOf(disp) == IF disp = "REJECTED" THEN "FAILED" ELSE "COMPLETED"

Reply(code, rid, state, gen, rec) ==
  [code |-> code, rid |-> rid, state |-> state, gen |-> gen, rec |-> rec]

Refusal(code) == Reply(code, None, None, 0, None)

EntryReply(i) == Reply(200, log[i].rid, StateOf(log[i].rec.disp), i, log[i].rec)

JobReply(code, rid, job) == Reply(code, rid, job.state, job.gen, job.rec)

\* The loop of s is free to run a handler.
LoopFree(s) == up[s] /\ running[s] = None

(***************************************************************************)
(* submit_certification(p) on service s; keyRead and genRead tell whether  *)
(* the two lookups in the ledger succeed (an exception reads as "no entry" *)
(* and as generation 0).  Accepted is the 202 of a job yet to be created.  *)
(***************************************************************************)
Accepted == Refusal(202)

\* Mutant: the committed ledger entry is not looked up first.
SubmitReplyFromMemory(s, p, keyRead, genRead) ==
  IF stopped[s] THEN Refusal(503)
  ELSE IF p.key \in DOMAIN byKey[s]
       THEN JobReply(202, byKey[s][p.key], jobs[s][byKey[s][p.key]])
       ELSE Accepted

SubmitReply(s, p, keyRead, genRead) ==
  LET entries == IF keyRead THEN EntriesWithKey(p.key) ELSE {}
      generation == IF genRead THEN CurrentGeneration ELSE 0
  IN  CASE stopped[s] -> Refusal(503)
        [] ~ stopped[s] /\ entries # {} ->
             LET i == CHOOSE i \in entries : TRUE
             IN  IF log[i].req # p THEN Refusal(409) ELSE EntryReply(i)
        [] ~ stopped[s] /\ entries = {} /\ p.key \in DOMAIN byKey[s] ->
             LET rid == byKey[s][p.key]
             IN  IF jobs[s][rid].req # p THEN Refusal(409)
                 ELSE JobReply(202, rid, jobs[s][rid])
        [] OTHER -> IF p.exp # generation THEN Refusal(409) ELSE Accepted

\* get_status
StatusReply(s, rid) ==
  IF rid \in DOMAIN jobs[s] THEN JobReply(200, rid, jobs[s][rid])
  ELSE IF EntriesWithRequestId(rid) = {} THEN Refusal(404)
  ELSE EntryReply(CHOOSE i \in EntriesWithRequestId(rid) : TRUE)

\* get_receipt
ReceiptReply(s, rid) ==
  IF rid \in DOMAIN jobs[s] /\ jobs[s][rid].state \in {"PENDING", "RUNNING"}
    THEN Refusal(409)
  ELSE IF rid \in DOMAIN jobs[s] /\ jobs[s][rid].rec # None
    THEN JobReply(200, rid, jobs[s][rid])
  ELSE IF EntriesWithRequestId(rid) = {} THEN Refusal(404)
  ELSE EntryReply(CHOOSE i \in EntriesWithRequestId(rid) : TRUE)

-----------------------------------------------------------------------------
(* The actions of a service.                                               *)

\* start_runtime: verify_chain accepts the ledger (Ledger!ChainVerifies), and
\* a new service starts with an empty memory.
StartRuntime(s) ==
  /\ ~ up[s]
  /\ up' = [up EXCEPT ![s] = TRUE]
  /\ UNCHANGED <<ledgerVars, stopped, jobs, byKey, ready, running, drain, awaited, lastId>>

WithJob(s, rid, job) ==
  jobs' = [jobs EXCEPT ![s] = [r \in DOMAIN @ \cup {rid} |-> IF r = rid THEN job ELSE @[r]]]

WithKey(s, key, rid) ==
  byKey' = [byKey EXCEPT ![s] = [k \in DOMAIN @ \cup {key} |-> IF k = key THEN rid ELSE @[k]]]

\* Mutant: the new job is not registered under its idempotency key.
AcceptUnregistered(s, p) ==
  LET rid == lastId + 1
  IN  /\ WithJob(s, rid, [req |-> p, state |-> "PENDING", gen |-> p.exp, rec |-> None])
      /\ ready' = [ready EXCEPT ![s] = Append(@, rid)]
      /\ lastId' = rid
      /\ UNCHANGED <<ledgerVars, up, stopped, byKey, running, drain, awaited>>

\* Mutant: the pipeline of the new job is scheduled twice.
AcceptTwice(s, p) ==
  LET rid == lastId + 1
  IN  /\ WithJob(s, rid, [req |-> p, state |-> "PENDING", gen |-> p.exp, rec |-> None])
      /\ WithKey(s, p.key, rid)
      /\ ready' = [ready EXCEPT ![s] = @ \o <<rid, rid>>]
      /\ lastId' = rid
      /\ UNCHANGED <<ledgerVars, up, stopped, running, drain, awaited>>

\* A new in-flight job: registered by id and by key, its pipeline scheduled.
AcceptJob(s, p) ==
  LET rid == lastId + 1
  IN  /\ WithJob(s, rid, [req |-> p, state |-> "PENDING", gen |-> p.exp, rec |-> None])
      /\ WithKey(s, p.key, rid)
      /\ ready' = [ready EXCEPT ![s] = Append(@, rid)]
      /\ lastId' = rid
      /\ UNCHANGED <<ledgerVars, up, stopped, running, drain, awaited>>

\* submit_certification; every other reply leaves the state alone.
Submit(s, p) ==
  /\ LoopFree(s)
  /\ lastId < MaxJobs
  /\ \E keyRead, genRead \in {TRUE, ~ Unreadable} :
       SubmitReply(s, p, keyRead, genRead) = Accepted
  /\ AcceptJob(s, p)

\* The loop starts the pipeline at the head of its queue.
RunTask(s) ==
  /\ LoopFree(s)
  /\ ready[s] # << >>
  /\ Head(ready[s]) # Timer
  /\ running' = [running EXCEPT ![s] = Head(ready[s])]
  /\ ready' = [ready EXCEPT ![s] = Tail(@)]
  /\ WithJob(s, Head(ready[s]), [jobs[s][Head(ready[s])] EXCEPT !.state = "RUNNING"])
  /\ UNCHANGED <<ledgerVars, up, stopped, byKey, drain, awaited, lastId>>

\* The pipeline of s ends and leaves its job as it says.
Settle(s, job) ==
  /\ WithJob(s, running[s], job)
  /\ running' = [running EXCEPT ![s] = None]
  /\ UNCHANGED <<up, stopped, byKey, ready, drain, awaited, lastId>>

Unverifiable(job) == [job EXCEPT !.state = "UNVERIFIABLE"]

\* No append_or_replay of s is under way.
BeforeAppend(s) == running[s] # None /\ call[s] = None

\* Mutant: an exception of the pipeline is not caught.
PipelineDies(s) ==
  /\ BeforeAppend(s)
  /\ running' = [running EXCEPT ![s] = None]
  /\ UNCHANGED <<ledgerVars, up, stopped, jobs, byKey, ready, drain, awaited, lastId>>

\* Acquisition finds other commits than expected, or anything before the append
\* raises (acquisition, runner, certify).
PipelineFails(s) ==
  /\ BeforeAppend(s)
  /\ Settle(s, Unverifiable(jobs[s][running[s]]))
  /\ UNCHANGED ledgerVars

\* Acquisition, runner and certify succeed with a disposition: the pipeline
\* calls append_or_replay.
CallAppend(s) ==
  /\ BeforeAppend(s)
  /\ \E disp \in Dispositions :
       L!Invoke(s, AppendRequest(running[s], jobs[s][running[s]], disp))
  /\ UNCHANGED <<memory, lastId>>

\* append_or_replay at work (AbstractLedger).
LedgerStep(s) ==
  /\ running[s] # None
  /\ \/ L!Bind(s)
     \/ L!Acknowledge(s)
     \/ L!Replay(s)
     \/ L!Conflict(s)
     \/ L!Stale(s)
     \/ L!Fail(s)
  /\ UNCHANGED <<memory, lastId>>

\* Mutant: a stale generation is taken for a success.
SettledJobStaleIsFine(job, a, r) ==
  IF a.status \in {"APPENDED", "REPLAYED", "STALE_GENERATION"}
  THEN [job EXCEPT !.state = StateOf(r.rec.disp), !.gen = a.gen, !.rec = r.rec]
  ELSE Unverifiable(job)

\* Mutant: the receipt is kept although the append did not succeed.
SettledJobKeepsReceipt(job, a, r) ==
  IF a.status \in {"APPENDED", "REPLAYED"}
  THEN [job EXCEPT !.state = StateOf(r.rec.disp), !.gen = a.gen, !.rec = r.rec]
  ELSE [Unverifiable(job) EXCEPT !.rec = r.rec]

\* Mutant: the committed generation is not taken from the ledger's answer.
SettledJobKeepsGeneration(job, a, r) ==
  IF a.status \in {"APPENDED", "REPLAYED"}
  THEN [job EXCEPT !.state = StateOf(r.rec.disp), !.rec = r.rec]
  ELSE Unverifiable(job)

\* The job after append_or_replay answered a to the request r (or raised).
SettledJob(job, a, r) ==
  IF a.status \in {"APPENDED", "REPLAYED"}
  THEN [job EXCEPT !.state = StateOf(r.rec.disp), !.gen = a.gen, !.rec = r.rec]
  ELSE Unverifiable(job)

\* The pipeline takes the ledger's answer and ends.
PipelineEnds(s) ==
  /\ running[s] # None
  /\ call[s] # None
  /\ ans[s] \notin {L!Pending, L!Bound}
  /\ Settle(s, SettledJob(jobs[s][running[s]], ans[s], call[s]))
  /\ call' = [call EXCEPT ![s] = None]
  /\ ans' = [ans EXCEPT ![s] = L!Silent]
  /\ UNCHANGED log

-----------------------------------------------------------------------------
(* Shutdown and crash.                                                     *)

Unsettled(s) == {rid \in DOMAIN jobs[s] : jobs[s][rid].state \in {"PENDING", "RUNNING"}}

\* Mutant: drain() does not stop the admission of requests.
DrainStillAdmitting(s) ==
  /\ LoopFree(s)
  /\ drain[s] = "no"
  /\ awaited' = [awaited EXCEPT ![s] = Unsettled(s)]
  /\ drain' = [drain EXCEPT ![s] = IF Unsettled(s) = {} THEN "done" ELSE "waiting"]
  /\ UNCHANGED <<ledgerVars, up, stopped, jobs, byKey, ready, running, lastId>>

\* drain(): stop admission, then wait for the tasks that are not done.
DrainBegins(s) ==
  /\ LoopFree(s)
  /\ drain[s] = "no"
  /\ stopped' = [stopped EXCEPT ![s] = TRUE]
  /\ awaited' = [awaited EXCEPT ![s] = Unsettled(s)]
  /\ drain' = [drain EXCEPT ![s] = IF Unsettled(s) = {} THEN "done" ELSE "waiting"]
  /\ UNCHANGED <<ledgerVars, up, jobs, byKey, ready, running, lastId>>

\* asyncio.wait: its timer expires and queues behind what is ready.
TimerExpires(s) ==
  /\ up[s]
  /\ drain[s] = "waiting"
  /\ \A i \in DOMAIN ready[s] : ready[s][i] # Timer
  /\ ready' = [ready EXCEPT ![s] = Append(@, Timer)]
  /\ UNCHANGED <<ledgerVars, up, stopped, jobs, byKey, running, drain, awaited, lastId>>

\* The entries of the queue q outside S, in their order.
Without(q, S) ==
  LET kept == {i \in DOMAIN q : q[i] \notin S}
  IN  [n \in 1..Cardinality(kept) |->
         q[CHOOSE i \in kept : Cardinality({j \in kept : j <= i}) = n]]

\* Every awaited task is done, or the timer runs and the others are
\* cancelled: a task that is cancelled before it started leaves its job alone.
DrainEnds(s) ==
  /\ LoopFree(s)
  /\ drain[s] = "waiting"
  /\ \/ /\ awaited[s] \cap Unsettled(s) = {}
        /\ ready' = [ready EXCEPT ![s] = Without(@, {Timer})]
     \/ /\ ready[s] # << >>
        /\ Head(ready[s]) = Timer
        /\ ready' = [ready EXCEPT ![s] = Without(Tail(@), awaited[s])]
  /\ drain' = [drain EXCEPT ![s] = "done"]
  /\ UNCHANGED <<ledgerVars, up, stopped, jobs, byKey, running, awaited, lastId>>

\* Mutant: a service that stops and starts again keeps its index of keys.
ForgetJobsOnly(s) ==
  /\ up' = [up EXCEPT ![s] = FALSE]
  /\ stopped' = [stopped EXCEPT ![s] = FALSE]
  /\ jobs' = [jobs EXCEPT ![s] = NoJobs]
  /\ ready' = [ready EXCEPT ![s] = << >>]
  /\ running' = [running EXCEPT ![s] = None]
  /\ drain' = [drain EXCEPT ![s] = "no"]
  /\ awaited' = [awaited EXCEPT ![s] = {}]
  /\ call' = [call EXCEPT ![s] = None]
  /\ ans' = [ans EXCEPT ![s] = L!Silent]
  /\ UNCHANGED <<log, byKey, lastId>>

\* The memory of s is gone.
Forget(s) ==
  /\ up' = [up EXCEPT ![s] = FALSE]
  /\ stopped' = [stopped EXCEPT ![s] = FALSE]
  /\ jobs' = [jobs EXCEPT ![s] = NoJobs]
  /\ byKey' = [byKey EXCEPT ![s] = NoJobs]
  /\ ready' = [ready EXCEPT ![s] = << >>]
  /\ running' = [running EXCEPT ![s] = None]
  /\ drain' = [drain EXCEPT ![s] = "no"]
  /\ awaited' = [awaited EXCEPT ![s] = {}]
  /\ call' = [call EXCEPT ![s] = None]
  /\ ans' = [ans EXCEPT ![s] = L!Silent]
  /\ UNCHANGED <<log, lastId>>

\* stop_runtime closes the site and the runner after drain().
StopRuntime(s) ==
  /\ LoopFree(s)
  /\ drain[s] = "done"
  /\ Forget(s)

Crash(s) ==
  /\ up[s]
  /\ Forget(s)

-----------------------------------------------------------------------------
Work(s) ==
  \/ RunTask(s)
  \/ PipelineFails(s)
  \/ CallAppend(s)
  \/ LedgerStep(s)
  \/ PipelineEnds(s)
  \/ DrainEnds(s)

Next ==
  \E s \in Services :
    \/ StartRuntime(s)
    \/ \E p \in Payloads : Submit(s, p)
    \/ Work(s)
    \/ DrainBegins(s)
    \/ TimerExpires(s)
    \/ StopRuntime(s)
    \/ Crash(s)

Spec == Init /\ [][Next]_vars

\* A running process is scheduled; acquisition, runner and ledger calls return.
FairSpec == Spec /\ \A s \in Services : WF_vars(Work(s))

-----------------------------------------------------------------------------
JobStates == {"PENDING", "RUNNING", "COMPLETED", "FAILED", "UNVERIFIABLE"}

Settled == {"COMPLETED", "FAILED", "UNVERIFIABLE"}

TypeOK ==
  /\ lastId \in 0..MaxJobs
  /\ drain \in [Services -> {"no", "waiting", "done"}]
  /\ \A s \in Services :
       /\ DOMAIN jobs[s] \subseteq RequestIds
       /\ \A rid \in DOMAIN jobs[s] : jobs[s][rid].state \in JobStates
       /\ \A key \in DOMAIN byKey[s] : byKey[s][key] \in DOMAIN jobs[s]
       /\ \A i \in DOMAIN ready[s] : ready[s][i] \in DOMAIN jobs[s] \cup {Timer}
       /\ running[s] # None => running[s] \in DOMAIN jobs[s]

(***************************************************************************)
(* A job is reported COMPLETED or FAILED only when the ledger binds, at    *)
(* the generation it reports, the request the client made: whatever other  *)
(* services commit, and whichever lookups fail.  Nothing is said about the *)
(* receipt and the disposition, which after REPLAYED are the service's own *)
(* and may differ from the stored ones (see ReceiptsAreStored).            *)
(***************************************************************************)
ReportedIsBound ==
  \A s \in Services : \A rid \in DOMAIN jobs[s] :
    jobs[s][rid].state \in {"COMPLETED", "FAILED"} =>
      /\ jobs[s][rid].gen \in DOMAIN log
      /\ log[jobs[s][rid].gen].req = jobs[s][rid].req

(***************************************************************************)
(* A service never has two jobs for one idempotency key, however often a   *)
(* client repeats its request and whether the lookups succeed or not.      *)
(***************************************************************************)
OneJobPerKey ==
  \A s \in Services : \A a, b \in DOMAIN jobs[s] :
    jobs[s][a].req.key = jobs[s][b].req.key => a = b

(***************************************************************************)
(* drain() ends only when every job has a result: its timer never cancels  *)
(* a job, because the jobs are queued ahead of it and none is admitted     *)
(* behind it.                                                              *)
(***************************************************************************)
DrainSettles ==
  \A s \in Services : drain[s] = "done" => Unsettled(s) = {}

(***************************************************************************)
(* The result of a job is final: as long as the service remembers the job, *)
(* its state, generation and receipt do not change again.                  *)
(***************************************************************************)
ResultIsFinal ==
  [][\A s \in Services : \A rid \in DOMAIN jobs[s] :
       jobs[s][rid].state \in Settled /\ rid \in DOMAIN jobs'[s] =>
         jobs'[s][rid] = jobs[s][rid]]_jobs

\* An accepted job gets a result, unless its service dies first.
AcceptedSettles ==
  \A s \in Services : \A rid \in RequestIds :
    rid \in DOMAIN jobs[s] ~> (rid \in DOMAIN jobs[s] => jobs[s][rid].state \in Settled)

(***************************************************************************)
(* "exact replay returns the original run/receipt": the receipt endpoint   *)
(* hands out only receipts that the ledger stores for that request id.     *)
(***************************************************************************)
ReceiptsAreStored ==
  \A s \in Services : \A rid \in RequestIds :
    LoopFree(s) /\ ReceiptReply(s, rid).code = 200 =>
      \E i \in DOMAIN log : log[i].rid = rid /\ log[i].rec = ReceiptReply(s, rid).rec

(***************************************************************************)
(* A request whose result is in the ledger is not executed again, whatever *)
(* crash or unknown effect hid the result from its client: a job that has  *)
(* not yet appended is the only one of its key.                            *)
(***************************************************************************)
NoSecondRun ==
  \A s \in Services : \A rid \in Unsettled(s) : \A i \in DOMAIN log :
    log[i].key = jobs[s][rid].req.key => log[i].rid = rid

(***************************************************************************)
(* What get_status once reports as COMPLETED or FAILED it reports for      *)
(* ever, state, generation and receipt: from the job's memory before, and  *)
(* from the ledger after, a stop or a crash of the service.                *)
(***************************************************************************)
StatusSurvivesRestart ==
  [][\A s \in Services : \A rid \in RequestIds :
       StatusReply(s, rid).state \in {"COMPLETED", "FAILED"} =>
         StatusReply(s, rid)' = StatusReply(s, rid)]_vars
=============================================================================
