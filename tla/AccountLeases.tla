----------------------------- MODULE AccountLeases -----------------------------
(***************************************************************************)
(* The cross-process account pool: CrossProcessLeaseCoordinator and        *)
(* AccountLeaseClaim (nexus/services/agy_account_pool.py) and the          *)
(* dispatchers that use them (scripts/ops/nexus-agy-dispatch).             *)
(*                                                                         *)
(* A dispatcher claims an account: a flock on the account's lock file and  *)
(* a receipt on disk that names the claim.  It runs a provider on the      *)
(* account, and releases it or, when the provider may still be running,    *)
(* exits and leaves the receipt behind.  Three kinds of dispatcher:        *)
(*   - direct: the provider inherits the lock's descriptor, so the flock   *)
(*     lasts as long as anything of the run, unless the dispatcher unlocks *)
(*     it;                                                                 *)
(*   - worker: the provider runs through sudo, which closes the            *)
(*     descriptor; the receipt is marked before the launch, and whoever    *)
(*     meets a marked receipt must prove the run gone;                     *)
(*   - hcom: like direct, but its receipts are removed by an explicit      *)
(*     reconciliation only.                                                *)
(* A dispatcher can lose a run that goes on: a direct or hcom dispatcher   *)
(* that is interrupted before it knows its provider gives the account back *)
(* under it, and the mark of an unclean worker run may not be written.     *)
(*                                                                         *)
(* A dispatcher claims an account at most once (it excludes the accounts   *)
(* it gave back), so the pair of the two stands for lease_id_hash and pid. *)
(* Pids are not reused, and a sweep that reports CLEAN is right, except    *)
(* about what an earlier, unclean sweep of the same run left behind.       *)
(***************************************************************************)
EXTENDS Naturals

CONSTANTS
  Account,
  Dispatcher,   \* dispatcher processes
  Worker,       \* those with --run-as-user
  Hcom,         \* those of the collaboration path
  NoOne         \* no account, no dispatcher

ASSUME AccountLeasesAssumption ==
  /\ Worker \subseteq Dispatcher
  /\ Hcom \subseteq Dispatcher \ Worker
  /\ NoOne \notin Account
  /\ NoOne \notin Dispatcher

VARIABLES
  lock,      \* lock[a]: the claim whose open file holds the flock of a
  owner,     \* owner[a]: the claim the receipt of a names
  receipt,   \* receipt[a]: what is in the receipt file
  usable,    \* usable[a]: neither bad, nor quarantined, nor without quota
  pc,
  cur,       \* cur[d]: the account d has claimed
  excluded,  \* excluded[d]: exclude_hashes
  deferred,  \* deferred[d]: deferred_reaps of the last pass, with their leases
  run        \* run[d][a]: what runs on a for d, or runs on although d has lost it
vars == <<lock, owner, receipt, usable, pc, cur, excluded, deferred, run>>

Phases == {"claiming", "allocating", "reaping", "claimed", "marked", "launched", "running",
           "classify", "ending", "keeping", "dead"}

TypeOK ==
  /\ lock \in [Account -> Dispatcher \cup {NoOne}]
  /\ owner \in [Account -> Dispatcher \cup {NoOne}]
  /\ receipt \in [Account -> {"none", "torn", "plain", "worker", "unclean"}]
  /\ usable \in [Account -> BOOLEAN]
  /\ pc \in [Dispatcher -> Phases]
  /\ cur \in [Dispatcher -> Account \cup {NoOne}]
  /\ excluded \in [Dispatcher -> SUBSET Account]
  /\ deferred \in [Dispatcher -> SUBSET (Account \X Dispatcher)]
  /\ run \in [Dispatcher -> [Account -> {"none", "live", "survivor", "lost"}]]

Init ==
  /\ lock = [a \in Account |-> NoOne]
  /\ owner = [a \in Account |-> NoOne]
  /\ receipt = [a \in Account |-> "none"]
  /\ usable = [a \in Account |-> TRUE]
  /\ pc = [d \in Dispatcher |-> "claiming"]
  /\ cur = [d \in Dispatcher |-> NoOne]
  /\ excluded = [d \in Dispatcher |-> {}]
  /\ deferred = [d \in Dispatcher |-> {}]
  /\ run = [d \in Dispatcher |-> [a \in Account |-> "none"]]

-----------------------------------------------------------------------------
Goto(d, phase) == pc' = [pc EXCEPT ![d] = phase]

\* The provider of d holds a descriptor of the lock file too.
Inherits(d) == d \notin Worker

Readable(a) == receipt[a] \in {"plain", "worker", "unclean"}
HasWorkerFields(a) == receipt[a] \in {"worker", "unclean"}

\* _orphaned_desktop_receipt: a desktop dispatcher's receipt with a dead owner.
Orphaned(a) == Readable(a) /\ owner[a] \notin Hcom /\ pc[owner[a]] = "dead"

Unlinked(a) ==
  /\ owner' = [owner EXCEPT ![a] = NoOne]
  /\ receipt' = [receipt EXCEPT ![a] = "none"]

\* Mutant of RunGone: the unclean mark is not looked at.
RunGoneSwept(a) == run' = [run EXCEPT ![owner[a]][a] = IF @ = "live" THEN "none" ELSE @]

(***************************************************************************)
(* reap_orphaned_worker_run.  The sweep of a run kills what it finds; only *)
(* an idle worker user proves a run gone that ended unclean.               *)
(***************************************************************************)
RunGone(a) ==
  IF receipt[a] = "unclean"
  THEN /\ \A w \in Worker, b \in Account : run[w][b] = "none"
       /\ UNCHANGED run
  ELSE run' = [run EXCEPT ![owner[a]][a] = IF @ = "live" THEN "none" ELSE @]

-----------------------------------------------------------------------------
(***************************************************************************)
(* acquire_claim.  A pass holds the allocation lock; its order of the      *)
(* candidates is left open.                                                *)
(***************************************************************************)
AllocatorFree == \A e \in Dispatcher : pc[e] # "allocating"

Healthy(d) == {a \in Account : usable[a] /\ a \notin excluded[d]}
Candidate(d, a) == a \in Healthy(d) /\ lock[a] = NoOne

\* Mutant of Claim: the worker fields of an orphaned receipt are not looked at.
ClaimMarked(d, a) ==
  /\ pc[d] = "claiming" /\ AllocatorFree
  /\ Candidate(d, a)
  /\ receipt[a] = "none" \/ Orphaned(a)
  /\ lock' = [lock EXCEPT ![a] = d]
  /\ cur' = [cur EXCEPT ![d] = a]
  /\ Unlinked(a)
  /\ Goto(d, "allocating")
  /\ UNCHANGED <<usable, excluded, deferred, run>>

\* The account has no receipt, or one of a dead direct dispatcher, which is removed.
Claim(d, a) ==
  /\ pc[d] = "claiming" /\ AllocatorFree
  /\ Candidate(d, a)
  /\ receipt[a] = "none" \/ (Orphaned(a) /\ ~HasWorkerFields(a))
  /\ lock' = [lock EXCEPT ![a] = d]
  /\ cur' = [cur EXCEPT ![d] = a]
  /\ Unlinked(a)
  /\ Goto(d, "allocating")
  /\ UNCHANGED <<usable, excluded, deferred, run>>

\* The end of the pass: the receipt is on disk and the claim is returned.
WriteReceipt(d) ==
  /\ pc[d] = "allocating"
  /\ owner' = [owner EXCEPT ![cur[d]] = d]
  /\ receipt' = [receipt EXCEPT ![cur[d]] = "plain"]
  /\ Goto(d, "claimed")
  /\ UNCHANGED <<lock, usable, cur, excluded, deferred, run>>

\* Mutant of NothingFree: a worker receipt is kept but never deferred.
NothingFreeOrDeferred(d) ==
  /\ pc[d] = "claiming" /\ AllocatorFree
  /\ Healthy(d) # {}
  /\ \A a \in Account : ~(Candidate(d, a) /\ receipt[a] = "none")
  /\ Goto(d, "reaping")
  /\ UNCHANGED <<lock, owner, receipt, usable, cur, excluded, deferred, run>>

\* A pass without a claim (a removable receipt may have resisted its unlink).
NothingFree(d) ==
  /\ pc[d] = "claiming" /\ AllocatorFree
  /\ Healthy(d) # {}
  /\ \A a \in Account : ~(Candidate(d, a) /\ receipt[a] = "none")
  /\ deferred' = [deferred EXCEPT ![d] =
       {<<a, owner[a]>> : a \in {b \in Account : Candidate(d, b) /\ Orphaned(b) /\ HasWorkerFields(b)}}]
  /\ Goto(d, "reaping")
  /\ UNCHANGED <<lock, owner, receipt, usable, cur, excluded, run>>

\* The lock is free, and the receipt is still the one that was deferred.
StillDeferred(a, o) ==
  lock[a] = NoOne /\ owner[a] = o /\ Orphaned(a) /\ HasWorkerFields(a)

\* _reap_deferred_worker_receipts, one entry: proven and removed, so another pass follows ...
Reap(d, a, o) ==
  /\ pc[d] = "reaping" /\ <<a, o>> \in deferred[d]
  /\ StillDeferred(a, o)
  /\ RunGone(a)
  /\ Unlinked(a)
  /\ deferred' = [deferred EXCEPT ![d] = {}]
  /\ Goto(d, "claiming")
  /\ UNCHANGED <<lock, usable, cur, excluded>>

\* ... or skipped: busy, changed, not proven, or past the deadline.
ReapSkipped(d, a, o) ==
  /\ pc[d] = "reaping" /\ <<a, o>> \in deferred[d]
  /\ deferred' = [deferred EXCEPT ![d] = @ \ {<<a, o>>}]
  /\ UNCHANGED <<lock, owner, receipt, usable, pc, cur, excluded, run>>

\* Sleep, then the next pass.
WaitForAccount(d) ==
  /\ pc[d] = "reaping" /\ deferred[d] = {}
  /\ Goto(d, "claiming")
  /\ UNCHANGED <<lock, owner, receipt, usable, cur, excluded, deferred, run>>

-----------------------------------------------------------------------------
(***************************************************************************)
(* The end of a process closes its descriptors; the flock of a claim lasts *)
(* while the provider holds one of its own.                                *)
(***************************************************************************)
Exited(d) ==
  /\ lock' = [a \in Account |->
       IF lock[a] = d /\ ~(Inherits(d) /\ run[d][a] # "none") THEN NoOne ELSE lock[a]]
  /\ cur' = [cur EXCEPT ![d] = NoOne]
  /\ excluded' = [excluded EXCEPT ![d] = {}]
  /\ deferred' = [deferred EXCEPT ![d] = {}]
  /\ Goto(d, "dead")

\* AGY_ACCOUNT_POOL_BUSY at the deadline, AGY_ACCOUNT_POOL_EXHAUSTED without a healthy account.
GiveUp(d) ==
  /\ \/ pc[d] = "reaping" /\ deferred[d] = {}
     \/ pc[d] = "claiming" /\ AllocatorFree /\ Healthy(d) = {}
  /\ Exited(d)
  /\ UNCHANGED <<owner, receipt, usable, run>>

(***************************************************************************)
(* AccountLeaseClaim.release: the receipt (whose unlink may fail), then    *)
(* the flock, explicitly: every descriptor of the open file loses it.      *)
(***************************************************************************)
ReceiptReleased(a) == Unlinked(a) \/ UNCHANGED <<owner, receipt>>

\* The claim is released and the process ends.
ReleaseAndExit(d) ==
  /\ ReceiptReleased(cur[d])
  /\ lock' = [lock EXCEPT ![cur[d]] = NoOne]
  /\ cur' = [cur EXCEPT ![d] = NoOne]
  /\ excluded' = [excluded EXCEPT ![d] = {}]
  /\ deferred' = [deferred EXCEPT ![d] = {}]
  /\ Goto(d, "dead")
\* Mutant of Failover: the account to exclude is read after the claim is gone.
FailoverForgets(d) ==
  /\ pc[d] \in {"claimed", "classify"}
  /\ \/ usable' = [usable EXCEPT ![cur[d]] = FALSE]
     \/ pc[d] = "classify" /\ UNCHANGED usable
  /\ ReceiptReleased(cur[d])
  /\ lock' = [lock EXCEPT ![cur[d]] = NoOne]
  /\ cur' = [cur EXCEPT ![d] = NoOne]
  /\ excluded' = [excluded EXCEPT ![d] = @ \cup {cur'[d]}]
  /\ Goto(d, "claiming")
  /\ UNCHANGED <<deferred, run>>

(***************************************************************************)
(* The claim is given back and another account is asked for: after an      *)
(* empty output, or with retire_failed_claim and rotate_claim, which mark  *)
(* the account bad, quarantine it or mark its model family unavailable     *)
(* (when that does not persist, the dispatcher ends: Finish).              *)
(***************************************************************************)
Failover(d) ==
  /\ pc[d] \in {"claimed", "classify"}
  /\ \/ usable' = [usable EXCEPT ![cur[d]] = FALSE]
     \/ pc[d] = "classify" /\ UNCHANGED usable
  /\ ReceiptReleased(cur[d])
  /\ lock' = [lock EXCEPT ![cur[d]] = NoOne]
  /\ excluded' = [excluded EXCEPT ![d] = @ \cup {cur[d]}]
  /\ cur' = [cur EXCEPT ![d] = NoOne]
  /\ Goto(d, "claiming")
  /\ UNCHANGED <<deferred, run>>

\* The account comes back: its cooldown is over, or unquarantine_account.
Recover(a) ==
  /\ ~usable[a]
  /\ usable' = [usable EXCEPT ![a] = TRUE]
  /\ UNCHANGED <<lock, owner, receipt, pc, cur, excluded, deferred, run>>

-----------------------------------------------------------------------------
(***************************************************************************)
(* A run.                                                                  *)
(***************************************************************************)
\* mark_worker_run, before anything is launched; when it fails nothing is.
MarkRun(d) ==
  /\ d \in Worker /\ pc[d] = "claimed"
  /\ \/ /\ receipt' = [receipt EXCEPT ![cur[d]] = "worker"]
        /\ Goto(d, "marked")
     \/ /\ UNCHANGED receipt
        /\ Goto(d, "ending")
  /\ UNCHANGED <<lock, owner, usable, cur, excluded, deferred, run>>

\* Mutant of Launch: the worker run is launched before its receipt is marked.
LaunchUnmarked(d) ==
  /\ pc[d] = "claimed"
  /\ \/ /\ run' = [run EXCEPT ![d][cur[d]] = "live"]
        /\ Goto(d, "running")
     \/ /\ UNCHANGED run
        /\ Goto(d, "ending")
  /\ UNCHANGED <<lock, owner, receipt, usable, cur, excluded, deferred>>

\* Popen, which may fail.  A worker boundary counts as launched before it.
Launch(d) ==
  /\ pc[d] = IF d \in Worker THEN "marked" ELSE "claimed"
  /\ \/ /\ run' = [run EXCEPT ![d][cur[d]] = "live"]
        /\ Goto(d, IF d \in Worker THEN "running" ELSE "launched")
     \/ /\ UNCHANGED run
        /\ Goto(d, "ending")
  /\ UNCHANGED <<lock, owner, receipt, usable, cur, excluded, deferred>>

\* The dispatcher knows what it launched: active_provider_pid, or hcom's child.
NoteProvider(d) ==
  /\ pc[d] = "launched" /\ Goto(d, "running")
  /\ UNCHANGED <<lock, owner, receipt, usable, cur, excluded, deferred, run>>

(***************************************************************************)
(* A signal, or a failing after_launch, before that.  Nothing is stopped,  *)
(* and the way out sees no provider: it releases the claim.                *)
(***************************************************************************)
LaunchInterrupted(d) ==
  /\ pc[d] = "launched"
  /\ run' = [run EXCEPT ![d][cur[d]] = IF @ = "live" THEN "lost" ELSE @]
  /\ ReleaseAndExit(d)
  /\ UNCHANGED usable
\* Part of a run ends: the provider, perhaps leaving descendants, or the last of them.
RunEnds(d, a) ==
  /\ run[d][a] # "none"
  /\ \E left \in {"none", "survivor"} :
       /\ left = "survivor" => run[d][a] = "live" /\ Inherits(d)
       /\ run' = [run EXCEPT ![d][a] = left]
       /\ lock' = [lock EXCEPT ![a] =
            IF @ = d /\ left = "none" /\ pc[d] = "dead" THEN NoOne ELSE @]
  /\ UNCHANGED <<owner, receipt, usable, pc, cur, excluded, deferred>>

(***************************************************************************)
(* The runner returns and the sweep is clean: the provider has ended, and  *)
(* so has everything a sweep of a worker run found.                        *)
(***************************************************************************)
AttemptEnds(d) ==
  /\ pc[d] = "running" /\ d \notin Hcom
  /\ IF d \in Worker THEN run' = [run EXCEPT ![d][cur[d]] = "none"]
     ELSE run[d][cur[d]] # "live" /\ UNCHANGED run
  /\ Goto(d, "classify")
  /\ UNCHANGED <<lock, owner, receipt, usable, cur, excluded, deferred>>

(***************************************************************************)
(* The sweep is not clean, or the runner raised.  A worker run is marked   *)
(* unclean, if the mark can be written, and its claim kept; what it leaves *)
(* may hide from later sweeps.                                             *)
(***************************************************************************)
AttemptUnclean(d) ==
  /\ \/ pc[d] = "running" /\ d \notin Hcom
     \/ pc[d] = "ending" /\ d \in Worker /\ HasWorkerFields(cur[d])
  /\ IF d \in Worker
     THEN /\ \E left \in {"survivor", "lost"} :
               /\ run' = [run EXCEPT ![d][cur[d]] = IF @ = "live" THEN left ELSE @]
               /\ receipt' = IF left = "lost" THEN receipt ELSE [receipt EXCEPT ![cur[d]] = "unclean"]
          /\ Goto(d, "keeping")
     ELSE UNCHANGED <<run, receipt>> /\ Goto(d, "ending")
  /\ UNCHANGED <<lock, owner, usable, cur, excluded, deferred>>

(***************************************************************************)
(* The finally of the dispatch, once the provider is known: the claim is   *)
(* released (a failed account is retired first), unless the provider's pid *)
(* or process group is still seen or a worker run is unproven.             *)
(***************************************************************************)
Finish(d) ==
  \/ /\ pc[d] \in {"claimed", "classify", "ending"} /\ d \notin Hcom
     /\ run[d][cur[d]] # "live"
     /\ \/ UNCHANGED usable
        \/ pc[d] = "classify" /\ usable' = [usable EXCEPT ![cur[d]] = FALSE]
     /\ ReleaseAndExit(d)
     /\ UNCHANGED run
  \/ /\ \/ pc[d] \in {"classify", "ending"} /\ run[d][cur[d]] # "none"
        \/ pc[d] = "keeping"
     /\ Exited(d)
     /\ UNCHANGED <<owner, receipt, usable, run>>

\* The collaboration path: released after a clean terminal or without a child, else abandoned.
HcomEnds(d) ==
  /\ d \in Hcom
  /\ \/ /\ pc[d] \in {"claimed", "ending"} \/ (pc[d] = "running" /\ run[d][cur[d]] # "live")
        /\ ReleaseAndExit(d)
        /\ UNCHANGED <<usable, run>>
     \/ /\ pc[d] = "running"
        /\ Exited(d)
        /\ UNCHANGED <<owner, receipt, usable, run>>

-----------------------------------------------------------------------------
\* SIGKILL.  In the middle of a pass the receipt may be left torn.
Die(d) ==
  /\ pc[d] # "dead"
  /\ Exited(d)
  /\ \/ UNCHANGED <<owner, receipt>>
     \/ /\ pc[d] = "allocating"
        /\ owner' = [owner EXCEPT ![cur[d]] = d]
        /\ receipt' = [receipt EXCEPT ![cur[d]] = "torn"]
  /\ UNCHANGED <<usable, run>>

\* reconcile_claim_receipt for the recorded claim of o on a.
Reconcile(a, o) ==
  /\ lock[a] = NoOne /\ Readable(a) /\ owner[a] = o
  /\ IF HasWorkerFields(a) THEN RunGone(a) ELSE UNCHANGED run
  /\ Unlinked(a)
  /\ UNCHANGED <<lock, usable, pc, cur, excluded, deferred>>

Reaps(d) == \E a \in Account, o \in Dispatcher : Reap(d, a, o)
Skips(d) == \E a \in Account, o \in Dispatcher : ReapSkipped(d, a, o)
Claims(d) == \E a \in Account : Claim(d, a)

Next ==
  \/ \E d \in Dispatcher :
       \/ Claims(d) \/ WriteReceipt(d) \/ NothingFree(d)
       \/ Reaps(d) \/ Skips(d) \/ WaitForAccount(d) \/ GiveUp(d)
       \/ Failover(d) \/ MarkRun(d) \/ Launch(d) \/ NoteProvider(d) \/ LaunchInterrupted(d)
       \/ AttemptEnds(d) \/ AttemptUnclean(d) \/ Finish(d) \/ HcomEnds(d)
       \/ Die(d)
       \/ \E a \in Account : RunEnds(d, a) \/ Reconcile(a, d)
  \/ \E a \in Account : Recover(a)

Spec == Init /\ [][Next]_vars

(***************************************************************************)
(* Every process runs on, every provider ends, and neither an unlink nor a *)
(* sweep that could succeed fails every time.                              *)
(***************************************************************************)
Fairness ==
  /\ \A d \in Dispatcher :
       /\ WF_vars(WriteReceipt(d) \/ NothingFree(d) \/ WaitForAccount(d))
       /\ WF_vars(Skips(d))
       /\ SF_vars(Claims(d))
       /\ \A a \in Account :
            /\ WF_vars(RunEnds(d, a))
            /\ SF_vars(\E o \in Dispatcher : Reap(d, a, o))

FairSpec == Spec /\ Fairness
-----------------------------------------------------------------------------
(***************************************************************************)
(* Properties.                                                             *)
(***************************************************************************)
\* The account is in use: by a provider, or by what an unclean worker run left,
\* unless the dispatcher lost it (interrupted in the launch, or not marked).
InUse(d, a) == run[d][a] = "live" \/ (d \in Worker /\ run[d][a] = "survivor")

(***************************************************************************)
(* acquire_claim, "a free lock plus a dead owner PID with a matching       *)
(* identity proves nothing still runs on the account": through crashes,    *)
(* failovers, reaps and reconciliations, no two runs use one account,      *)
(* except beside a run that its dispatcher lost.                           *)
(***************************************************************************)
OneRunPerAccount ==
  \A a \in Account : \A d, e \in Dispatcher : InUse(d, a) /\ InUse(e, a) => d = e

(***************************************************************************)
(* mark_worker_run, "before anything launches": whatever uses an account,  *)
(* and was not lost, is named by the receipt on disk, with the worker      *)
(* fields if a free lock does not prove it gone.                           *)
(***************************************************************************)
EvidenceBeforeEffect ==
  \A a \in Account, d \in Dispatcher :
    InUse(d, a) => owner[a] = d /\ Readable(a) /\ (d \in Worker => HasWorkerFields(a))

(***************************************************************************)
(* _reclaim_orphaned_desktop_receipt and _reap_deferred_worker_receipts:   *)
(* a killed desktop dispatcher does not lock its account for good.  While  *)
(* a dispatcher keeps asking for it, the receipt goes.                     *)
(***************************************************************************)
OrphansComeBack ==
  \A d \in Dispatcher, a \in Account :
    Orphaned(a) /\ pc[d] \in {"claiming", "reaping"} ~>
      \/ ~Orphaned(a)
      \/ ~usable[a] \/ a \in excluded[d]
      \/ pc[d] \notin {"claiming", "reaping"}

(***************************************************************************)
(* nexus-agy-dispatch: "Always marked, even with no survivor identity: the *)
(* marker alone makes the reaper wait for an idle worker account."  What   *)
(* an unclean worker run left keeps its account closed, if the mark could  *)
(* be written.                                                             *)
(***************************************************************************)
UncleanRunKeepsAccount ==
  \A w \in Worker, a \in Account : run[w][a] = "survivor" => owner[a] = w
=============================================================================
