---------------------------- MODULE OperationJournal ----------------------------
(***************************************************************************)
(* The durable journal of one background operation                         *)
(* (nexus/services/direct_operation_journal.py, agy_operation_journal.py)  *)
(* and the processes that write it (scripts/ops/nexus-agy-dispatch): the   *)
(* parent that spawns the wrapper, the wrapper with its heartbeat thread   *)
(* and its provider, and the operators who reconcile, finalize or          *)
(* acknowledge the operation.                                              *)
(*                                                                         *)
(* Every write of the record is atomic: update holds the record's flock.   *)
(* What a writer decides from a record it read earlier is not.             *)
(*                                                                         *)
(* Each attempt claims one account, so claims are numbered by attempt.     *)
(* Runs as another user (the worker sweep) are left out, see AccountLeases.*)
(* A sweep that is made and comes out clean is right; pids are not reused. *)
(***************************************************************************)
EXTENDS Naturals

CONSTANTS
  Operator,      \* processes that run --reconcile, --finalize-no-effect, --ack-unclean-sweep
  MaxAttempts,   \* bound on the attempts of the operation
  EarlyCommands  \* bound: are commands that come before the wrapper's pid is recorded explored?

ASSUME OperationJournalAssumption ==
  /\ MaxAttempts \in Nat \ {0}
  /\ EarlyCommands \in BOOLEAN

Attempt == 1 .. MaxAttempts
Count == 0 .. MaxAttempts

VARIABLES
  rec,       \* operation.json
  bounded,   \* does the run have a write boundary, and so a descendant sweep?
  parent,    \* what _spawn_background_operation has still to do
  wrapper,   \* where the wrapper is
  state,     \* the wrapper's state dictionary
  snapshot,  \* the heartbeat thread's copy of it, before its write
  live,      \* the attempt whose provider runs, or 0
  escaped,   \* attempts with a live descendant outside the provider's group
  receipts,  \* attempts whose account receipt is on disk
  pc,        \* pc[o]: where operator o is
  cmd,       \* cmd[o]: its command
  view,      \* view[o]: the record it works from
  early,     \* history: has a command come before the wrapper's pid was recorded?
  unswept    \* history: was a launched attempt recorded clean without a sweep?

vars == <<rec, bounded, parent, wrapper, state, snapshot, live, escaped, receipts, pc, cmd, view, early, unswept>>
wvars == <<parent, wrapper, state, snapshot>>   \* the parent and the wrapper
world == <<live, escaped, receipts>>   \* processes and files
ovars == <<pc, cmd, view, early>>               \* the operators

TERMINAL_STATES == {"COMPLETED", "FAILED", "OUTCOME_UNKNOWN"}
Truth == {"none", "true", "false"}
Reconciliation == [pid_alive : Truth, provider_alive_after : Truth, retry_permitted : BOOLEAN]
\* ack is one more than the attempt an operator vouched for, or 0.
\* "STARTING" stands for every phase before a provider, "EXECUTING" for every later one.
Record == [status : {"QUEUED", "RUNNING"} \cup TERMINAL_STATES,
           phase : {"STARTING", "EXECUTING", "RECONCILE_REQUIRED", "TERMINAL"},
           pid : BOOLEAN, provider_pid : Count, attempts : Count, lease : Count,
           sweep : {"absent", "pending", "clean", "unclean"}, sweep_attempt : Count,
           ack : 0 .. MaxAttempts + 1, reconciliation : Reconciliation]
State == [phase : {"STARTING", "EXECUTING"}, provider_pid : Count, attempts : Count, lease : Count,
          sweep : {"absent", "pending", "clean", "unclean"}]
NoSnapshot == [phase |-> "none"]

Idle == [phase |-> "STARTING", provider_pid |-> 0, attempts |-> 0, lease |-> 0, sweep |-> "absent"]
Nothing == [pid_alive |-> "none", provider_alive_after |-> "none", retry_permitted |-> FALSE]
\* The record of create.
Created == [status |-> "QUEUED", phase |-> "STARTING", pid |-> FALSE, provider_pid |-> 0,
            attempts |-> 0, lease |-> 0, sweep |-> "absent", sweep_attempt |-> 0, ack |-> 0,
            reconciliation |-> Nothing]

TypeOK ==
  /\ rec \in Record
  /\ bounded \in BOOLEAN
  /\ parent \in {"spawn", "bind", "done"}
  /\ wrapper \in {"unborn", "spawned", "idle", "claimed", "leased", "executing", "marked", "launched",
                  "running", "clean", "unclean", "classify", "returning", "guard", "exiting", "leaving", "dead"}
  /\ state \in State
  /\ snapshot \in State \cup {NoSnapshot}
  /\ live \in Count
  /\ escaped \subseteq Attempt
  /\ receipts \subseteq Attempt
  /\ pc \in [Operator -> {"idle", "read", "probe", "hold", "stillRunning", "superRead", "superProbe",
                          "deadRead", "deadProbe", "active", "survivor", "unknown", "deadActive",
                          "deadSurvivor", "deadUnknown", "stamp", "settle", "stop", "orphan",
                          "terminated", "lease", "safe", "unsafe", "prove", "finalize"}]
  /\ cmd \in [Operator -> {"reconcile", "finalize"}]
  /\ view \in [Operator -> Record]
  /\ early \in BOOLEAN
  /\ unswept \in BOOLEAN
Init ==
  /\ rec = Created
  /\ bounded \in BOOLEAN
  /\ parent = "spawn"
  /\ wrapper = "unborn"
  /\ state = Idle
  /\ snapshot = NoSnapshot
  /\ live = 0
  /\ escaped = {}
  /\ receipts = {}
  /\ pc = [o \in Operator |-> "idle"]
  /\ cmd = [o \in Operator |-> "reconcile"]
  /\ view = [o \in Operator |-> Created]
  /\ early = FALSE
  /\ unswept = FALSE

Alive == wrapper \notin {"unborn", "dead"}

(***************************************************************************)
(* descendant_sweep_unproven: once an attempt has written its marker, only *)
(* a clean verdict of the latest attempt, or the operator's word for it,   *)
(* counts.                                                                 *)
(***************************************************************************)
SweepUnproven(r) ==
  /\ r.sweep # "absent"
  /\ r.ack <= r.attempts
  /\ r.sweep # "clean" \/ r.sweep_attempt < r.attempts

-----------------------------------------------------------------------------
(***************************************************************************)
(* The parent: _spawn_background_operation after create.                   *)
(***************************************************************************)
Spawn ==
  /\ parent = "spawn"
  /\ parent' = "bind" /\ wrapper' = "spawned"
  /\ UNCHANGED <<rec, bounded, unswept, state, snapshot, world, ovars>>

BindPid ==
  /\ parent = "bind"
  /\ parent' = "done"
  /\ rec' = [rec EXCEPT !.pid = TRUE]
  /\ UNCHANGED <<bounded, unswept, wrapper, state, snapshot, world, ovars>>

-----------------------------------------------------------------------------
(***************************************************************************)
(* The wrapper: _run_background_operation and dispatch_run.                *)
(***************************************************************************)
\* What a heartbeat writes of a copy of the state: never the sweep fields.
Beaten(r, s) == [r EXCEPT !.phase = s.phase, !.attempts = s.attempts, !.lease = s.lease,
                          !.provider_pid = s.provider_pid]

Goto(w) == wrapper' = w /\ UNCHANGED parent

\* on_event: the state, then a heartbeat ...
Event(s) == state' = s /\ rec' = Beaten(rec, s)

\* ... after the sweep fields, if the event has any.
SweepEvent(s) ==
  state' = s /\ rec' = Beaten([rec EXCEPT !.sweep = s.sweep, !.sweep_attempt = s.attempts], s)

\* mark_started, with the pid: the parent's bind_pid then changes nothing any more.
Start ==
  /\ wrapper = "spawned"
  /\ wrapper' = "idle" /\ parent' = "done"
  /\ rec' = [rec EXCEPT !.status = "RUNNING", !.phase = "STARTING", !.pid = TRUE]
  /\ UNCHANGED <<bounded, unswept, state, snapshot, world, ovars>>

\* Mutant: one attempt more than the budget.
ClaimUncapped ==
  /\ wrapper = "idle" /\ Goto("claimed")
  /\ receipts' = receipts \cup {state.attempts + 1}
  /\ UNCHANGED <<rec, bounded, unswept, state, snapshot, live, escaped, ovars>>

\* acquire_claim or rotate_claim ...
Claim ==
  /\ wrapper = "idle" /\ state.attempts < MaxAttempts /\ Goto("claimed")
  /\ receipts' = receipts \cup {state.attempts + 1}
  /\ UNCHANGED <<rec, bounded, unswept, state, snapshot, live, escaped, ovars>>

\* ... then ACCOUNT_LEASED for the first account, ACCOUNT_ROTATED for the others.
Leased ==
  /\ wrapper = "claimed" /\ Goto("leased")
  /\ Event([state EXCEPT !.lease = state.attempts + 1])
  /\ UNCHANGED <<bounded, unswept, snapshot, world, ovars>>

Execute ==
  /\ wrapper = "leased" /\ Goto("executing")
  /\ Event([state EXCEPT !.phase = "EXECUTING", !.attempts = @ + 1])
  /\ UNCHANGED <<bounded, unswept, snapshot, world, ovars>>

\* The durable "sweep pending" marker, before the launch.
MarkPending ==
  /\ wrapper = "executing" /\ bounded /\ Goto("marked")
  /\ SweepEvent([state EXCEPT !.sweep = "pending"])
  /\ UNCHANGED <<bounded, unswept, snapshot, world, ovars>>

\* Popen, and for a bounded run after_launch, which arms its sweep.
Launch ==
  /\ wrapper = (IF bounded THEN "marked" ELSE "executing") /\ Goto("launched")
  /\ live' = state.attempts
  /\ UNCHANGED <<rec, bounded, unswept, state, snapshot, escaped, receipts, ovars>>

\* PROVIDER_RUNNING, with the provider's pid, which dispatch_run has not known before.
Noted == [state EXCEPT !.provider_pid = state.attempts]

RecordProvider ==
  /\ wrapper = "launched" /\ Goto("running")
  /\ Event(Noted)
  /\ UNCHANGED <<bounded, unswept, snapshot, world, ovars>>
\* The provider's group is stopped, if it can be, and a bounded run is swept.
\* A survivor raises out of dispatch_run or, if the leader is gone, ends the run.
Stopped ==
  /\ live' \in {0, live}
  /\ escaped' \in {escaped, IF bounded /\ live' = 0 THEN escaped \ {state.attempts} ELSE escaped}

(***************************************************************************)
(* AgyDispatchBoundary.sweep.  Once armed it is clean only if nothing of   *)
(* the attempt is left; before, it answers True without having looked.     *)
(***************************************************************************)
Verdict(armed) ==
  IF ~armed THEN {"clean"}
  ELSE IF live' = 0 /\ state.attempts \notin escaped' THEN {"clean", "unclean"}
  ELSE {"unclean"}

AttemptEnds ==
  /\ wrapper = "running"
  /\ Stopped
  /\ \E end \in IF bounded THEN Verdict(TRUE) ELSE IF live' = 0 THEN {"classify"} ELSE {"guard", "returning"} :
       Goto(end)
  /\ UNCHANGED <<rec, bounded, unswept, state, snapshot, receipts, ovars>>

(***************************************************************************)
(* run_agy raises after the launch and the sweep is not clean: after_launch*)
(* failed, which leaves the sweep without a tracker, or the hook of        *)
(* PROVIDER_RUNNING, after which the provider is stopped.                  *)
(***************************************************************************)
LaunchFails ==
  /\ wrapper = "launched" /\ bounded /\ Goto("unclean")
  /\ \/ UNCHANGED <<state, live, escaped>>
     \/ Stopped /\ state' = Noted
  /\ UNCHANGED <<rec, bounded, unswept, snapshot, receipts, ovars>>

\* Mutant: the claim is given back whatever runs.
ReleasedAlways == receipts' = receipts \ {state.attempts}

\* The finally of dispatch_run: the claim is given back unless a provider is
\* seen, which takes its pid; that of an earlier attempt is dead.
Released ==
  receipts' = IF live' # 0 /\ state'.provider_pid = live' THEN receipts ELSE receipts \ {state.attempts}
\* An unclean run has no further attempt.
RecordVerdict ==
  /\ wrapper \in {"clean", "unclean"}
  /\ SweepEvent([state EXCEPT !.sweep = wrapper])
  /\ UNCHANGED live
  /\ \/ wrapper = "clean" /\ Goto("classify") /\ UNCHANGED receipts
     \/ wrapper = "unclean" /\ Goto("returning") /\ Released
  /\ UNCHANGED <<bounded, unswept, snapshot, escaped, ovars>>

\* Another account, after a failure without an observed effect.
Rotate ==
  /\ wrapper = "classify" /\ Goto("idle")
  /\ UNCHANGED <<live, state>> /\ Released
  /\ UNCHANGED <<rec, bounded, unswept, snapshot, escaped, ovars>>

\* dispatch_run returns, from its end or from one of its early exits.
Return ==
  /\ wrapper \in {"idle", "leased", "classify"} /\ Goto("returning")
  /\ UNCHANGED <<live, rec>>
  /\ receipts' = receipts \ {state.lease}
  /\ UNCHANGED <<bounded, unswept, state, snapshot, escaped, ovars>>

Unresolved(r, after) ==
  [r EXCEPT !.status = "RUNNING", !.phase = "RECONCILE_REQUIRED",
            !.reconciliation = [Nothing EXCEPT !.provider_alive_after = after]]

MarkTerminal(r, status, reconciliation) ==
  [r EXCEPT !.status = status, !.phase = "TERMINAL", !.reconciliation = reconciliation]

\* The end of _run_background_operation, with the fields of its state.
Complete ==
  /\ wrapper = "returning" /\ Goto("exiting")
  /\ LET r == Beaten(rec, state)
         seen == live # 0 /\ state.provider_pid = live
     IN \/ seen /\ rec' = Unresolved(r, "true")
        \/ ~seen /\ state.sweep \notin {"absent", "clean"} /\ rec' = Unresolved(r, "none")
        \/ /\ ~seen /\ state.sweep \in {"absent", "clean"}
           /\ \/ \E status \in {"COMPLETED", "FAILED"} : rec' = MarkTerminal(r, status, Nothing)
              \/ \E after \in {"none", "false"} :
                   rec' = MarkTerminal(r, "OUTCOME_UNKNOWN", [Nothing EXCEPT !.provider_alive_after = after])
  /\ UNCHANGED <<bounded, unswept, state, snapshot, world, ovars>>

\* _record_descendant_sweep: a verdict that cannot be written leaves the marker pending.
SweepRecorded(s, verdicts) ==
  \/ state' = s /\ UNCHANGED rec
  \/ bounded /\ \E verdict \in verdicts : SweepEvent([s EXCEPT !.sweep = verdict])

(***************************************************************************)
(* A signal or an exception.  Before the launch nothing runs, and what is  *)
(* recorded is the answer of a sweep that is not armed.                    *)
(***************************************************************************)
AbortBeforeLaunch ==
  /\ wrapper \in {"idle", "claimed", "leased", "executing", "marked", "classify"} /\ Goto("guard")
  /\ IF wrapper \in {"executing", "marked"} THEN SweepRecorded(state, Verdict(FALSE)) ELSE UNCHANGED <<rec, state>>
  /\ receipts' = {}
  /\ UNCHANGED <<bounded, snapshot, live, escaped, unswept, ovars>>

(***************************************************************************)
(* In the launch window, from Popen to PROVIDER_RUNNING, a signal stops    *)
(* nothing: the sweep may not be armed, and the pid is not known.          *)
(***************************************************************************)
AbortAtLaunch ==
  /\ wrapper = "launched" /\ Goto("guard")
  /\ \/ /\ UNCHANGED <<live, escaped>>
        /\ SweepRecorded(state, Verdict(FALSE))
        /\ unswept' = (unswept \/ state'.sweep = "clean")
     \/ /\ bounded /\ Stopped
        /\ SweepRecorded(state, Verdict(TRUE))
        /\ UNCHANGED unswept
  /\ Released
  /\ UNCHANGED <<bounded, snapshot, ovars>>

\* The attempt is stopped and swept on the way out, whether its pid was just
\* noted or is recorded.
AbortAttempt ==
  /\ wrapper \in {"launched", "running"} /\ Goto("guard")
  /\ Stopped
  /\ SweepRecorded(Noted, Verdict(TRUE))
  /\ Released
  /\ UNCHANGED <<bounded, snapshot, unswept, ovars>>

\* The verdict is known, but perhaps not recorded yet.
AbortSwept ==
  /\ wrapper \in {"clean", "unclean"} /\ Goto("guard")
  /\ SweepRecorded(state, {wrapper})
  /\ UNCHANGED live /\ Released
  /\ UNCHANGED <<bounded, snapshot, escaped, unswept, ovars>>

\* Outside dispatch_run there is no claim.
AbortOutside ==
  /\ wrapper \in {"spawned", "returning", "exiting"} /\ Goto("guard")
  /\ UNCHANGED <<rec, bounded, state, snapshot, world, unswept, ovars>>

Abort == AbortBeforeLaunch \/ AbortAtLaunch \/ AbortAttempt \/ AbortSwept \/ AbortOutside

\* _supervisor_terminal_guard, _terminalize_if_needed.
Guard ==
  /\ wrapper = "guard" /\ Goto("leaving")
  /\ IF rec.phase = "TERMINAL" THEN UNCHANGED <<rec, live>>
     ELSE /\ live' \in {0, live}
          /\ rec' = IF live' # 0 THEN Unresolved(rec, "true")
                    ELSE IF SweepUnproven(rec) THEN Unresolved(rec, "none")
                    ELSE MarkTerminal(rec, IF rec.phase = "STARTING" THEN "FAILED" ELSE "OUTCOME_UNKNOWN",
                                      [Nothing EXCEPT !.provider_alive_after = "false"])
  /\ state' = Idle   \* not used any more
  /\ UNCHANGED <<bounded, unswept, snapshot, escaped, receipts, ovars>>

\* The end of the process, or SIGKILL at any time.
Dies ==
  /\ Alive
  /\ wrapper' = "dead"
  /\ state' = Idle /\ snapshot' = NoSnapshot
  /\ UNCHANGED <<rec, bounded, unswept, parent, world, ovars>>

\* heartbeat_loop: the copy is taken under state_lock, and written after it,
\* which the end of the loop waits for at most two seconds.
BeatCopy ==
  /\ Alive /\ wrapper \notin {"spawned", "guard", "leaving"} /\ snapshot = NoSnapshot
  /\ snapshot' = state
  /\ UNCHANGED <<rec, bounded, unswept, parent, wrapper, state, world, ovars>>

BeatWrite ==
  /\ snapshot # NoSnapshot
  /\ rec' = Beaten(rec, snapshot)
  /\ snapshot' = NoSnapshot
  /\ UNCHANGED <<bounded, unswept, parent, wrapper, state, world, ovars>>

-----------------------------------------------------------------------------
(***************************************************************************)
(* The provider and what it starts.                                        *)
(***************************************************************************)
ProviderEnds ==
  /\ live # 0
  /\ live' = 0
  /\ UNCHANGED <<rec, bounded, unswept, wvars, escaped, receipts, ovars>>

Escape ==
  /\ live # 0
  /\ escaped' = escaped \cup {live}
  /\ UNCHANGED <<rec, bounded, unswept, wvars, live, receipts, ovars>>

EscapedEnds ==
  /\ \E a \in escaped : escaped' = escaped \ {a}
  /\ UNCHANGED <<rec, bounded, unswept, wvars, live, receipts, ovars>>

-----------------------------------------------------------------------------
(***************************************************************************)
(* The operators.                                                          *)
(***************************************************************************)
Step(o, from, to) ==
  /\ pc[o] = from
  /\ pc' = [pc EXCEPT ![o] = to]
  /\ cmd' = IF to = "idle" THEN [cmd EXCEPT ![o] = "reconcile"] ELSE cmd
  /\ UNCHANGED <<bounded, unswept, wvars, early>>

Sees(o, r) == view' = [view EXCEPT ![o] = r]

\* A record that is not used any more is forgotten, all of it or all but its reconciliation.
Forgets(o) == Sees(o, Created)
Keeps(o, reconciliation) == Sees(o, [Created EXCEPT !.reconciliation = reconciliation])

\* update: the record as it is now with some fields replaced, which is returned.
Writes(o, r) == rec' = r /\ Sees(o, r) /\ UNCHANGED world

\* A record without a pid is that of a wrapper not seen yet.
Asks == (EarlyCommands \/ rec.pid) /\ early' = (early \/ ~rec.pid)
Finalized(r) == r.status = "FAILED" /\ r.reconciliation.retry_permitted

Begin(o, command) ==
  /\ pc[o] = "idle" /\ Asks
  /\ command = "finalize" => ~Finalized(rec) /\ ~SweepUnproven(rec)
  /\ pc' = [pc EXCEPT ![o] = "read"]
  /\ cmd' = [cmd EXCEPT ![o] = command]
  /\ UNCHANGED <<rec, bounded, unswept, wvars, world, view>>

(***************************************************************************)
(* _ack_unclean_sweep_operation: the operator attests that nothing of the  *)
(* run is left.  The scans it makes first are no proof of that.            *)
(***************************************************************************)
Ack(o) ==
  /\ pc[o] = "idle" /\ Asks
  /\ SweepUnproven(rec) /\ ~(rec.pid /\ Alive)
  /\ live = 0 \/ live # rec.provider_pid
  /\ rec' = [rec EXCEPT !.ack = rec.attempts + 1]
  /\ pc' = [pc EXCEPT ![o] = "read"]
  /\ cmd' = [cmd EXCEPT ![o] = "reconcile"]
  /\ UNCHANGED <<bounded, unswept, wvars, world, view>>

\* Mutant: an operation that was reconciled once is taken for settled.
ReadReconciled(o) ==
  /\ Step(o, "read", IF \/ rec.status \in TERMINAL_STATES \ {"OUTCOME_UNKNOWN"}
                        \/ rec.phase = "RECONCILE_REQUIRED" THEN "lease" ELSE "probe")
  /\ Sees(o, rec)
  /\ UNCHANGED <<rec, world>>

\* AgyOperationJournal.reconcile reads the record ...
Read(o) ==
  /\ Step(o, "read", IF rec.status \in TERMINAL_STATES \ {"OUTCOME_UNKNOWN"} THEN "lease" ELSE "probe")
  /\ Sees(o, rec)
  /\ UNCHANGED <<rec, world>>

(***************************************************************************)
(* ... and looks at the processes.  A provider that is not recorded is     *)
(* found by the operation's marker on its command line, and recorded.      *)
(***************************************************************************)
WrapperSeen(r) == r.pid /\ Alive

Probe(o) ==
  LET r == view[o]
      unknown == r.status = "OUTCOME_UNKNOWN"
      to == IF WrapperSeen(r) THEN IF unknown THEN "stillRunning" ELSE "superRead"
            ELSE IF SweepUnproven(r) THEN "hold"
            ELSE IF live # 0 THEN "stop"
            ELSE IF unknown THEN "settle" ELSE "deadRead"
  IN /\ Step(o, "probe", to)
     /\ rec' = IF to = "stop" /\ r.provider_pid # live THEN [rec EXCEPT !.provider_pid = live] ELSE rec
     /\ IF to \in {"hold", "settle"} THEN Keeps(o, r.reconciliation) ELSE Forgets(o)
     /\ UNCHANGED world

Hold(o) ==
  /\ Step(o, "hold", "lease")
  /\ Writes(o, [rec EXCEPT !.phase = "RECONCILE_REQUIRED",
                           !.reconciliation = [view[o].reconciliation EXCEPT
                              !.pid_alive = "false", !.provider_alive_after = "none", !.retry_permitted = FALSE]])

Report(pid_alive, after) ==
  [Nothing EXCEPT !.pid_alive = pid_alive, !.provider_alive_after = after]

StillRunning(o) ==
  /\ Step(o, "stillRunning", "lease")
  /\ Writes(o, [rec EXCEPT !.phase = "RECONCILE_REQUIRED", !.reconciliation = Report("true", "true")])

\* An operation whose outcome was unknown already, and nothing of it runs.
Settle(o) ==
  /\ Step(o, "settle", "lease")
  /\ Writes(o, [rec EXCEPT !.phase = "TERMINAL",
                           !.reconciliation = [view[o].reconciliation EXCEPT
                              !.pid_alive = "false", !.provider_alive_after = "false", !.retry_permitted = FALSE]])

\* _stop_operation_processes, and what its outcome is recorded as.
Stop(o) ==
  /\ live' \in {0, live}
  /\ Step(o, "stop", IF live' = 0 THEN "terminated" ELSE "orphan")
  /\ UNCHANGED <<rec, view, escaped, receipts>>

Orphan(o) ==
  /\ Step(o, "orphan", "lease")
  /\ Writes(o, [rec EXCEPT !.phase = "RECONCILE_REQUIRED", !.reconciliation = Report("false", "true")])

Terminated(o) ==
  /\ Step(o, "terminated", "lease")
  /\ Writes(o, MarkTerminal(rec, "OUTCOME_UNKNOWN", Report("false", "false")))

(***************************************************************************)
(* DirectOperationJournal.reconcile, which reads and looks again, and      *)
(* knows a provider only by its recorded pid.  AgyOperationJournal calls   *)
(* it for a live wrapper ("superRead") and, before it stamps the provider  *)
(* gone, for a dead one ("deadRead").                                      *)
(***************************************************************************)
SuperStep(dead) ==
  IF dead
  THEN [read |-> "deadRead", probe |-> "deadProbe", active |-> "deadActive",
        survivor |-> "deadSurvivor", unknown |-> "deadUnknown", done |-> "stamp"]
  ELSE [read |-> "superRead", probe |-> "superProbe", active |-> "active",
        survivor |-> "survivor", unknown |-> "unknown", done |-> "lease"]

SuperRead(o) ==
  /\ \E dead \in BOOLEAN :
       Step(o, SuperStep(dead).read,
            IF rec.status \in TERMINAL_STATES THEN SuperStep(dead).done ELSE SuperStep(dead).probe)
  /\ Sees(o, rec)
  /\ UNCHANGED <<rec, world>>

SuperProbe(o) ==
  /\ \E dead \in BOOLEAN :
       Step(o, SuperStep(dead).probe,
            IF WrapperSeen(view[o]) THEN SuperStep(dead).active
            ELSE IF live # 0 /\ view[o].provider_pid = live THEN SuperStep(dead).survivor
            ELSE SuperStep(dead).unknown)
  /\ Forgets(o)
  /\ UNCHANGED <<rec, world>>

SuperWrite(o) ==
  \E dead \in BOOLEAN :
    LET step == SuperStep(dead)
    IN \/ /\ Step(o, step.active, step.done)
          /\ Writes(o, [rec EXCEPT !.reconciliation = Report("true", "none")])
       \/ /\ Step(o, step.survivor, step.done)
          /\ Writes(o, [rec EXCEPT !.status = "RUNNING", !.phase = "RECONCILE_REQUIRED",
                                   !.reconciliation = Report("false", "true")])
       \/ /\ Step(o, step.unknown, step.done)
          /\ Writes(o, MarkTerminal(rec, "OUTCOME_UNKNOWN", Report("false", "none")))

Stamp(o) ==
  /\ Step(o, "stamp", "lease")
  /\ Writes(o, [rec EXCEPT !.reconciliation = [view[o].reconciliation EXCEPT !.provider_alive_after = "false"]])

(***************************************************************************)
(* _cleanup_reconciled_lease: the receipt of the recorded claim goes when  *)
(* the provider is known to be gone and nobody holds the account's flock.  *)
(* A descendant that escaped may have kept it.                             *)
(***************************************************************************)
CompletedExitProven(r) == r.status = "COMPLETED" /\ r.phase = "TERMINAL" /\ r.provider_pid # 0

Cleanable(r) ==
  /\ r.reconciliation.provider_alive_after = "false" \/ CompletedExitProven(r)
  /\ r.lease # 0 /\ r.pid

Held(k) == Alive \/ live = k

CleanupLease(o) ==
  LET r == view[o]
  IN /\ \/ /\ ~Cleanable(r) \/ (r.lease \in receipts /\ (Held(r.lease) \/ r.lease \in escaped))
           /\ Step(o, "lease", "unsafe")
           /\ UNCHANGED receipts
        \/ /\ Cleanable(r) /\ (r.lease \in receipts => ~Held(r.lease))
           /\ Step(o, "lease", "safe")
           /\ receipts' = receipts \ {r.lease}
     /\ Keeps(o, IF CompletedExitProven(r)
                 THEN [r.reconciliation EXCEPT !.provider_alive_after = "false", !.retry_permitted = FALSE]
                 ELSE r.reconciliation)
     /\ UNCHANGED <<rec, live, escaped>>

\* Mutant: the wrapper's own report that its provider is gone is enough.
NoEffectUnprobed(r) ==
  /\ ~SweepUnproven(r)
  /\ r.status = "OUTCOME_UNKNOWN"
  /\ r.reconciliation.provider_alive_after = "false"

(***************************************************************************)
(* The last write of _reconcile_operation, and the tests                   *)
(* _finalize_no_effect_operation makes of the record it returns.           *)
(***************************************************************************)
NoEffect(r) ==
  /\ ~SweepUnproven(r)
  /\ r.status = "OUTCOME_UNKNOWN"
  /\ r.reconciliation.pid_alive = "false"
  /\ r.reconciliation.provider_alive_after = "false"

ReportCleanup(o) ==
  \E cleanup \in {"safe", "unsafe"} :
    LET r == [rec EXCEPT !.reconciliation = view[o].reconciliation]
        goesOn == cmd[o] = "finalize" /\ NoEffect(r) /\ cleanup = "safe"
    IN /\ Step(o, cleanup, IF goesOn THEN "prove" ELSE "idle")
       /\ rec' = r
       /\ IF goesOn THEN UNCHANGED view ELSE Forgets(o)
       /\ UNCHANGED world

\* prove_source_state_unchanged: the outcome is still unknown and, as it may be, the tree unchanged.
Prove(o) ==
  /\ \/ /\ rec.status = "OUTCOME_UNKNOWN"
        /\ Step(o, "prove", "finalize")
        /\ UNCHANGED view
     \/ Step(o, "prove", "idle") /\ Forgets(o)
  /\ UNCHANGED <<rec, world>>

Finalize(o) ==
  /\ Step(o, "finalize", "idle")
  /\ rec' = MarkTerminal(rec, "FAILED", [view[o].reconciliation EXCEPT !.retry_permitted = TRUE])
  /\ Forgets(o)
  /\ UNCHANGED world

Reconcile(o) == \/ Read(o) \/ Probe(o) \/ Hold(o) \/ StillRunning(o) \/ Settle(o) \/ Stop(o)
                \/ Orphan(o) \/ Terminated(o) \/ SuperRead(o) \/ SuperProbe(o) \/ SuperWrite(o)
                \/ Stamp(o) \/ CleanupLease(o) \/ ReportCleanup(o) \/ Prove(o) \/ Finalize(o)

Next ==
  \/ Spawn \/ BindPid
  \/ Start \/ Claim \/ Leased \/ Execute \/ MarkPending \/ Launch \/ RecordProvider
  \/ AttemptEnds \/ LaunchFails \/ RecordVerdict \/ Rotate \/ Return \/ Complete
  \/ Abort \/ Guard \/ Dies \/ BeatCopy \/ BeatWrite
  \/ ProviderEnds \/ Escape \/ EscapedEnds
  \/ \E o \in Operator : Begin(o, "reconcile") \/ Begin(o, "finalize") \/ Ack(o) \/ Reconcile(o)

Spec == Init /\ [][Next]_vars

(***************************************************************************)
(* Somebody keeps reconciling the operation (the doctor asks for it while  *)
(* it is open), a command runs to its end, and a provider ends: it is      *)
(* started with --print-timeout.                                           *)
(***************************************************************************)
Fairness ==
  /\ WF_vars(ProviderEnds)
  /\ \A o \in Operator : WF_vars(Begin(o, "reconcile")) /\ WF_vars(Reconcile(o))

FairSpec == Spec /\ Fairness

-----------------------------------------------------------------------------
(***************************************************************************)
(* When the journal permits a retry (_finalize_no_effect_operation), the   *)
(* first run is over: its wrapper and its provider are gone and, if its    *)
(* descendants were swept and no operator vouched for them instead,        *)
(* nothing of it is left that could still write to the tree.  Two things   *)
(* the code does not prevent are excepted, by their history: a command     *)
(* that came before the wrapper's pid was recorded, and a sweep that was   *)
(* recorded clean in the launch window without having been made.           *)
(***************************************************************************)
RetryMeansGone ==
  rec.reconciliation.retry_permitted /\ ~early =>
    /\ wrapper = "dead" /\ live = 0
    /\ bounded /\ rec.ack = 0 /\ ~unswept => escaped = {}

(***************************************************************************)
(* An account's receipt is never removed, by the wrapper's release or by   *)
(* an operator's cleanup, while the provider that uses the account runs,   *)
(* except by a wrapper that was interrupted before it had the provider's   *)
(* pid: the finally of dispatch_run then has nothing to look for.          *)
(***************************************************************************)
AccountFreedAfterProvider ==
  [][\A k \in receipts \ receipts' : live' = k => Alive /\ state'.provider_pid # k]_vars

(***************************************************************************)
(* reconcile: a dead wrapper's operation gets a terminal status, whatever  *)
(* died where, unless its descendants are not proven gone.                 *)
(***************************************************************************)
OperationsSettle ==
  (wrapper = "dead" /\ rec.pid) ~> (rec.status \in TERMINAL_STATES \/ SweepUnproven(rec))

(***************************************************************************)
(* Once the wrapper is dead, no step ends the operation while its provider *)
(* survives.                                                               *)
(***************************************************************************)
NoTerminalWhileChildSurvives ==
  [][wrapper = "dead" /\ live # 0 /\ live' # 0 /\ rec.status \notin TERMINAL_STATES
       => rec'.status \notin TERMINAL_STATES]_vars
=============================================================================
