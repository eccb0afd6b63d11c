------------------------- MODULE OperationJournalProofs -------------------------
(***************************************************************************)
(* Proofs about OperationJournal, for every number of operators and of     *)
(* attempts: an account is not freed under a provider that dispatch_run    *)
(* knows, and a permitted retry means that the first run is over.          *)
(***************************************************************************)
EXTENDS OperationJournal, TLAPS

\* No attempt can begin any more, and no provider runs.
Over == wrapper \in {"exiting", "guard", "leaving", "dead"} /\ live = 0

Gone == wrapper = "dead" /\ live = 0

\* A run that was swept, and that nobody vouched for instead, has left nothing behind.
Quiet == bounded /\ rec.ack = 0 /\ ~unswept => escaped = {}

\* The parent, the wrapper and the provider go together.
Flow ==
  /\ parent = "spawn" <=> wrapper = "unborn"
  /\ rec.pid => wrapper # "unborn"
  /\ wrapper \in {"claimed", "leased"} => state.attempts < MaxAttempts
  /\ wrapper \in {"unborn", "spawned", "idle", "claimed", "leased", "executing", "marked", "clean", "classify"}
       => live = 0
  /\ wrapper = "launched" => live \in {0, state.attempts}
  /\ wrapper = "running" => live \in {0, state.attempts} /\ state.provider_pid = state.attempts
  /\ wrapper = "returning" => live \in {0, state.provider_pid} \/ state.sweep = "unclean"

\* Until its verdict is clean, a bounded attempt is marked as pending; only a
\* wrapper interrupted in a launch, on its way out, has a clean verdict without a sweep.
Swept ==
  /\ wrapper \in {"clean", "unclean"} => bounded
  /\ unswept => wrapper \in {"guard", "leaving", "dead"}
  /\ bounded /\ rec.sweep \in {"absent", "clean"} /\ ~unswept => live = 0 /\ escaped = {}
  /\ bounded /\ wrapper \in {"unborn", "spawned", "idle", "claimed", "leased", "executing", "classify"}
       => rec.sweep \in {"absent", "clean"}
  /\ bounded /\ wrapper \in {"marked", "launched", "running"}
       => rec.sweep = "pending" /\ escaped \subseteq {state.attempts}
  /\ bounded /\ wrapper \in {"marked", "clean"} => escaped = {}

\* What a reconciliation says is true.
Truthful(q) ==
  /\ q.pid_alive = "false" => wrapper = "dead"
  /\ q.provider_alive_after = "false" => Over
  /\ q.retry_permitted => q.pid_alive = "false" /\ q.provider_alive_after = "false" /\ Quiet

Honest(r) == Truthful(r.reconciliation) /\ (r.status = "COMPLETED" => Over)

\* What an operator has found out by the time it is at a step.
Ctl(o) ==
  /\ pc[o] # "idle" => rec.pid
  /\ pc[o] \in {"probe", "superProbe", "deadProbe"} => view[o].pid
  /\ pc[o] \in {"hold", "stop", "orphan", "survivor", "unknown"} => wrapper = "dead"
  /\ pc[o] \in {"settle", "terminated", "deadRead", "deadProbe", "deadActive", "deadSurvivor", "deadUnknown", "stamp"}
       => Gone
  /\ pc[o] \in {"prove", "finalize"}
       => /\ view[o].reconciliation.pid_alive = "false"
          /\ view[o].reconciliation.provider_alive_after = "false"
          /\ Quiet
  /\ Honest(view[o])

JInv == TypeOK /\ Flow /\ Swept /\ (~early => Honest(rec) /\ \A o \in Operator : Ctl(o))

-----------------------------------------------------------------------------
(***************************************************************************)
(* Type correctness.                                                       *)
(***************************************************************************)
\* A heartbeat leaves a record.
LEMMA BeatenTyped ==
  ASSUME NEW r \in Record, NEW s \in State
  PROVE  Beaten(r, s) \in Record
  BY DEF Beaten, Record, State

\* So does every end of an operation.
LEMMA EndTyped ==
  ASSUME NEW r \in Record, NEW q \in Reconciliation, NEW status \in TERMINAL_STATES, NEW after \in Truth
  PROVE  MarkTerminal(r, status, q) \in Record /\ Unresolved(r, after) \in Record
  BY DEF MarkTerminal, Unresolved, Record, Nothing, Reconciliation, Truth, TERMINAL_STATES

\* on_event leaves a state and a record.
LEMMA EventTyped ==
  ASSUME TypeOK, NEW s \in State, Event(s) \/ SweepEvent(s)
  PROVE  state' \in State /\ rec' \in Record
<1>1. rec \in Record /\ [rec EXCEPT !.sweep = s.sweep, !.sweep_attempt = s.attempts] \in Record
  BY DEF TypeOK, Record, State
<1>2. QED
  BY <1>1, BeatenTyped DEF Event, SweepEvent

\* So does _record_descendant_sweep.
LEMMA SweepTyped ==
  ASSUME TypeOK, NEW s \in State, NEW V \in SUBSET {"clean", "unclean"}, SweepRecorded(s, V)
  PROVE  state' \in State /\ rec' \in Record
<1>1. \A v \in V : [s EXCEPT !.sweep = v] \in State
  BY DEF State
<1>2. QED
  BY <1>1, EventTyped DEF SweepRecorded, TypeOK

\* The states an attempt ends in, and the verdicts on it.
LEMMA AttemptTyped ==
  ASSUME TypeOK
  PROVE  /\ Noted \in State /\ Noted.sweep = state.sweep /\ Noted.attempts = state.attempts
         /\ Noted.provider_pid = state.attempts
         /\ \A armed \in BOOLEAN : Verdict(armed) \in SUBSET {"clean", "unclean"}
  BY DEF Noted, Verdict, TypeOK, State

\* The initial state has its type.
LEMMA InitTyped == ASSUME Init PROVE TypeOK
<1> USE OperationJournalAssumption
<1>1. Nothing \in Reconciliation
  BY DEF Nothing, Reconciliation, Truth
<1>2. Created \in Record
  BY <1>1 DEF Created, Record, TERMINAL_STATES, Count
<1>3. Idle \in State
  BY DEF Idle, State, Count
<1>4. early \in BOOLEAN /\ unswept \in BOOLEAN
  BY DEF Init
<1>5. /\ rec \in Record /\ bounded \in BOOLEAN /\ state \in State /\ snapshot \in State \cup {NoSnapshot}
      /\ view \in [Operator -> Record]
  BY <1>2, <1>3 DEF Init
<1>6. /\ live \in Count /\ escaped \subseteq Attempt /\ receipts \subseteq Attempt
      /\ cmd \in [Operator -> {"reconcile", "finalize"}]
  BY DEF Init, Count
<1>7. QED
  BY <1>4, <1>5, <1>6 DEF Init, TypeOK

\* The steps of the parent and the wrapper.
WrapperStep ==
  \/ Spawn \/ BindPid \/ Start \/ Claim \/ Leased \/ Execute \/ MarkPending \/ Launch \/ RecordProvider
  \/ AttemptEnds \/ LaunchFails \/ RecordVerdict \/ Rotate \/ Return \/ Complete
  \/ Abort \/ Guard \/ Dies \/ BeatCopy \/ BeatWrite

ProviderStep == ProviderEnds \/ Escape \/ EscapedEnds

OperatorStep(o) == Begin(o, "reconcile") \/ Begin(o, "finalize") \/ Ack(o) \/ Reconcile(o)

\* The wrapper's steps keep the types.
LEMMA WrapperTyped ==
  ASSUME TypeOK, Flow, WrapperStep
  PROVE  TypeOK'
<1> USE OperationJournalAssumption DEF wvars, world, ovars
<1>1. CASE Spawn
  BY <1>1 DEF Spawn, TypeOK
<1>2. CASE BindPid
  BY <1>2 DEF BindPid, TypeOK, Record
<1>3. CASE Start
  BY <1>3 DEF Start, TypeOK, Record
<1>4. CASE Claim
  <2>1. state.attempts \in 0 .. MaxAttempts /\ state.attempts < MaxAttempts
    BY <1>4 DEF Claim, TypeOK, State, Count
  <2>2. state.attempts + 1 \in Attempt
    BY <2>1 DEF Attempt
  <2>3. QED
    BY <1>4, <2>2 DEF Claim, Goto, TypeOK
<1>5. CASE Leased
  <2>1. [state EXCEPT !.lease = state.attempts + 1] \in State
    <3>1. state.attempts \in 0 .. MaxAttempts /\ state.attempts < MaxAttempts
      BY <1>5 DEF Leased, Flow, TypeOK, State, Count
    <3>2. state.attempts + 1 \in Count
      BY <3>1 DEF Count
    <3>3. QED
      BY <3>2 DEF TypeOK, State
  <2>2. QED
    BY <1>5, <2>1, EventTyped DEF Leased, Goto, TypeOK
<1>6. CASE Execute
  <2>1. [state EXCEPT !.phase = "EXECUTING", !.attempts = @ + 1] \in State
    <3>1. state.attempts \in 0 .. MaxAttempts /\ state.attempts < MaxAttempts
      BY <1>6 DEF Execute, Flow, TypeOK, State, Count
    <3>2. state.attempts + 1 \in Count
      BY <3>1 DEF Count
    <3>3. QED
      BY <3>2 DEF TypeOK, State
  <2>2. QED
    BY <1>6, <2>1, EventTyped DEF Execute, Goto, TypeOK
<1>7. CASE MarkPending
  <2>1. [state EXCEPT !.sweep = "pending"] \in State
    BY DEF TypeOK, State
  <2>2. QED
    BY <1>7, <2>1, EventTyped DEF MarkPending, Goto, TypeOK
<1>8. CASE Launch
  BY <1>8 DEF Launch, Goto, TypeOK, State
<1>9. CASE RecordProvider
  BY <1>9, AttemptTyped, EventTyped DEF RecordProvider, Goto, TypeOK
<1>10. CASE AttemptEnds
  BY <1>10 DEF AttemptEnds, Stopped, Verdict, Goto, TypeOK, Count
<1>21. CASE LaunchFails
  BY <1>21, AttemptTyped DEF LaunchFails, Stopped, Goto, TypeOK, Count
<1>11. CASE RecordVerdict
  <2>1. [state EXCEPT !.sweep = wrapper] \in State
    BY <1>11 DEF RecordVerdict, TypeOK, State
  <2>2. QED
    BY <1>11, <2>1, EventTyped DEF RecordVerdict, Released, Goto, TypeOK
<1>12. CASE Rotate
  BY <1>12 DEF Rotate, Released, Goto, TypeOK
<1>13. CASE Return
  BY <1>13 DEF Return, Goto, TypeOK
<1>14. CASE Complete
  <2>1. Beaten(rec, state) \in Record
    BY BeatenTyped DEF TypeOK
  <2>2. \A a \in Truth : [Nothing EXCEPT !.provider_alive_after = a] \in Reconciliation
    BY DEF Nothing, Reconciliation, Truth
  <2>3. Nothing \in Reconciliation
    BY DEF Nothing, Reconciliation, Truth
  <2>4. rec' \in Record
    BY <1>14, <2>1, <2>2, <2>3, EndTyped DEF Complete, Truth, TERMINAL_STATES
  <2>5. QED
    BY <1>14, <2>4 DEF Complete, Goto, TypeOK
<1>15. CASE Abort
  <2>0. state \in State
    BY DEF TypeOK
  <2>1. CASE AbortBeforeLaunch
    <3>1. state' \in State /\ rec' \in Record
      BY <2>0, <2>1, AttemptTyped, SweepTyped DEF AbortBeforeLaunch, TypeOK
    <3>2. QED
      BY <2>1, <3>1 DEF AbortBeforeLaunch, Goto, TypeOK
  <2>2. CASE AbortAtLaunch
    <3>1. state' \in State /\ rec' \in Record
      BY <2>0, <2>2, AttemptTyped, SweepTyped DEF AbortAtLaunch
    <3>2. unswept' \in BOOLEAN
      BY <2>2 DEF AbortAtLaunch, TypeOK
    <3>3. live' \in {0, live} /\ escaped' \subseteq escaped /\ receipts' \subseteq receipts
      BY <2>2 DEF AbortAtLaunch, Stopped, Released
    <3>4. wrapper' = "guard" /\ UNCHANGED <<parent, bounded, snapshot, ovars>>
      BY <2>2 DEF AbortAtLaunch, Goto
    <3>5. QED
      BY <3>1, <3>2, <3>3, <3>4 DEF TypeOK, Count
  <2>3. CASE AbortAttempt
    <3>1. state' \in State /\ rec' \in Record
      BY <2>3, AttemptTyped, SweepTyped DEF AbortAttempt
    <3>2. QED
      BY <2>3, <3>1 DEF AbortAttempt, Stopped, Released, Goto, TypeOK, Count
  <2>4. CASE AbortSwept
    <3>1. {wrapper} \in SUBSET {"clean", "unclean"}
      BY <2>4 DEF AbortSwept
    <3>2. state' \in State /\ rec' \in Record
      BY <2>0, <2>4, <3>1, SweepTyped DEF AbortSwept
    <3>3. QED
      BY <2>4, <3>2 DEF AbortSwept, Released, Goto, TypeOK
  <2>5. CASE AbortOutside
    BY <2>5 DEF AbortOutside, Goto, TypeOK
  <2>6. QED
    BY <1>15, <2>1, <2>2, <2>3, <2>4, <2>5 DEF Abort
<1>16. CASE Guard
  <2>1. \A a \in Truth : [Nothing EXCEPT !.provider_alive_after = a] \in Reconciliation
    BY DEF Nothing, Reconciliation, Truth
  <2>2. rec' \in Record
    BY <1>16, <2>1, EndTyped DEF Guard, Truth, TERMINAL_STATES, TypeOK
  <2>3. Idle \in State
    BY DEF Idle, State, Count
  <2>4. QED
    BY <1>16, <2>2, <2>3 DEF Guard, Goto, TypeOK, Count
<1>17. CASE Dies
  BY <1>17, InitTyped DEF Dies, TypeOK, Idle, State, Count
<1>18. CASE BeatCopy
  BY <1>18 DEF BeatCopy, TypeOK
<1>19. CASE BeatWrite
  BY <1>19, BeatenTyped DEF BeatWrite, TypeOK
<1>20. QED
  BY <1>1, <1>2, <1>3, <1>4, <1>5, <1>6, <1>7, <1>8, <1>9, <1>10, <1>11, <1>12, <1>13, <1>14, <1>15,
     <1>16, <1>17, <1>18, <1>19, <1>21 DEF WrapperStep

\* The provider's steps keep the types.
LEMMA ProviderTyped ==
  ASSUME TypeOK, ProviderStep
  PROVE  TypeOK'
<1> USE OperationJournalAssumption DEF wvars, world, ovars
<1>1. CASE ProviderEnds
  BY <1>1 DEF ProviderEnds, TypeOK, Count
<1>2. CASE Escape
  <2>1. live \in Attempt
    BY <1>2 DEF Escape, TypeOK, Count, Attempt
  <2>2. QED
    BY <1>2, <2>1 DEF Escape, TypeOK
<1>3. CASE EscapedEnds
  BY <1>3 DEF EscapedEnds, TypeOK
<1>4. QED
  BY <1>1, <1>2, <1>3 DEF ProviderStep
\* The reconciliations an operator writes have their type.
LEMMA ReportTyped ==
  /\ \A p, a \in Truth : Report(p, a) \in Reconciliation
  /\ \A q \in Reconciliation, p, a \in Truth, b \in BOOLEAN :
       /\ [q EXCEPT !.pid_alive = p, !.provider_alive_after = a, !.retry_permitted = b] \in Reconciliation
       /\ [q EXCEPT !.provider_alive_after = a] \in Reconciliation
       /\ [q EXCEPT !.provider_alive_after = a, !.retry_permitted = b] \in Reconciliation
       /\ [q EXCEPT !.retry_permitted = b] \in Reconciliation
  BY DEF Report, Nothing, Reconciliation

\* A record with another reconciliation is a record.
LEMMA ReconciledTyped ==
  ASSUME NEW r \in Record, NEW q \in Reconciliation
  PROVE  /\ [r EXCEPT !.reconciliation = q] \in Record
         /\ [r EXCEPT !.phase = "RECONCILE_REQUIRED", !.reconciliation = q] \in Record
         /\ [r EXCEPT !.phase = "TERMINAL", !.reconciliation = q] \in Record
         /\ [r EXCEPT !.status = "RUNNING", !.phase = "RECONCILE_REQUIRED", !.reconciliation = q] \in Record
  BY DEF Record

\* An operator's step leaves its program counter, its command and its view well typed.
LEMMA StepTyped ==
  ASSUME TypeOK, NEW o \in Operator, NEW from,
         NEW to \in {"idle", "read", "probe", "hold", "stillRunning", "superRead", "superProbe",
                     "deadRead", "deadProbe", "active", "survivor", "unknown", "deadActive",
                     "deadSurvivor", "deadUnknown", "stamp", "settle", "stop", "orphan",
                     "terminated", "lease", "safe", "unsafe", "prove", "finalize"},
         Step(o, from, to), NEW r \in Record, Sees(o, r) \/ UNCHANGED view,
         rec' \in Record, live' \in Count, escaped' = escaped, receipts' \subseteq receipts
  PROVE  TypeOK'
  BY DEF Step, Sees, TypeOK, wvars

\* An operator's steps keep the types.
LEMMA OperatorTyped ==
  ASSUME TypeOK, NEW o \in Operator, OperatorStep(o)
  PROVE  TypeOK'
<1> USE OperationJournalAssumption DEF world
<1>1. Created \in Record /\ view[o] \in Record /\ view[o].reconciliation \in Reconciliation /\ rec \in Record
  <2>1. Nothing \in Reconciliation
    BY SMTT(40) DEF Nothing, Reconciliation, Truth
  <2>2. QED
    BY <2>1 DEF Created, TypeOK, Record, TERMINAL_STATES, Count
<1>2. \A q \in Reconciliation : [Created EXCEPT !.reconciliation = q] \in Record
  BY <1>1, ReconciledTyped
<1>3. "none" \in Truth /\ "true" \in Truth /\ "false" \in Truth /\ TRUE \in BOOLEAN /\ FALSE \in BOOLEAN
  BY DEF Truth
<1>4. CASE Begin(o, "reconcile") \/ Begin(o, "finalize")
  <2>1. early' \in BOOLEAN
    BY <1>4 DEF Begin, Asks, TypeOK
  <2>2. /\ UNCHANGED <<rec, bounded, unswept, wvars, world, view>>
        /\ pc' = [pc EXCEPT ![o] = "read"]
        /\ \E command \in {"reconcile", "finalize"} : cmd' = [cmd EXCEPT ![o] = command]
    BY <1>4 DEF Begin
  <2>3. QED
    BY <2>1, <2>2 DEF TypeOK, wvars
<1>5. CASE Ack(o)
  <2>1. rec' \in Record
    BY <1>1, <1>5 DEF Ack, Record, Count
  <2>2. early' \in BOOLEAN
    BY <1>5 DEF Ack, Asks, TypeOK
  <2>3. /\ UNCHANGED <<bounded, unswept, wvars, world, view>>
        /\ pc' = [pc EXCEPT ![o] = "read"] /\ cmd' = [cmd EXCEPT ![o] = "reconcile"]
    BY <1>5 DEF Ack
  <2>4. QED
    BY <2>1, <2>2, <2>3 DEF TypeOK, wvars
<1>6. CASE Read(o)
  BY <1>1, <1>6, StepTyped DEF Read, TypeOK
<1>7. CASE Probe(o)
  <2>1. rec' \in Record
    BY <1>1, <1>7 DEF Probe, Record, TypeOK
  <2>2. QED
    BY <1>1, <1>2, <1>7, <2>1, StepTyped DEF Probe, Keeps, Forgets, TypeOK
<1>8. CASE Hold(o)
  BY <1>1, <1>3, <1>8, StepTyped, ReportTyped, ReconciledTyped, ZenonT(60) DEF Hold, Writes, TypeOK
<1>9. CASE StillRunning(o)
  BY <1>1, <1>3, <1>9, StepTyped, ReportTyped, ReconciledTyped, ZenonT(60) DEF StillRunning, Writes, TypeOK
<1>10. CASE Settle(o)
  BY <1>1, <1>3, <1>10, StepTyped, ReportTyped, ReconciledTyped DEF Settle, Writes, TypeOK
<1>11. CASE Stop(o)
  BY <1>1, <1>11, StepTyped DEF Stop, TypeOK, Count
<1>12. CASE Orphan(o)
  BY <1>1, <1>3, <1>12, StepTyped, ReportTyped, ReconciledTyped, ZenonT(60) DEF Orphan, Writes, TypeOK
<1>13. CASE Terminated(o)
  BY <1>1, <1>3, <1>13, StepTyped, ReportTyped, EndTyped DEF Terminated, Writes, TypeOK, TERMINAL_STATES
<1>14. CASE SuperRead(o)
  BY <1>1, <1>14, StepTyped DEF SuperRead, SuperStep, TypeOK
<1>15. CASE SuperProbe(o)
  BY <1>1, <1>15, StepTyped DEF SuperProbe, SuperStep, Forgets, TypeOK
<1>16. CASE SuperWrite(o)
  <2>1. rec' \in Record
    BY <1>1, <1>3, <1>16, ReportTyped, ReconciledTyped, EndTyped, ZenonT(60) DEF SuperWrite, Writes, TERMINAL_STATES
  <2>2. QED
    BY <1>1, <1>16, <2>1, StepTyped, SMTT(40) DEF SuperWrite, SuperStep, Writes, TypeOK
<1>17. CASE Stamp(o)
  BY <1>1, <1>3, <1>17, StepTyped, ReportTyped, ReconciledTyped DEF Stamp, Writes, TypeOK
<1>18. CASE CleanupLease(o)
  BY <1>1, <1>2, <1>3, <1>18, StepTyped, ReportTyped, ZenonT(60) DEF CleanupLease, Keeps, TypeOK
<1>19. CASE ReportCleanup(o)
  BY <1>1, <1>19, StepTyped, ReconciledTyped DEF ReportCleanup, Forgets, TypeOK
<1>20. CASE Prove(o)
  BY <1>1, <1>20, StepTyped DEF Prove, Forgets, TypeOK
<1>21. CASE Finalize(o)
  BY <1>1, <1>3, <1>21, StepTyped, ReportTyped, EndTyped DEF Finalize, Forgets, TypeOK, TERMINAL_STATES
<1>22. QED
  BY <1>4, <1>5, <1>6, <1>7, <1>8, <1>9, <1>10, <1>11, <1>12, <1>13, <1>14, <1>15, <1>16, <1>17, <1>18,
     <1>19, <1>20, <1>21 DEF OperatorStep, Reconcile

-----------------------------------------------------------------------------
(***************************************************************************)
(* The wrapper and its provider.                                           *)
(***************************************************************************)
\* An event leaves the sweep fields alone or replaces them.
LEMMA EventFacts ==
  ASSUME TypeOK, NEW s \in State, Event(s) \/ SweepEvent(s)
  PROVE  /\ state' = s
         /\ rec'.pid = rec.pid /\ rec'.ack = rec.ack /\ rec'.status = rec.status
         /\ rec'.reconciliation = rec.reconciliation
         /\ Event(s) => rec'.sweep = rec.sweep
         /\ SweepEvent(s) => rec'.sweep = s.sweep
<1>0. rec \in Record
  BY DEF TypeOK
<1>1. CASE Event(s)
  <2>1. rec'.sweep = rec.sweep
    BY <1>0, <1>1 DEF Event, Beaten, Record
  <2>2. SweepEvent(s) => rec'.sweep = s.sweep
    BY <1>0 DEF SweepEvent, Beaten, Record
  <2>3. QED
    BY <1>0, <1>1, <2>1, <2>2 DEF Event, Beaten, Record
<1>2. CASE SweepEvent(s)
  <2>1. rec'.sweep = s.sweep
    BY <1>0, <1>2 DEF SweepEvent, Beaten, Record
  <2>2. Event(s) => rec'.sweep = rec.sweep
    BY <1>0 DEF Event, Beaten, Record
  <2>3. QED
    BY <1>0, <1>2, <2>1, <2>2 DEF SweepEvent, Beaten, Record
<1>3. QED
  BY <1>1, <1>2

\* What the record of a sweep may change.
LEMMA SweepFacts ==
  ASSUME TypeOK, NEW s \in State, NEW V \in SUBSET {"clean", "unclean"}, SweepRecorded(s, V)
  PROVE  /\ rec'.pid = rec.pid /\ rec'.ack = rec.ack /\ rec'.status = rec.status
         /\ rec'.reconciliation = rec.reconciliation
         /\ \/ rec'.sweep = rec.sweep /\ state' = s
            \/ bounded /\ rec'.sweep \in V /\ state'.sweep = rec'.sweep
<1>1. CASE state' = s /\ UNCHANGED rec
  BY <1>1
<1>2. CASE bounded /\ \E v \in V : SweepEvent([s EXCEPT !.sweep = v])
  <2>1. PICK v \in V : SweepEvent([s EXCEPT !.sweep = v])
    BY <1>2
  <2>2. [s EXCEPT !.sweep = v] \in State /\ [s EXCEPT !.sweep = v].sweep = v
    BY DEF State
  <2>3. QED
    BY <1>2, <2>1, <2>2, EventFacts
<1>3. QED
  BY <1>1, <1>2 DEF SweepRecorded

\* What the other writes of the wrapper leave of the record.
LEMMA WriteFacts ==
  ASSUME NEW r \in Record, NEW s \in State, NEW q \in Reconciliation, NEW status, NEW after
  PROVE  /\ Beaten(r, s).pid = r.pid /\ Beaten(r, s).ack = r.ack /\ Beaten(r, s).sweep = r.sweep
         /\ Beaten(r, s).status = r.status /\ Beaten(r, s).reconciliation = r.reconciliation
         /\ MarkTerminal(r, status, q).pid = r.pid /\ MarkTerminal(r, status, q).ack = r.ack
         /\ MarkTerminal(r, status, q).sweep = r.sweep /\ MarkTerminal(r, status, q).status = status
         /\ MarkTerminal(r, status, q).reconciliation = q
         /\ Unresolved(r, after).pid = r.pid /\ Unresolved(r, after).ack = r.ack
         /\ Unresolved(r, after).sweep = r.sweep /\ Unresolved(r, after).status = "RUNNING"
         /\ Unresolved(r, after).reconciliation = [Nothing EXCEPT !.provider_alive_after = after]
  BY DEF Beaten, MarkTerminal, Unresolved, Record

\* What the reconciliations the wrapper writes say.
LEMMA WrapperSays ==
  ASSUME NEW r \in Record, NEW status, NEW after
  PROVE  /\ LET q == Unresolved(r, after).reconciliation
            IN q.pid_alive = "none" /\ ~q.retry_permitted /\ q.provider_alive_after = after
         /\ Unresolved(r, after).status = "RUNNING"
         /\ LET q == MarkTerminal(r, status, [Nothing EXCEPT !.provider_alive_after = after]).reconciliation
            IN q.pid_alive = "none" /\ ~q.retry_permitted /\ q.provider_alive_after = after
         /\ LET q == MarkTerminal(r, status, Nothing).reconciliation
            IN q.pid_alive = "none" /\ ~q.retry_permitted /\ q.provider_alive_after = "none"
         /\ \A q : MarkTerminal(r, status, q).status = status
  BY DEF Unresolved, MarkTerminal, Nothing, Record

\* Complete and Guard change only the status, the phase, the reconciliation and what a heartbeat does.
LEMMA EndFacts ==
  ASSUME TypeOK, Complete \/ Guard
  PROVE  rec'.pid = rec.pid /\ rec'.ack = rec.ack /\ rec'.sweep = rec.sweep
<1>1. \A a \in Truth : [Nothing EXCEPT !.provider_alive_after = a] \in Reconciliation
  BY DEF Nothing, Reconciliation, Truth
<1>2. Nothing \in Reconciliation
  BY DEF Nothing, Reconciliation, Truth
<1>3. rec \in Record /\ Beaten(rec, state) \in Record /\ state \in State
  BY BeatenTyped DEF TypeOK
<1>4. CASE Complete
  BY <1>1, <1>2, <1>3, <1>4, WriteFacts DEF Complete, Truth
<1>5. CASE Guard
  BY <1>1, <1>3, <1>5, WriteFacts DEF Guard, Truth
<1>6. QED
  BY <1>4, <1>5

\* The wrapper's steps keep the order of its life and the state of its sweeps.
LEMMA WrapperFlows ==
  ASSUME TypeOK, Flow, Swept, WrapperStep
  PROVE  Flow' /\ Swept'
<1> USE OperationJournalAssumption DEF wvars, world, ovars, Goto
<1>0. state \in State /\ rec \in Record
  BY DEF TypeOK
<1>1. CASE Spawn
  BY <1>1 DEF Spawn, Flow, Swept
<1>2. CASE BindPid
  BY <1>0, <1>2 DEF BindPid, Flow, Swept, Record
<1>3. CASE Start
  BY <1>0, <1>3 DEF Start, Flow, Swept, Record
<1>4. CASE Claim
  BY <1>4 DEF Claim, Flow, Swept
<1>5. CASE Leased
  <2> DEFINE s == [state EXCEPT !.lease = state.attempts + 1]
  <2>1. s \in State
    <3>1. state.attempts \in 0 .. MaxAttempts /\ state.attempts < MaxAttempts
      BY <1>5 DEF Leased, Flow, TypeOK, State, Count
    <3>2. state.attempts + 1 \in Count
      BY <3>1 DEF Count
    <3>3. QED
      BY <3>2 DEF TypeOK, State
  <2>2. s.sweep = state.sweep /\ s.attempts = state.attempts
    BY <1>0 DEF State
  <2>3. QED
    BY <1>5, <2>1, <2>2, EventFacts DEF Leased, Flow, Swept
<1>6. CASE Execute
  <2> DEFINE s == [state EXCEPT !.phase = "EXECUTING", !.attempts = @ + 1]
  <2>1. s \in State
    <3>1. state.attempts \in 0 .. MaxAttempts /\ state.attempts < MaxAttempts
      BY <1>6 DEF Execute, Flow, TypeOK, State, Count
    <3>2. state.attempts + 1 \in Count
      BY <3>1 DEF Count
    <3>3. QED
      BY <3>2 DEF TypeOK, State
  <2>2. s.sweep = state.sweep
    BY <1>0 DEF State
  <2>3. QED
    BY <1>6, <2>1, <2>2, EventFacts DEF Execute, Flow, Swept
<1>7. CASE MarkPending
  <2> DEFINE s == [state EXCEPT !.sweep = "pending"]
  <2>1. s \in State /\ s.sweep = "pending" /\ s.attempts = state.attempts
    BY <1>0 DEF State
  <2>2. QED
    BY <1>7, <2>1, EventFacts DEF MarkPending, Flow, Swept
<1>8. CASE Launch
  BY <1>8 DEF Launch, Flow, Swept
<1>9. CASE RecordProvider
  BY <1>9, AttemptTyped, EventFacts DEF RecordProvider, Flow, Swept
<1>10. CASE AttemptEnds
  BY <1>10 DEF AttemptEnds, Stopped, Verdict, Flow, Swept
<1>21. CASE LaunchFails
  BY <1>21 DEF LaunchFails, Stopped, Flow, Swept
<1>11. CASE RecordVerdict
  <2> DEFINE s == [state EXCEPT !.sweep = wrapper]
  <2>1. s \in State /\ s.sweep = wrapper /\ s.attempts = state.attempts
    BY <1>0, <1>11 DEF State, RecordVerdict
  <2>2. QED
    BY <1>11, <2>1, EventFacts DEF RecordVerdict, Flow, Swept
<1>12. CASE Rotate
  BY <1>12 DEF Rotate, Flow, Swept
<1>13. CASE Return
  BY <1>13 DEF Return, Flow, Swept
<1>14. CASE Complete
  BY <1>14, EndFacts DEF Complete, Flow, Swept
<1>15. CASE Abort
  <2>1. CASE AbortBeforeLaunch
    <3>1. CASE wrapper \in {"executing", "marked"}
      <4>1. SweepRecorded(state, Verdict(FALSE))
        BY <2>1, <3>1 DEF AbortBeforeLaunch
      <4>2. rec'.pid = rec.pid
        BY <1>0, <4>1, AttemptTyped, SweepFacts
      <4>3. live = 0 /\ (bounded => escaped = {})
        BY <2>1, <3>1 DEF AbortBeforeLaunch, Flow, Swept
      <4>4. QED
        BY <2>1, <4>2, <4>3 DEF AbortBeforeLaunch, Flow, Swept
    <3>2. CASE wrapper \notin {"executing", "marked"}
      BY <2>1, <3>2 DEF AbortBeforeLaunch, Flow, Swept
    <3>3. QED
      BY <3>1, <3>2
  <2>2. CASE AbortAtLaunch
    <3>1. CASE UNCHANGED <<live, escaped>> /\ SweepRecorded(state, Verdict(FALSE))
               /\ unswept' = (unswept \/ state'.sweep = "clean")
      <4>1. /\ rec'.pid = rec.pid
            /\ bounded => rec'.sweep = "pending" \/ unswept'
        BY <1>0, <2>2, <3>1, AttemptTyped, SweepFacts DEF AbortAtLaunch, Verdict, Swept
      <4>2. QED
        BY <2>2, <3>1, <4>1 DEF AbortAtLaunch, Flow, Swept
    <3>2. CASE bounded /\ Stopped /\ SweepRecorded(state, Verdict(TRUE)) /\ UNCHANGED unswept
      <4>1. /\ rec'.pid = rec.pid
            /\ rec'.sweep = "pending" \/ rec'.sweep \in Verdict(TRUE)
        BY <1>0, <2>2, <3>2, AttemptTyped, SweepFacts DEF AbortAtLaunch, Swept
      <4>2. QED
        BY <2>2, <3>2, <4>1 DEF AbortAtLaunch, Stopped, Verdict, Flow, Swept
    <3>3. QED
      BY <2>2, <3>1, <3>2 DEF AbortAtLaunch
  <2>3. CASE AbortAttempt
    <3>1. /\ rec'.pid = rec.pid
          /\ bounded => rec'.sweep = "pending" \/ rec'.sweep \in Verdict(TRUE)
      BY <2>3, AttemptTyped, SweepFacts DEF AbortAttempt, Swept
    <3>2. QED
      BY <2>3, <3>1 DEF AbortAttempt, Stopped, Verdict, Flow, Swept
  <2>4. CASE AbortSwept
    <3>1. {wrapper} \in SUBSET {"clean", "unclean"} /\ SweepRecorded(state, {wrapper})
      BY <2>4 DEF AbortSwept
    <3>2. rec'.pid = rec.pid /\ rec'.sweep \in {rec.sweep, wrapper}
      BY <1>0, <3>1, SweepFacts
    <3>3. QED
      BY <2>4, <3>2 DEF AbortSwept, Flow, Swept
  <2>5. CASE AbortOutside
    BY <2>5 DEF AbortOutside, Flow, Swept
  <2>6. QED
    BY <1>15, <2>1, <2>2, <2>3, <2>4, <2>5 DEF Abort
<1>16. CASE Guard
  BY <1>16, EndFacts DEF Guard, Flow, Swept, TypeOK
<1>17. CASE Dies
  BY <1>17 DEF Dies, Alive, Flow, Swept
<1>18. CASE BeatCopy
  BY <1>18 DEF BeatCopy, Flow, Swept
<1>19. CASE BeatWrite
  <2>1. snapshot \in State
    BY <1>19 DEF BeatWrite, TypeOK
  <2>2. Nothing \in Reconciliation
    BY DEF Nothing, Reconciliation, Truth
  <2>3. rec'.pid = rec.pid /\ rec'.sweep = rec.sweep
    BY <1>0, <1>19, <2>1, <2>2, WriteFacts DEF BeatWrite
  <2>4. QED
    BY <1>19, <2>3 DEF BeatWrite, Flow, Swept
<1>20. QED
  BY <1>1, <1>2, <1>3, <1>4, <1>5, <1>6, <1>7, <1>8, <1>9, <1>10, <1>11, <1>12, <1>13, <1>14, <1>15,
     <1>16, <1>17, <1>18, <1>19, <1>21 DEF WrapperStep

\* The provider's steps keep them too.
LEMMA ProviderFlows ==
  ASSUME TypeOK, Flow, Swept, ProviderStep
  PROVE  Flow' /\ Swept'
<1> USE OperationJournalAssumption DEF wvars, ovars
<1>1. CASE ProviderEnds
  BY <1>1 DEF ProviderEnds, Flow, Swept
<1>2. CASE Escape
  BY <1>2 DEF Escape, Flow, Swept
<1>3. CASE EscapedEnds
  BY <1>3 DEF EscapedEnds, Flow, Swept
<1>4. QED
  BY <1>1, <1>2, <1>3 DEF ProviderStep

\* An operator changes neither the wrapper nor the recorded pid and sweep, and may stop a provider.
LEMMA OperatorFacts ==
  ASSUME TypeOK, NEW o \in Operator, OperatorStep(o)
  PROVE  /\ UNCHANGED <<bounded, unswept, parent, wrapper, state, snapshot, escaped>>
         /\ early => early'
         /\ live' \in {0, live}
         /\ rec'.pid = rec.pid /\ rec'.sweep = rec.sweep
         /\ rec'.ack = rec.ack \/ (rec'.ack # 0 /\ rec'.reconciliation = rec.reconciliation)
<1> USE DEF world, wvars, Writes
<1>0. rec \in Record /\ view[o].reconciliation \in Reconciliation
  BY DEF TypeOK, Record
<1>1. \A r, status, q : r \in Record =>
        /\ MarkTerminal(r, status, q).pid = r.pid /\ MarkTerminal(r, status, q).ack = r.ack
        /\ MarkTerminal(r, status, q).sweep = r.sweep
  BY DEF MarkTerminal, Record
<1>4. CASE Begin(o, "reconcile") \/ Begin(o, "finalize")
  <2>1. early => early'
    BY <1>4 DEF Begin, Asks
  <2>2. UNCHANGED <<rec, bounded, unswept, wvars, world>>
    BY <1>4 DEF Begin
  <2>3. QED
    BY <2>1, <2>2
<1>5. CASE Ack(o)
  <2>1. rec.attempts \in Nat
    BY <1>0, OperationJournalAssumption DEF Record, Count
  <2>2. early => early'
    BY <1>5 DEF Ack, Asks
  <2>3. rec' = [rec EXCEPT !.ack = rec.attempts + 1] /\ UNCHANGED <<bounded, unswept, wvars, world>>
    BY <1>5 DEF Ack
  <2>4. QED
    BY <1>0, <2>1, <2>2, <2>3 DEF Record
<1>6. CASE Read(o) \/ SuperRead(o) \/ SuperProbe(o) \/ CleanupLease(o) \/ Prove(o)
  BY <1>6 DEF Read, SuperRead, SuperProbe, CleanupLease, Prove, Step
<1>7. CASE Probe(o)
  BY <1>0, <1>7 DEF Probe, Step, Record
<1>8. CASE Hold(o) \/ StillRunning(o) \/ Settle(o) \/ Orphan(o) \/ Stamp(o)
  <2>1. rec'.pid = rec.pid /\ rec'.sweep = rec.sweep /\ rec'.ack = rec.ack
    BY <1>0, <1>8 DEF Hold, StillRunning, Settle, Orphan, Stamp, Record
  <2>2. UNCHANGED <<bounded, unswept, early, wvars, world>>
    BY <1>8 DEF Hold, StillRunning, Settle, Orphan, Stamp, Step
  <2>3. QED
    BY <2>1, <2>2
<1>9. CASE Stop(o)
  BY <1>9 DEF Stop, Step
<1>10. CASE Terminated(o)
  BY <1>0, <1>1, <1>10 DEF Terminated, Step
<1>11. CASE SuperWrite(o)
  <2>1. PICK from, to :
          Step(o, from, to) /\ UNCHANGED world
          /\ \/ rec' = [rec EXCEPT !.reconciliation = Report("true", "none")]
             \/ rec' = [rec EXCEPT !.status = "RUNNING", !.phase = "RECONCILE_REQUIRED",
                                  !.reconciliation = Report("false", "true")]
             \/ rec' = MarkTerminal(rec, "OUTCOME_UNKNOWN", Report("false", "none"))
    BY <1>11 DEF SuperWrite
  <2>2. rec'.pid = rec.pid /\ rec'.sweep = rec.sweep /\ rec'.ack = rec.ack
    <3>1. CASE rec' = [rec EXCEPT !.reconciliation = Report("true", "none")]
      BY <1>0, <3>1 DEF Record
    <3>2. CASE rec' = [rec EXCEPT !.status = "RUNNING", !.phase = "RECONCILE_REQUIRED",
                                  !.reconciliation = Report("false", "true")]
      BY <1>0, <3>2 DEF Record
    <3>3. CASE rec' = MarkTerminal(rec, "OUTCOME_UNKNOWN", Report("false", "none"))
      BY <1>0, <1>1, <3>3
    <3>4. QED
      BY <2>1, <3>1, <3>2, <3>3
  <2>3. QED
    BY <2>1, <2>2 DEF Step
<1>12. CASE ReportCleanup(o)
  BY <1>0, <1>12 DEF ReportCleanup, Step, Record
<1>13. CASE Finalize(o)
  BY <1>0, <1>1, <1>13 DEF Finalize, Step
<1>14. QED
  BY <1>4, <1>5, <1>6, <1>7, <1>8, <1>9, <1>10, <1>11, <1>12, <1>13 DEF OperatorStep, Reconcile

\* So do the operators' steps.
LEMMA OperatorFlows ==
  ASSUME TypeOK, Flow, Swept, NEW o \in Operator, OperatorStep(o)
  PROVE  Flow' /\ Swept'
  BY OperatorFacts, OperationJournalAssumption DEF Flow, Swept, TypeOK

-----------------------------------------------------------------------------
(***************************************************************************)
(* What has been found out stays true.                                     *)
(***************************************************************************)
Kept ==
  /\ wrapper = "dead" => wrapper' = "dead"
  /\ Over => Over'
  /\ Gone => Gone'
  /\ Gone /\ Quiet => Quiet'
  /\ rec.pid => rec'.pid

\* What an interrupted wrapper writes.
LEMMA AbortFacts ==
  ASSUME TypeOK, Abort
  PROVE  rec'.pid = rec.pid /\ rec'.ack = rec.ack /\ rec'.status = rec.status
         /\ rec'.reconciliation = rec.reconciliation
<1>0. state \in State
  BY DEF TypeOK
<1>1. CASE AbortBeforeLaunch \/ AbortAtLaunch \/ AbortAttempt
  BY <1>0, <1>1, AttemptTyped, SweepFacts DEF AbortBeforeLaunch, AbortAtLaunch, AbortAttempt
<1>2. CASE AbortSwept
  <2>1. {wrapper} \in SUBSET {"clean", "unclean"} /\ SweepRecorded(state, {wrapper})
    BY <1>2 DEF AbortSwept
  <2>2. QED
    BY <1>0, <2>1, SweepFacts
<1>3. CASE AbortOutside
  BY <1>3 DEF AbortOutside
<1>4. QED
  BY <1>1, <1>2, <1>3 DEF Abort

\* The wrapper's steps keep it.
LEMMA WrapperKeeps ==
  ASSUME TypeOK, Flow, Swept, WrapperStep
  PROVE  Kept /\ rec'.ack = rec.ack /\ bounded' = bounded /\ UNCHANGED ovars
<1> USE OperationJournalAssumption DEF wvars, world, Goto, Over, Gone, Quiet, Kept
<1>0. state \in State /\ rec \in Record /\ Nothing \in Reconciliation
  BY DEF TypeOK, Nothing, Reconciliation, Truth
<1>1. CASE Spawn
  BY <1>1 DEF Spawn, Flow
<1>2. CASE BindPid
  BY <1>0, <1>2 DEF BindPid, Record
<1>3. CASE Start
  BY <1>0, <1>3 DEF Start, Record
<1>4. CASE Claim
  BY <1>4 DEF Claim
<1>5. CASE Leased
  BY <1>0, <1>5 DEF Leased, Event, Beaten, Record
<1>6. CASE Execute
  BY <1>0, <1>6 DEF Execute, Event, Beaten, Record
<1>7. CASE MarkPending
  BY <1>0, <1>7 DEF MarkPending, SweepEvent, Beaten, Record
<1>8. CASE Launch
  BY <1>8 DEF Launch
<1>9. CASE RecordProvider
  BY <1>0, <1>9 DEF RecordProvider, Event, Beaten, Record
<1>10. CASE AttemptEnds
  BY <1>10 DEF AttemptEnds, Stopped
<1>21. CASE LaunchFails
  BY <1>21 DEF LaunchFails
<1>11. CASE RecordVerdict
  BY <1>0, <1>11 DEF RecordVerdict, SweepEvent, Beaten, Record
<1>12. CASE Rotate
  BY <1>12 DEF Rotate
<1>13. CASE Return
  BY <1>13 DEF Return
<1>14. CASE Complete
  BY <1>14, EndFacts DEF Complete
<1>15. CASE Abort
  <2>1. rec'.pid = rec.pid /\ rec'.ack = rec.ack
    BY <1>15, AbortFacts
  <2>2. QED
    BY <1>15, <2>1 DEF Abort, AbortBeforeLaunch, AbortAtLaunch, AbortAttempt, AbortSwept, AbortOutside, Stopped
<1>16. CASE Guard
  BY <1>16, EndFacts DEF Guard
<1>17. CASE Dies
  BY <1>17 DEF Dies, Alive
<1>18. CASE BeatCopy
  BY <1>18 DEF BeatCopy
<1>19. CASE BeatWrite
  BY <1>0, <1>19 DEF BeatWrite, Beaten, Record
<1>20. QED
  BY <1>1, <1>2, <1>3, <1>4, <1>5, <1>6, <1>7, <1>8, <1>9, <1>10, <1>11, <1>12, <1>13, <1>14, <1>15,
     <1>16, <1>17, <1>18, <1>19, <1>21 DEF WrapperStep

\* So do the provider's and the operators'.
LEMMA OthersKeep ==
  ASSUME TypeOK, ProviderStep \/ \E o \in Operator : OperatorStep(o)
  PROVE  Kept
<1>1. CASE ProviderStep
  BY <1>1 DEF ProviderStep, ProviderEnds, Escape, EscapedEnds, wvars, Kept, Over, Gone, Quiet
<1>2. CASE \E o \in Operator : OperatorStep(o)
  BY <1>2, OperatorFacts DEF Kept, Over, Gone, Quiet, TypeOK
<1>3. QED
  BY <1>1, <1>2

-----------------------------------------------------------------------------
(***************************************************************************)
(* The record and the operators' views of it are honest.                   *)
(***************************************************************************)
\* A view that nobody touches stays honest.
LEMMA CtlKept ==
  ASSUME TypeOK, Kept, NEW o \in Operator, Ctl(o), pc'[o] = pc[o], view'[o] = view[o]
  PROVE  Ctl(o)'
<1>1. Honest(view[o])'
  BY DEF Honest, Truthful, Kept, Ctl, Over, Gone
<1>2. pc[o] \in {"prove", "finalize"} => Quiet'
  BY DEF Honest, Truthful, Kept, Ctl, Over, Gone
<1>3. QED
  BY <1>1, <1>2 DEF Ctl, Kept

\* The wrapper writes what is true.
LEMMA WrapperHonest ==
  ASSUME TypeOK, Flow, Swept, Honest(rec), WrapperStep
  PROVE  Honest(rec)'
<1> USE DEF Goto
<1>0. state \in State /\ rec \in Record /\ Beaten(rec, state) \in Record /\ Kept
  BY WrapperKeeps, BeatenTyped DEF TypeOK
<1>1. CASE rec'.reconciliation = rec.reconciliation /\ rec'.status \in {rec.status, "RUNNING"}
  BY <1>0, <1>1 DEF Honest, Truthful, Kept, Over, Gone
<1>2. CASE Complete
  <2>3. rec'.reconciliation.pid_alive = "none" /\ ~rec'.reconciliation.retry_permitted
    <3>1. CASE \E after : rec' = Unresolved(Beaten(rec, state), after)
      BY <1>0, <3>1 DEF Unresolved, Nothing, Record
    <3>2. CASE \E status : rec' = MarkTerminal(Beaten(rec, state), status, Nothing)
      BY <1>0, <3>2 DEF MarkTerminal, Nothing, Record
    <3>3. CASE \E status, after :
                 rec' = MarkTerminal(Beaten(rec, state), status, [Nothing EXCEPT !.provider_alive_after = after])
      BY <1>0, <3>3, WrapperSays
    <3>4. QED
      BY <1>2, <3>1, <3>2, <3>3 DEF Complete
  <2>4. CASE live = 0
    BY <1>2, <2>3, <2>4 DEF Complete, Honest, Truthful, Over, world
  <2>5. CASE live # 0
    <3>1. PICK after \in {"true", "none"} : rec' = Unresolved(Beaten(rec, state), after)
      BY <1>2, <2>5 DEF Complete, Flow
    <3>2. rec'.status = "RUNNING" /\ rec'.reconciliation.provider_alive_after \in {"true", "none"}
      BY <1>0, <3>1, WrapperSays, ZenonT(60)
    <3>3. QED
      BY <2>3, <3>2 DEF Honest, Truthful
  <2>6. QED
    BY <2>4, <2>5
<1>3. CASE Guard /\ ~UNCHANGED rec
  <2>1. \/ live' # 0 /\ rec' = Unresolved(rec, "true")
        \/ rec' = Unresolved(rec, "none")
        \/ live' = 0 /\ \E status \in {"FAILED", "OUTCOME_UNKNOWN"} :
             rec' = MarkTerminal(rec, status, [Nothing EXCEPT !.provider_alive_after = "false"])
    BY <1>3 DEF Guard
  <2>2. /\ rec'.reconciliation.pid_alive = "none" /\ ~rec'.reconciliation.retry_permitted
        /\ rec'.status # "COMPLETED"
        /\ rec'.reconciliation.provider_alive_after = "false" => live' = 0
    <3>1. CASE \E after \in {"true", "none"} : rec' = Unresolved(rec, after)
      <4>1. PICK after \in {"true", "none"} : rec' = Unresolved(rec, after)
        BY <3>1
      <4>2. rec'.status = "RUNNING" /\ rec'.reconciliation = [Nothing EXCEPT !.provider_alive_after = after]
        BY <1>0, <4>1 DEF Unresolved, Record
      <4>3. QED
        BY <4>2 DEF Nothing
    <3>2. CASE live' = 0 /\ \E status \in {"FAILED", "OUTCOME_UNKNOWN"} :
                 rec' = MarkTerminal(rec, status, [Nothing EXCEPT !.provider_alive_after = "false"])
      BY <1>0, <3>2 DEF MarkTerminal, Nothing, Record
    <3>3. QED
      BY <2>1, <3>1, <3>2
  <2>3. QED
    BY <1>3, <2>2 DEF Guard, Honest, Truthful, Over
<1>4. CASE ~Complete /\ ~(Guard /\ ~UNCHANGED rec)
  <2>1. rec'.reconciliation = rec.reconciliation /\ rec'.status \in {rec.status, "RUNNING"}
    <3>1. CASE UNCHANGED rec
      BY <3>1
    <3>2. CASE BindPid \/ Start \/ BeatWrite
      BY <1>0, <3>2 DEF BindPid, Start, BeatWrite, Beaten, Record
    <3>3. CASE \E s : Event(s) \/ SweepEvent(s)
      BY <1>0, <3>3 DEF Event, SweepEvent, Beaten, Record
    <3>5. CASE Abort
      BY <3>5, AbortFacts
    <3>4. QED
      BY <1>4, <3>1, <3>2, <3>3, <3>5 DEF WrapperStep, Spawn, Claim, Leased, Execute, MarkPending, Launch,
         RecordProvider, AttemptEnds, LaunchFails, RecordVerdict, Rotate, Return, Dies, BeatCopy
  <2>2. QED
    BY <1>1, <2>1
<1>5. QED
  BY <1>2, <1>3, <1>4

\* What an operator writes, and learns, is true.
LEMMA OperatorHonest ==
  ASSUME JInv, ~early, ~early', NEW o \in Operator, OperatorStep(o)
  PROVE  Honest(rec)' /\ Ctl(o)'
<1> USE DEF Writes
<1>0. /\ TypeOK /\ Flow /\ Swept /\ Honest(rec) /\ Ctl(o) /\ Kept
      /\ rec \in Record /\ view[o] \in Record /\ view[o].reconciliation \in Reconciliation
  BY OthersKeep DEF JInv, TypeOK, Record
<1>1. \A q : q \in Reconciliation => [Created EXCEPT !.reconciliation = q].reconciliation = q
                                  /\ [Created EXCEPT !.reconciliation = q].status = "QUEUED"
  BY DEF Created
<1>2. /\ \A p, a : Report(p, a).pid_alive = p /\ Report(p, a).provider_alive_after = a
                  /\ ~Report(p, a).retry_permitted
      /\ Created.reconciliation.pid_alive = "none" /\ Created.reconciliation.provider_alive_after = "none"
      /\ ~Created.reconciliation.retry_permitted /\ Created.status = "QUEUED"
  BY DEF Report, Nothing, Created
<1>3. \A from, to : Step(o, from, to) => pc[o] = from /\ pc'[o] = to
  BY <1>0 DEF Step, TypeOK
<1>4. \A r : Sees(o, r) => view'[o] = r
  BY <1>0 DEF Sees, TypeOK
<1>5. CASE Begin(o, "reconcile") \/ Begin(o, "finalize") \/ Ack(o)
  <2>1. pc'[o] = "read" /\ view'[o] = view[o] /\ rec.pid /\ rec'.reconciliation = rec.reconciliation
        /\ rec'.status = rec.status
    BY <1>0, <1>5 DEF Begin, Ack, Asks, TypeOK, Record
  <2>2. QED
    BY <1>0, <2>1 DEF Ctl, Honest, Truthful, Kept, Over, Gone
<1>6. CASE Read(o)
  <2>1. view'[o] = rec /\ rec' = rec /\ pc'[o] \in {"lease", "probe"} /\ rec.pid
    BY <1>0, <1>3, <1>4, <1>6 DEF Read, Ctl
  <2>2. QED
    BY <1>0, <2>1 DEF Ctl, Honest, Truthful, Kept, Over, Gone
<1>7. CASE Probe(o)
  <2>1. wrapper = "dead" \/ WrapperSeen(view[o])
    <3>1. pc[o] = "probe"
      BY <1>3, <1>7 DEF Probe
    <3>2. QED
      BY <1>0, <3>1 DEF Ctl, WrapperSeen, Alive, Flow
  <2>2. /\ pc'[o] \in {"stillRunning", "superRead", "hold", "stop", "settle", "deadRead"}
        /\ pc'[o] \in {"hold", "stop"} => wrapper = "dead"
        /\ pc'[o] \in {"settle", "deadRead"} => Gone
    BY <1>3, <1>7, <2>1 DEF Probe, Gone
  <2>3. rec'.reconciliation = rec.reconciliation /\ rec'.status = rec.status /\ rec.pid
    BY <1>0, <1>3, <1>7 DEF Probe, Record, Ctl
  <2>4. view'[o].status = "QUEUED" /\ view'[o].reconciliation \in {view[o].reconciliation, Created.reconciliation}
    <3>1. Keeps(o, view[o].reconciliation) \/ Forgets(o)
      BY <1>7 DEF Probe
    <3>2. CASE Keeps(o, view[o].reconciliation)
      BY <1>0, <3>2 DEF Keeps, Sees, Created, TypeOK
    <3>3. CASE Forgets(o)
      BY <1>0, <1>2, <3>3 DEF Forgets, Sees, TypeOK
    <3>4. QED
      BY <3>1, <3>2, <3>3
  <2>5. QED
    BY <1>0, <1>2, <2>2, <2>3, <2>4 DEF Ctl, Honest, Truthful, Kept, Over, Gone
<1>8. CASE Hold(o) \/ StillRunning(o) \/ Orphan(o)
  <2>1. pc[o] \in {"hold", "stillRunning", "orphan"} /\ pc'[o] = "lease" /\ view'[o] = rec'
    BY <1>3, <1>4, <1>8 DEF Hold, StillRunning, Orphan
  <2>2. /\ rec'.status = rec.status
        /\ rec'.reconciliation.provider_alive_after # "false" /\ ~rec'.reconciliation.retry_permitted
        /\ rec'.reconciliation.pid_alive = "false" => pc[o] \in {"hold", "orphan"}
    <3>1. CASE Hold(o)
      BY <1>0, <1>3, <3>1 DEF Hold, Record, Reconciliation
    <3>2. CASE StillRunning(o)
      BY <1>0, <1>2, <1>3, <3>2 DEF StillRunning, Record
    <3>3. CASE Orphan(o)
      BY <1>0, <1>2, <1>3, <3>3 DEF Orphan, Record
    <3>4. QED
      BY <1>8, <3>1, <3>2, <3>3
  <2>3. QED
    BY <1>0, <2>1, <2>2 DEF Ctl, Honest, Truthful, Kept, Over, Gone
<1>9. CASE Settle(o) \/ Terminated(o)
  <2>1. pc[o] \in {"settle", "terminated"} /\ pc'[o] = "lease" /\ view'[o] = rec'
    BY <1>3, <1>4, <1>9 DEF Settle, Terminated
  <2>2. rec'.status \in {rec.status, "OUTCOME_UNKNOWN"} /\ ~rec'.reconciliation.retry_permitted
    <3>1. CASE Settle(o)
      BY <1>0, <3>1 DEF Settle, Record, Reconciliation
    <3>2. CASE Terminated(o)
      BY <1>0, <1>2, <3>2 DEF Terminated, MarkTerminal, Record
    <3>3. QED
      BY <1>9, <3>1, <3>2
  <2>3. Gone /\ rec.pid
    BY <1>0, <2>1 DEF Ctl
  <2>4. Gone' /\ Over' /\ rec'.pid
    BY <1>0, <2>3 DEF Kept, Over, Gone
  <2>5. QED
    BY <2>1, <2>2, <2>4 DEF Ctl, Honest, Truthful, Gone
<1>10. CASE Stop(o)
  <2>1. pc[o] = "stop" /\ pc'[o] \in {"terminated", "orphan"} /\ (pc'[o] = "terminated" => live' = 0)
        /\ view' = view /\ rec' = rec /\ wrapper' = wrapper
    BY <1>3, <1>10 DEF Stop, Step, wvars
  <2>2. QED
    BY <1>0, <2>1 DEF Ctl, Honest, Truthful, Kept, Over, Gone
<1>11. CASE SuperRead(o)
  <2>1. /\ view'[o] = rec /\ rec' = rec /\ pc[o] \in {"superRead", "deadRead"} /\ rec.pid
        /\ pc'[o] \in {"lease", "superProbe", "stamp", "deadProbe"}
        /\ pc'[o] \in {"stamp", "deadProbe"} => pc[o] = "deadRead"
    BY <1>0, <1>3, <1>4, <1>11 DEF SuperRead, SuperStep, Ctl
  <2>2. QED
    BY <1>0, <2>1 DEF Ctl, Honest, Truthful, Kept, Over, Gone
<1>12. CASE SuperProbe(o)
  <2>1. /\ view'[o] = Created /\ rec' = rec /\ pc[o] \in {"superProbe", "deadProbe"}
        /\ pc'[o] \in {"active", "survivor", "unknown", "deadActive", "deadSurvivor", "deadUnknown"}
        /\ pc'[o] \in {"deadActive", "deadSurvivor", "deadUnknown"} => pc[o] = "deadProbe"
        /\ pc'[o] \in {"survivor", "unknown"} => ~WrapperSeen(view[o])
    BY <1>3, <1>4, <1>12 DEF SuperProbe, SuperStep, Forgets
  <2>2. pc'[o] \in {"survivor", "unknown"} => wrapper = "dead"
    BY <1>0, <2>1 DEF Ctl, WrapperSeen, Alive, Flow
  <2>3. QED
    BY <1>0, <1>2, <2>1, <2>2 DEF Ctl, Honest, Truthful, Kept, Over, Gone
<1>13. CASE SuperWrite(o)
  <2>1. /\ view'[o] = rec' /\ pc'[o] \in {"lease", "stamp"}
        /\ pc[o] \in {"active", "survivor", "unknown", "deadActive", "deadSurvivor", "deadUnknown"}
        /\ pc'[o] = "stamp" => pc[o] \in {"deadActive", "deadSurvivor", "deadUnknown"}
    BY <1>3, <1>4, <1>13 DEF SuperWrite, SuperStep
  <2>2. /\ rec'.status \in {rec.status, "RUNNING", "OUTCOME_UNKNOWN"}
        /\ rec'.reconciliation.provider_alive_after # "false" /\ ~rec'.reconciliation.retry_permitted
        /\ rec'.reconciliation.pid_alive = "false" => pc[o] \notin {"active", "deadActive"}
    <3>1. PICK dead \in BOOLEAN :
            \/ /\ pc[o] = SuperStep(dead).active
               /\ rec' = [rec EXCEPT !.reconciliation = Report("true", "none")]
            \/ /\ pc[o] = SuperStep(dead).survivor
               /\ rec' = [rec EXCEPT !.status = "RUNNING", !.phase = "RECONCILE_REQUIRED",
                                    !.reconciliation = Report("false", "true")]
            \/ /\ pc[o] = SuperStep(dead).unknown
               /\ rec' = MarkTerminal(rec, "OUTCOME_UNKNOWN", Report("false", "none"))
      BY <1>3, <1>13 DEF SuperWrite
    <3>2. CASE pc[o] = SuperStep(dead).active /\ rec' = [rec EXCEPT !.reconciliation = Report("true", "none")]
      BY <1>0, <1>2, <3>2 DEF Record
    <3>3. CASE pc[o] = SuperStep(dead).survivor
               /\ rec' = [rec EXCEPT !.status = "RUNNING", !.phase = "RECONCILE_REQUIRED",
                                    !.reconciliation = Report("false", "true")]
      BY <1>0, <1>2, <3>3 DEF Record, SuperStep
    <3>4. CASE pc[o] = SuperStep(dead).unknown
               /\ rec' = MarkTerminal(rec, "OUTCOME_UNKNOWN", Report("false", "none"))
      <4>1. pc[o] \in {"unknown", "deadUnknown"}
        BY <3>4 DEF SuperStep
      <4>2. rec'.status = "OUTCOME_UNKNOWN" /\ rec'.reconciliation = Report("false", "none")
        BY <1>0, <3>4 DEF MarkTerminal, Record
      <4>3. QED
        BY <1>2, <4>1, <4>2
    <3>5. QED
      BY <3>1, <3>2, <3>3, <3>4
  <2>3. rec.pid
    BY <1>0, <2>1 DEF Ctl
  <2>4. QED
    BY <1>0, <2>1, <2>2, <2>3 DEF Ctl, Honest, Truthful, Kept, Over, Gone
<1>14. CASE Stamp(o)
  <2>1. pc[o] = "stamp" /\ pc'[o] = "lease" /\ view'[o] = rec'
    BY <1>3, <1>4, <1>14 DEF Stamp
  <2>2. /\ rec'.status = rec.status
        /\ rec'.reconciliation.pid_alive = view[o].reconciliation.pid_alive
        /\ rec'.reconciliation.retry_permitted = view[o].reconciliation.retry_permitted
        /\ rec'.reconciliation.provider_alive_after = "false"
    BY <1>0, <1>14 DEF Stamp, Record, Reconciliation
  <2>3. Gone /\ rec.pid
    BY <1>0, <2>1 DEF Ctl
  <2>4. Gone' /\ Over' /\ rec'.pid /\ (Quiet => Quiet')
    BY <1>0, <2>3 DEF Kept, Over, Gone
  <2>5. QED
    BY <1>0, <2>1, <2>2, <2>4 DEF Ctl, Honest, Truthful, Gone
<1>15. CASE CleanupLease(o)
  <2>1. pc[o] = "lease" /\ pc'[o] \in {"safe", "unsafe"} /\ rec' = rec /\ rec.pid
    BY <1>0, <1>3, <1>15 DEF CleanupLease, Ctl
  <2>2. /\ view'[o].status = "QUEUED"
        /\ \/ view'[o].reconciliation = view[o].reconciliation
           \/ /\ view'[o].reconciliation = [view[o].reconciliation EXCEPT !.provider_alive_after = "false",
                                                                          !.retry_permitted = FALSE]
              /\ view[o].status = "COMPLETED"
    <3>1. [view[o].reconciliation EXCEPT !.provider_alive_after = "false", !.retry_permitted = FALSE]
            \in Reconciliation
      BY <1>0, ReportTyped DEF Truth
    <3>2. \/ Keeps(o, view[o].reconciliation)
          \/ /\ Keeps(o, [view[o].reconciliation EXCEPT !.provider_alive_after = "false",
                                                       !.retry_permitted = FALSE])
             /\ view[o].status = "COMPLETED"
      BY <1>15 DEF CleanupLease, CompletedExitProven
    <3>3. \A q : Keeps(o, q) => view'[o].status = "QUEUED" /\ view'[o].reconciliation = q
      BY <1>0 DEF Keeps, Sees, Created, TypeOK
    <3>4. QED
      BY <3>2, <3>3, SMTT(40)
  <2>3. CASE view'[o].reconciliation = view[o].reconciliation
    BY <1>0, <2>1, <2>2, <2>3 DEF Ctl, Honest, Truthful, Kept, Over, Gone
  <2>4. CASE view'[o].reconciliation = [view[o].reconciliation EXCEPT !.provider_alive_after = "false",
                                                                     !.retry_permitted = FALSE]
             /\ view[o].status = "COMPLETED"
    <3>1. ~view'[o].reconciliation.retry_permitted
          /\ view'[o].reconciliation.pid_alive = view[o].reconciliation.pid_alive
      BY <1>0, <2>4 DEF Reconciliation
    <3>2. Over'
      BY <1>0, <2>4 DEF Ctl, Honest, Kept
    <3>3. QED
      BY <1>0, <2>1, <2>2, <3>1, <3>2 DEF Ctl, Honest, Truthful, Kept, Gone, Over
  <2>5. QED
    BY <2>2, <2>3, <2>4
<1>16. CASE ReportCleanup(o)
  <2>1. /\ rec'.reconciliation = view[o].reconciliation /\ rec'.status = rec.status
        /\ rec' = [rec EXCEPT !.reconciliation = view[o].reconciliation]
        /\ pc[o] \in {"safe", "unsafe"} /\ pc'[o] \in {"prove", "idle"}
        /\ pc'[o] = "prove" => NoEffect(rec') /\ view' = view
        /\ view'[o] \in {view[o], Created}
    BY <1>0, <1>3, <1>4, <1>16 DEF ReportCleanup, Forgets, Record
  <2>2. pc'[o] = "prove" => Quiet'
    <3>1. SUFFICES ASSUME NoEffect(rec'), bounded', rec'.ack = 0, ~unswept'
                   PROVE  escaped' = {}
      BY <2>1 DEF Quiet
    <3>2. rec'.sweep \in {"absent", "clean"}
      BY <1>0, <2>1, <3>1, OperationJournalAssumption DEF NoEffect, SweepUnproven, Record, Count
    <3>3. QED
      BY <1>0, <3>1, <3>2, OperatorFlows DEF Swept
  <2>3. Honest(rec)' /\ Honest(view[o])'
    BY <1>0, <1>2, <2>1 DEF Ctl, Honest, Truthful, Kept, Over, Gone
  <2>4. QED
    BY <1>0, <2>1, <2>2, <2>3 DEF Ctl, NoEffect, Kept
<1>17. CASE Prove(o)
  <2>1. /\ rec' = rec /\ pc[o] = "prove" /\ pc'[o] \in {"finalize", "idle"} /\ view'[o] \in {view[o], Created}
        /\ pc'[o] = "finalize" => view'[o] = view[o]
    BY <1>3, <1>4, <1>17 DEF Prove, Forgets
  <2>2. Honest(rec)' /\ Honest(view[o])'
    BY <1>0, <1>2, <2>1 DEF Ctl, Honest, Truthful, Kept, Over, Gone
  <2>3. Quiet'
    BY <1>0, <2>1 DEF Ctl, Honest, Truthful, Kept, Over, Gone
  <2>4. QED
    BY <1>0, <2>1, <2>2, <2>3 DEF Ctl, Kept
<1>18. CASE Finalize(o)
  <2>1. /\ pc[o] = "finalize" /\ pc'[o] = "idle" /\ view'[o] = Created
        /\ rec'.status = "FAILED"
        /\ rec'.reconciliation.pid_alive = view[o].reconciliation.pid_alive
        /\ rec'.reconciliation.provider_alive_after = view[o].reconciliation.provider_alive_after
    BY <1>0, <1>3, <1>4, <1>18 DEF Finalize, Forgets, MarkTerminal, Record, Reconciliation
  <2>2. Gone' /\ Over' /\ Quiet'
    BY <1>0, <2>1 DEF Ctl, Honest, Truthful, Kept, Over, Gone
  <2>3. QED
    BY <1>0, <1>2, <2>1, <2>2 DEF Ctl, Honest, Truthful, Gone
<1>19. QED
  BY <1>5, <1>6, <1>7, <1>8, <1>9, <1>10, <1>11, <1>12, <1>13, <1>14, <1>15, <1>16, <1>17, <1>18
     DEF OperatorStep, Reconcile

-----------------------------------------------------------------------------
(***************************************************************************)
(* The theorems.                                                           *)
(***************************************************************************)
\* Every step is one of the three kinds.
LEMMA NextKinds ==
  ASSUME Next
  PROVE  WrapperStep \/ ProviderStep \/ \E o \in Operator : OperatorStep(o)
  BY DEF Next, WrapperStep, ProviderStep, OperatorStep

\* What holds whatever the operators do.
LInv == TypeOK /\ Flow /\ Swept

\* It holds at first.
LEMMA InitLInv == ASSUME Init PROVE LInv
  BY InitTyped DEF Init, LInv, Flow, Swept, Created, Idle

\* And every step keeps it.
LEMMA NextLInv ==
  ASSUME LInv, [Next]_vars
  PROVE  LInv'
<1>1. CASE WrapperStep
  BY <1>1, WrapperTyped, WrapperFlows DEF LInv
<1>2. CASE ProviderStep
  BY <1>2, ProviderTyped, ProviderFlows DEF LInv
<1>3. CASE \E o \in Operator : OperatorStep(o)
  BY <1>3, OperatorTyped, OperatorFlows DEF LInv
<1>4. CASE UNCHANGED vars
  BY <1>4 DEF LInv, TypeOK, Flow, Swept, vars
<1>5. QED
  BY <1>1, <1>2, <1>3, <1>4, NextKinds

(***************************************************************************)
(* Every variable of the journal and of the processes around it keeps its  *)
(* type: attempts and claims stay within the budget.                       *)
(***************************************************************************)
THEOREM TypeCorrect == Spec => []TypeOK
<1>1. Init => LInv
  BY InitLInv
<1>2. LInv /\ [Next]_vars => LInv'
  BY NextLInv
<1>3. LInv => TypeOK
  BY DEF LInv
<1>4. QED
  BY <1>1, <1>2, <1>3, PTL DEF Spec

\* A receipt goes when its provider is gone, or is not known to the wrapper.
LEMMA ReceiptsGo ==
  ASSUME LInv, Next
  PROVE  \A k \in receipts \ receipts' : live' = k => Alive /\ state'.provider_pid # k
<1> SUFFICES ASSUME NEW k \in receipts \ receipts'
             PROVE  live' = k => Alive /\ state'.provider_pid # k
  OBVIOUS
<1>0. k \in Nat /\ k # 0 /\ TypeOK /\ Flow
  BY OperationJournalAssumption DEF LInv, TypeOK, Attempt
<1>1. CASE WrapperStep
  <2>1. CASE Rotate \/ Return \/ RecordVerdict
    BY <1>0, <2>1 DEF Rotate, Return, RecordVerdict, Released, Flow, Alive
  <2>2. CASE Abort
    BY <1>0, <2>2 DEF Abort, AbortBeforeLaunch, AbortAtLaunch, AbortAttempt, AbortSwept, AbortOutside,
       Released, Flow, Alive, world
  <2>3. CASE ~(Rotate \/ Return \/ RecordVerdict \/ Abort)
    <3>1. receipts \subseteq receipts'
      BY <1>1, <2>3 DEF WrapperStep, Spawn, BindPid, Start, Claim, Leased, Execute, MarkPending, Launch,
         RecordProvider, AttemptEnds, LaunchFails, Complete, Guard, Dies, BeatCopy, BeatWrite, world
    <3>2. QED
      BY <3>1
  <2>4. QED
    BY <2>1, <2>2, <2>3
<1>2. CASE ProviderStep
  BY <1>2 DEF ProviderStep, ProviderEnds, Escape, EscapedEnds
<1>3. CASE \E o \in Operator : OperatorStep(o)
  <2>1. PICK o \in Operator : OperatorStep(o)
    BY <1>3
  <2>2. CASE CleanupLease(o)
    BY <1>0, <2>2 DEF CleanupLease, Held
  <2>3. CASE ~CleanupLease(o)
    BY <2>1, <2>3 DEF OperatorStep, Reconcile, Begin, Ack, Read, Probe, Hold, StillRunning, Settle, Stop,
       Orphan, Terminated, SuperRead, SuperProbe, SuperWrite, Stamp, ReportCleanup, Prove, Finalize,
       Writes, world
  <2>4. QED
    BY <2>2, <2>3
<1>4. QED
  BY <1>1, <1>2, <1>3, NextKinds

(***************************************************************************)
(* An operator's cleanup never removes an account's receipt under the      *)
(* provider that uses the account, and the wrapper's release does so only  *)
(* when it was interrupted before it had that provider's pid.              *)
(***************************************************************************)
THEOREM AccountsAreFreedLast == Spec => AccountFreedAfterProvider
<1>1. Init => LInv
  BY InitLInv
<1>2. LInv /\ [Next]_vars => LInv'
  BY NextLInv
<1>3. LInv /\ [Next]_vars => [\A k \in receipts \ receipts' : live' = k => Alive /\ state'.provider_pid # k]_vars
  BY ReceiptsGo
<1>4. QED
  BY <1>1, <1>2, <1>3, PTL DEF Spec, AccountFreedAfterProvider

\* At first nobody has found out anything.
LEMMA InitJInv == ASSUME Init PROVE JInv
<1>1. LInv
  BY InitLInv
<1>2. /\ rec.status = "QUEUED" /\ rec.reconciliation.pid_alive = "none"
      /\ rec.reconciliation.provider_alive_after = "none" /\ ~rec.reconciliation.retry_permitted
  BY DEF Init, Created, Nothing
<1>3. \A o \in Operator : pc[o] = "idle" /\ view[o] = rec
  BY DEF Init
<1>4. QED
  BY <1>1, <1>2, <1>3 DEF JInv, LInv, Honest, Truthful, Ctl

\* While no command comes before the wrapper's pid is recorded, every step writes what is true.
LEMMA NextJInv ==
  ASSUME JInv, [Next]_vars
  PROVE  JInv'
<1>6. LInv /\ LInv' /\ (early => early')
  <2>1. early => early'
    <3>1. CASE WrapperStep
      BY <3>1, WrapperKeeps DEF JInv, ovars
    <3>2. CASE ProviderStep \/ UNCHANGED vars
      BY <3>2 DEF ProviderStep, ProviderEnds, Escape, EscapedEnds, ovars, vars
    <3>3. CASE \E o \in Operator : OperatorStep(o)
      BY <3>3, OperatorFacts DEF JInv
    <3>4. QED
      BY <3>1, <3>2, <3>3, NextKinds
  <2>2. QED
    BY <2>1, NextLInv DEF JInv, LInv
<1>7. SUFFICES ASSUME ~early, ~early'
               PROVE  Honest(rec)' /\ \A o \in Operator : Ctl(o)'
  BY <1>6 DEF JInv, LInv
<1>0. LInv /\ LInv' /\ TypeOK /\ Flow /\ Swept /\ Honest(rec) /\ \A o \in Operator : Ctl(o)
  BY <1>6, <1>7 DEF JInv, LInv
<1>1. CASE WrapperStep
  <2>1. Kept /\ UNCHANGED <<pc, view>>
    BY <1>0, <1>1, WrapperKeeps DEF ovars
  <2>2. \A o \in Operator : Ctl(o)'
    BY <1>0, <2>1, CtlKept
  <2>3. QED
    BY <1>0, <1>1, <2>2, WrapperHonest
<1>2. CASE ProviderStep
  <2>1. Kept /\ UNCHANGED <<pc, view>> /\ rec' = rec
    BY <1>0, <1>2, OthersKeep DEF ProviderStep, ProviderEnds, Escape, EscapedEnds, ovars
  <2>2. \A o \in Operator : Ctl(o)'
    BY <1>0, <2>1, CtlKept
  <2>3. Honest(rec)'
    BY <1>0, <2>1 DEF Honest, Truthful, Kept, Over, Gone
  <2>4. QED
    BY <2>2, <2>3
<1>3. CASE \E o \in Operator : OperatorStep(o)
  <2>1. PICK p \in Operator : OperatorStep(p)
    BY <1>3
  <2>2. Kept
    BY <1>0, <1>3, OthersKeep
  <2>3. \A o \in Operator : o # p => pc'[o] = pc[o] /\ view'[o] = view[o]
    BY <1>0, <2>1 DEF TypeOK, OperatorStep, Reconcile, Begin, Ack, Read, Probe, Hold, StillRunning, Settle,
       Stop, Orphan, Terminated, SuperRead, SuperProbe, SuperWrite, Stamp, CleanupLease, ReportCleanup,
       Prove, Finalize, Step, Sees, Writes, Keeps, Forgets
  <2>4. \A o \in Operator : Ctl(o)'
    BY <1>0, <1>7, <2>1, <2>2, <2>3, CtlKept, OperatorHonest
  <2>5. QED
    BY <1>7, <2>1, <2>4, OperatorHonest
<1>4. CASE UNCHANGED vars
  BY <1>0, <1>4 DEF vars, Honest, Truthful, Ctl, Over, Gone, Quiet
<1>5. QED
  BY <1>1, <1>2, <1>3, <1>4, NextKinds

(***************************************************************************)
(* However many operators reconcile, acknowledge and finalize at once, and *)
(* whatever they read before the others wrote, a permitted retry means     *)
(* that the first run is over: always that its wrapper and its provider    *)
(* are gone, unless a command came before the wrapper's pid was recorded,  *)
(* and that a swept run has left nothing, unless its sweep was recorded    *)
(* clean without having been made.                                         *)
(***************************************************************************)
THEOREM RetryIsSafe == Spec => []RetryMeansGone
<1>1. Init => JInv
  BY InitJInv
<1>2. JInv /\ [Next]_vars => JInv'
  BY NextJInv
<1>3. JInv => RetryMeansGone
  BY DEF JInv, Honest, Truthful, Over, Quiet, RetryMeansGone
<1>4. QED
  BY <1>1, <1>2, <1>3, PTL DEF Spec
=============================================================================
