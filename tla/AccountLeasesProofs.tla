-------------------------- MODULE AccountLeasesProofs --------------------------
(***************************************************************************)
(* Proofs about AccountLeases, for any accounts and dispatchers.  A run    *)
(* that its dispatcher lost is out of reach of receipts and locks, and not *)
(* InUse: what is proved is that nothing else is.                          *)
(*                                                                         *)
(* OneRunPerAccount follows from EvidenceBeforeEffect: a receipt names one *)
(* claim.  What makes that inductive is who may touch a receipt: its owner *)
(* under the flock (Ctl), or a claimer, reaper or reconciler that finds    *)
(* the flock free, which for a run that inherits the flock means that it   *)
(* is over, and for a worker run that it must be proven gone (Guarded).    *)
(***************************************************************************)
EXTENDS AccountLeases, TLAPS

Holding == {"allocating", "claimed", "marked", "launched", "running", "classify", "ending", "keeping"}
RunState == {"none", "live", "survivor", "lost"}

\* What a dispatcher relies on while it has a claim.
Ctl(d) ==
  /\ pc[d] \in Holding => cur[d] \in Account /\ lock[cur[d]] = d
  /\ pc[d] = "allocating" => receipt[cur[d]] = "none"
  /\ pc[d] \in Holding \ {"allocating"} => owner[cur[d]] = d /\ Readable(cur[d])
  /\ d \in Worker /\ pc[d] \in {"marked", "running"} => HasWorkerFields(cur[d])
  /\ pc[d] = "launched" => d \notin Worker
  /\ pc[d] \in {"allocating", "claimed", "marked", "classify"} => ~InUse(d, cur[d])
  /\ d \in Worker \cup Hcom /\ pc[d] = "ending" => ~InUse(d, cur[d])

\* What stands between a run and the next claim of its account.
Guarded(d, a) ==
  InUse(d, a) =>
    /\ owner[a] = d /\ Readable(a)
    /\ d \notin Worker => lock[a] = d
    /\ d \in Worker => HasWorkerFields(a)
    /\ d \in Worker /\ run[d][a] = "survivor" => receipt[a] = "unclean"

ReceiptNamed == \A a \in Account : receipt[a] # "none" => owner[a] \in Dispatcher

LInv ==
  /\ TypeOK
  /\ ReceiptNamed
  /\ \A d \in Dispatcher : Ctl(d)
  /\ \A d \in Dispatcher, a \in Account : Guarded(d, a)

-----------------------------------------------------------------------------
(***************************************************************************)
(* Type correctness.                                                       *)
(***************************************************************************)
\* A function updated with a value of its range stays of its type.
LEMMA Updated ==
  ASSUME NEW D, NEW S, NEW g \in [D -> S], NEW x, NEW v \in S
  PROVE  [g EXCEPT ![x] = v] \in [D -> S]
  OBVIOUS

\* A run set to one of its states stays of its type.
LEMMA RunUpdated ==
  ASSUME NEW r \in [Dispatcher -> [Account -> RunState]],
         NEW d \in Dispatcher, NEW a \in Account, NEW v \in RunState
  PROVE  [r EXCEPT ![d][a] = v] \in [Dispatcher -> [Account -> RunState]]
  OBVIOUS

\* The states of a run.
LEMMA RunStates ==
  /\ "none" \in RunState /\ "live" \in RunState /\ "survivor" \in RunState /\ "lost" \in RunState
  /\ TypeOK => run \in [Dispatcher -> [Account -> RunState]]
  /\ run' \in [Dispatcher -> [Account -> RunState]] =>
       run' \in [Dispatcher -> [Account -> {"none", "live", "survivor", "lost"}]]
  BY DEF RunState, TypeOK

\* The receipt file's part of the type survives its removal.
LEMMA UnlinkedTypes ==
  ASSUME TypeOK, NEW a \in Account, Unlinked(a)
  PROVE  /\ owner' \in [Account -> Dispatcher \cup {NoOne}]
         /\ receipt' \in [Account -> {"none", "torn", "plain", "worker", "unclean"}]
  BY DEF TypeOK, Unlinked

\* The end of a process keeps the types.
LEMMA ExitedTypes ==
  ASSUME TypeOK, NEW d \in Dispatcher, Exited(d)
  PROVE  /\ lock' \in [Account -> Dispatcher \cup {NoOne}]
         /\ cur' \in [Dispatcher -> Account \cup {NoOne}]
         /\ excluded' \in [Dispatcher -> SUBSET Account]
         /\ deferred' \in [Dispatcher -> SUBSET (Account \X Dispatcher)]
         /\ pc' \in [Dispatcher -> Phases]
  <1>1. lock' \in [Account -> Dispatcher \cup {NoOne}] /\ cur' \in [Dispatcher -> Account \cup {NoOne}]
    BY DEF TypeOK, Exited
  <1>2. pc' \in [Dispatcher -> Phases]
    BY DEF TypeOK, Exited, Goto, Phases
  <1>3. excluded' \in [Dispatcher -> SUBSET Account]
    BY DEF TypeOK, Exited
  <1>4. deferred' \in [Dispatcher -> SUBSET (Account \X Dispatcher)]
    <2>1. deferred \in [Dispatcher -> SUBSET (Account \X Dispatcher)]
          /\ deferred' = [deferred EXCEPT ![d] = {}]
      BY DEF TypeOK, Exited
    <2>2. {} \in SUBSET (Account \X Dispatcher)
      OBVIOUS
    <2> QED
      BY <2>1, <2>2, Updated, Zenon
  <1> QED
    BY <1>1, <1>2, <1>3, <1>4

\* RunGone keeps the type of the runs, and only ends runs of the account.
LEMMA RunGoneTypes ==
  ASSUME TypeOK, NEW a \in Account, owner[a] \in Dispatcher, RunGone(a)
  PROVE  /\ run' \in [Dispatcher -> [Account -> RunState]]
         /\ \A e \in Dispatcher, b \in Account : run'[e][b] \in {run[e][b], "none"}
  <1>1. run \in [Dispatcher -> [Account -> RunState]]
    BY RunStates
  <1>2. CASE receipt[a] = "unclean"
    BY <1>1, <1>2 DEF RunGone
  <1>3. CASE receipt[a] # "unclean"
    <2> DEFINE v == IF run[owner[a]][a] = "live" THEN "none" ELSE run[owner[a]][a]
    <2>1. run' = [run EXCEPT ![owner[a]][a] = v]
      BY <1>3 DEF RunGone
    <2>2. v \in RunState /\ v \in {run[owner[a]][a], "none"}
      BY <1>1, RunStates
    <2> HIDE DEF v
    <2>3. run' \in [Dispatcher -> [Account -> RunState]]
      BY <1>1, <2>1, <2>2, RunUpdated
    <2> QED
      BY <1>1, <2>1, <2>2, <2>3
  <1> QED
    BY <1>2, <1>3

\* Every step keeps the type invariant.
LEMMA TypeStep ==
  ASSUME LInv, [Next]_vars
  PROVE  TypeOK'
  <1> USE AccountLeasesAssumption
  <1>0. /\ TypeOK
        /\ \A a \in Account : Readable(a) => owner[a] \in Dispatcher
        /\ \A d \in Dispatcher : pc[d] \in Holding => cur[d] \in Account
    BY DEF LInv, ReceiptNamed, Readable, Ctl
  <1>1. ASSUME NEW d \in Dispatcher, NEW a \in Account, Claim(d, a) PROVE TypeOK'
    <2>1. Unlinked(a)
      BY <1>1 DEF Claim
    <2>2. /\ owner' \in [Account -> Dispatcher \cup {NoOne}]
          /\ receipt' \in [Account -> {"none", "torn", "plain", "worker", "unclean"}]
      BY <1>0, <2>1, UnlinkedTypes
    <2> QED
      BY <1>0, <1>1, <2>2 DEF TypeOK, Claim, Goto, Phases
  <1>2. ASSUME NEW d \in Dispatcher, WriteReceipt(d) PROVE TypeOK'
    BY <1>0, <1>2 DEF TypeOK, WriteReceipt, Goto, Phases, Holding
  <1>3. ASSUME NEW d \in Dispatcher, NothingFree(d) PROVE TypeOK'
    <2> DEFINE D == {<<a, owner[a]>> : a \in {b \in Account : Candidate(d, b) /\ Orphaned(b) /\ HasWorkerFields(b)}}
    <2>1. D \in SUBSET (Account \X Dispatcher)
      BY <1>0 DEF Orphaned
    <2>2. /\ deferred' = [deferred EXCEPT ![d] = D]
          /\ deferred \in [Dispatcher -> SUBSET (Account \X Dispatcher)]
      BY <1>0, <1>3 DEF NothingFree, TypeOK
    <2> HIDE DEF D
    <2>3. deferred' \in [Dispatcher -> SUBSET (Account \X Dispatcher)]
      BY <2>1, <2>2, Updated, Zenon
    <2>4. pc' \in [Dispatcher -> Phases]
      BY <1>0, <1>3 DEF NothingFree, TypeOK, Goto, Phases
    <2> QED
      BY <1>0, <1>3, <2>3, <2>4 DEF NothingFree, TypeOK
  <1>4. ASSUME NEW d \in Dispatcher, NEW a \in Account, NEW o \in Dispatcher, Reap(d, a, o) PROVE TypeOK'
    <2>1. Unlinked(a) /\ RunGone(a) /\ owner[a] = o
      BY <1>4 DEF Reap, StillDeferred
    <2>2. run' \in [Dispatcher -> [Account -> RunState]]
      BY <1>0, <2>1, RunGoneTypes
    <2>3. /\ owner' \in [Account -> Dispatcher \cup {NoOne}]
          /\ receipt' \in [Account -> {"none", "torn", "plain", "worker", "unclean"}]
      BY <1>0, <2>1, UnlinkedTypes
    <2>4. deferred' \in [Dispatcher -> SUBSET (Account \X Dispatcher)]
      <3>1. deferred \in [Dispatcher -> SUBSET (Account \X Dispatcher)]
            /\ deferred' = [deferred EXCEPT ![d] = {}] /\ {} \in SUBSET (Account \X Dispatcher)
        BY <1>0, <1>4 DEF TypeOK, Reap
      <3> QED
        BY <3>1, Updated, Zenon
    <2>5. pc' \in [Dispatcher -> Phases]
      BY <1>0, <1>4 DEF Reap, TypeOK, Goto, Phases
    <2> QED
      BY <1>0, <1>4, <2>2, <2>3, <2>4, <2>5, RunStates DEF TypeOK, Reap
  <1>5. ASSUME NEW d \in Dispatcher, NEW a \in Account, NEW o \in Dispatcher, ReapSkipped(d, a, o)
        PROVE  TypeOK'
    <2>1. deferred \in [Dispatcher -> SUBSET (Account \X Dispatcher)]
          /\ deferred' = [deferred EXCEPT ![d] = deferred[d] \ {<<a, o>>}]
          /\ deferred[d] \ {<<a, o>>} \in SUBSET (Account \X Dispatcher)
      BY <1>0, <1>5 DEF TypeOK, ReapSkipped
    <2>2. deferred' \in [Dispatcher -> SUBSET (Account \X Dispatcher)]
      BY <2>1, Updated, Zenon
    <2> QED
      BY <1>0, <1>5, <2>2 DEF TypeOK, ReapSkipped
  <1>6. ASSUME NEW d \in Dispatcher, WaitForAccount(d) PROVE TypeOK'
    BY <1>0, <1>6 DEF TypeOK, WaitForAccount, Goto, Phases
  <1>7. ASSUME NEW d \in Dispatcher, Exited(d), UNCHANGED <<usable, run>>,
               /\ owner' \in [Account -> Dispatcher \cup {NoOne}]
               /\ receipt' \in [Account -> {"none", "torn", "plain", "worker", "unclean"}]
        PROVE  TypeOK'
    BY <1>0, <1>7, ExitedTypes DEF TypeOK
  <1>8. ASSUME NEW d \in Dispatcher, GiveUp(d) PROVE TypeOK'
    BY <1>0, <1>7, <1>8 DEF TypeOK, GiveUp
  <1>9. ASSUME NEW d \in Dispatcher, NEW a \in Account, ReceiptReleased(a)
        PROVE  /\ owner' \in [Account -> Dispatcher \cup {NoOne}]
               /\ receipt' \in [Account -> {"none", "torn", "plain", "worker", "unclean"}]
    BY <1>0, <1>9, UnlinkedTypes DEF ReceiptReleased, TypeOK
  <1>10. ASSUME NEW d \in Dispatcher, cur[d] \in Account, ReleaseAndExit(d),
                usable' \in [Account -> BOOLEAN], run' \in [Dispatcher -> [Account -> RunState]]
         PROVE  TypeOK'
    <2>1. /\ owner' \in [Account -> Dispatcher \cup {NoOne}]
          /\ receipt' \in [Account -> {"none", "torn", "plain", "worker", "unclean"}]
      BY <1>9, <1>10 DEF ReleaseAndExit
    <2>2. deferred' \in [Dispatcher -> SUBSET (Account \X Dispatcher)]
      <3>1. deferred \in [Dispatcher -> SUBSET (Account \X Dispatcher)]
            /\ deferred' = [deferred EXCEPT ![d] = {}] /\ {} \in SUBSET (Account \X Dispatcher)
        BY <1>0, <1>10 DEF TypeOK, ReleaseAndExit
      <3> QED
        BY <3>1, Updated, Zenon
    <2>3. pc' \in [Dispatcher -> Phases]
      BY <1>0, <1>10 DEF ReleaseAndExit, TypeOK, Goto, Phases
    <2>4. /\ lock' \in [Account -> Dispatcher \cup {NoOne}]
          /\ cur' \in [Dispatcher -> Account \cup {NoOne}]
          /\ excluded' \in [Dispatcher -> SUBSET Account]
      BY <1>0, <1>10 DEF ReleaseAndExit, TypeOK
    <2> QED
      BY <1>0, <1>10, <2>1, <2>2, <2>3, <2>4, RunStates DEF TypeOK, ReleaseAndExit
  <1>11. ASSUME NEW d \in Dispatcher, Failover(d) PROVE TypeOK'
    <2>1. cur[d] \in Account /\ ReceiptReleased(cur[d])
      BY <1>0, <1>11 DEF Failover, Holding
    <2>2. /\ owner' \in [Account -> Dispatcher \cup {NoOne}]
          /\ receipt' \in [Account -> {"none", "torn", "plain", "worker", "unclean"}]
      BY <1>9, <2>1
    <2>3. pc' \in [Dispatcher -> Phases]
      BY <1>0, <1>11 DEF Failover, TypeOK, Goto, Phases
    <2>4. usable' \in [Account -> BOOLEAN]
      BY <1>0, <1>11 DEF Failover, TypeOK
    <2>5. excluded' \in [Dispatcher -> SUBSET Account]
      <3>1. excluded \in [Dispatcher -> SUBSET Account]
            /\ excluded' = [excluded EXCEPT ![d] = excluded[d] \cup {cur[d]}]
            /\ excluded[d] \cup {cur[d]} \in SUBSET Account
        BY <1>0, <1>11, <2>1 DEF TypeOK, Failover
      <3> QED
        BY <3>1, Updated, Zenon
    <2>6. lock' \in [Account -> Dispatcher \cup {NoOne}] /\ cur' \in [Dispatcher -> Account \cup {NoOne}]
      BY <1>0, <1>11 DEF Failover, TypeOK
    <2> QED
      BY <1>0, <1>11, <2>2, <2>3, <2>4, <2>5, <2>6 DEF TypeOK, Failover
  <1>12. ASSUME NEW a \in Account, Recover(a) PROVE TypeOK'
    BY <1>0, <1>12 DEF TypeOK, Recover
  <1>13. ASSUME NEW d \in Dispatcher, MarkRun(d) PROVE TypeOK'
    BY <1>0, <1>13 DEF TypeOK, MarkRun, Goto, Phases
  <1>14. ASSUME NEW d \in Dispatcher, Launch(d) \/ AttemptEnds(d) PROVE TypeOK'
    <2>1. cur[d] \in Account
      BY <1>0, <1>14 DEF Launch, AttemptEnds, Holding
    <2>2. run' \in [Dispatcher -> [Account -> RunState]]
      <3>1. run \in [Dispatcher -> [Account -> RunState]]
        BY <1>0, RunStates
      <3>2. \/ run' = run
            \/ run' = [run EXCEPT ![d][cur[d]] = "live"]
            \/ run' = [run EXCEPT ![d][cur[d]] = "none"]
        BY <1>14 DEF Launch, AttemptEnds
      <3>3. /\ [run EXCEPT ![d][cur[d]] = "live"] \in [Dispatcher -> [Account -> RunState]]
            /\ [run EXCEPT ![d][cur[d]] = "none"] \in [Dispatcher -> [Account -> RunState]]
        <4>1. "live" \in RunState /\ "none" \in RunState
          BY RunStates
        <4> QED
          BY <2>1, <3>1, <4>1, RunUpdated, Zenon
      <3> QED
        BY <3>1, <3>2, <3>3, Zenon
    <2>3. pc' \in [Dispatcher -> Phases]
      BY <1>0, <1>14 DEF Launch, AttemptEnds, TypeOK, Goto, Phases
    <2> QED
      BY <1>0, <1>14, <2>2, <2>3, RunStates DEF TypeOK, Launch, AttemptEnds
  <1>15. ASSUME NEW d \in Dispatcher, NEW a \in Account, RunEnds(d, a) PROVE TypeOK'
    <2>1. PICK left \in {"none", "survivor"} :
            /\ run' = [run EXCEPT ![d][a] = left]
            /\ lock' = [lock EXCEPT ![a] =
                 IF @ = d /\ left = "none" /\ pc[d] = "dead" THEN NoOne ELSE @]
      BY <1>15 DEF RunEnds
    <2>2. run' \in [Dispatcher -> [Account -> RunState]]
      BY <1>0, <2>1, RunUpdated, RunStates
    <2>3. lock' \in [Account -> Dispatcher \cup {NoOne}]
      BY <1>0, <2>1 DEF TypeOK
    <2> QED
      BY <1>0, <1>15, <2>2, <2>3, RunStates DEF TypeOK, RunEnds
  <1>16. ASSUME NEW d \in Dispatcher, AttemptUnclean(d) PROVE TypeOK'
    <2>1. cur[d] \in Account
      BY <1>0, <1>16 DEF AttemptUnclean, Holding
    <2>2. run' \in [Dispatcher -> [Account -> RunState]]
      <3>1. run \in [Dispatcher -> [Account -> RunState]]
        BY <1>0, RunStates
      <3>2. PICK v \in RunState : run' = run \/ run' = [run EXCEPT ![d][cur[d]] = v]
        BY <1>16, <2>1, <3>1, RunStates DEF AttemptUnclean
      <3>3. [run EXCEPT ![d][cur[d]] = v] \in [Dispatcher -> [Account -> RunState]]
        BY <2>1, <3>1, <3>2, RunUpdated, Zenon
      <3> QED
        BY <3>1, <3>2, <3>3, Zenon
    <2>3. pc' \in [Dispatcher -> Phases]
      BY <1>0, <1>16 DEF AttemptUnclean, TypeOK, Goto, Phases
    <2>4. receipt' \in [Account -> {"none", "torn", "plain", "worker", "unclean"}]
      BY <1>0, <1>16 DEF AttemptUnclean, TypeOK
    <2> QED
      BY <1>0, <1>16, <2>2, <2>3, <2>4, RunStates DEF TypeOK, AttemptUnclean
  <1>17. ASSUME NEW d \in Dispatcher, Finish(d) PROVE TypeOK'
    <2>1. CASE ReleaseAndExit(d)
      <3>1. cur[d] \in Account /\ usable' \in [Account -> BOOLEAN]
        BY <1>0, <1>17 DEF Finish, TypeOK, Holding
      <3>2. run' \in [Dispatcher -> [Account -> RunState]]
        BY <1>0, <1>17, RunStates DEF Finish
      <3> QED
        BY <1>10, <2>1, <3>1, <3>2
    <2>2. CASE ~ReleaseAndExit(d)
      <3>1. Exited(d) /\ UNCHANGED <<owner, receipt, usable, run>>
        BY <1>17, <2>2 DEF Finish
      <3> QED
        BY <1>0, <1>7, <3>1 DEF TypeOK
    <2> QED
      BY <2>1, <2>2
  <1>18. ASSUME NEW d \in Dispatcher, HcomEnds(d) PROVE TypeOK'
    <2>1. CASE ReleaseAndExit(d)
      <3>1. cur[d] \in Account /\ usable' \in [Account -> BOOLEAN]
        BY <1>0, <1>18 DEF HcomEnds, TypeOK, Holding
      <3>2. run' \in [Dispatcher -> [Account -> RunState]]
        BY <1>0, <1>18, RunStates DEF HcomEnds
      <3> QED
        BY <1>10, <2>1, <3>1, <3>2
    <2>2. CASE ~ReleaseAndExit(d)
      <3>1. Exited(d) /\ UNCHANGED <<owner, receipt, usable, run>>
        BY <1>18, <2>2 DEF HcomEnds
      <3> QED
        BY <1>0, <1>7, <3>1 DEF TypeOK
    <2> QED
      BY <2>1, <2>2
  <1>19. ASSUME NEW d \in Dispatcher, Die(d) PROVE TypeOK'
    <2>1. /\ owner' \in [Account -> Dispatcher \cup {NoOne}]
          /\ receipt' \in [Account -> {"none", "torn", "plain", "worker", "unclean"}]
      <3>1. CASE UNCHANGED <<owner, receipt>>
        BY <1>0, <3>1 DEF TypeOK
      <3>2. CASE /\ owner' = [owner EXCEPT ![cur[d]] = d]
                 /\ receipt' = [receipt EXCEPT ![cur[d]] = "torn"]
        BY <1>0, <3>2 DEF TypeOK
      <3> QED
        BY <1>19, <3>1, <3>2 DEF Die
    <2> QED
      BY <1>7, <1>19, <2>1 DEF Die
  <1>20. ASSUME NEW a \in Account, NEW o \in Dispatcher, Reconcile(a, o) PROVE TypeOK'
    <2>1. Unlinked(a) /\ owner[a] = o /\ (RunGone(a) \/ UNCHANGED run)
      BY <1>20 DEF Reconcile
    <2>2. run' \in [Dispatcher -> [Account -> RunState]]
      BY <1>0, <2>1, RunGoneTypes, RunStates
    <2>3. /\ owner' \in [Account -> Dispatcher \cup {NoOne}]
          /\ receipt' \in [Account -> {"none", "torn", "plain", "worker", "unclean"}]
      BY <1>0, <2>1, UnlinkedTypes
    <2> QED
      BY <1>0, <1>20, <2>2, <2>3, RunStates DEF TypeOK, Reconcile
  <1>21. CASE UNCHANGED vars
    BY <1>0, <1>21 DEF TypeOK, vars
  <1>22. ASSUME NEW d \in Dispatcher, NoteProvider(d) PROVE TypeOK'
    BY <1>0, <1>22 DEF TypeOK, NoteProvider, Goto, Phases
  <1>23. ASSUME NEW d \in Dispatcher, LaunchInterrupted(d) PROVE TypeOK'
    <2>1. cur[d] \in Account /\ usable' \in [Account -> BOOLEAN] /\ ReleaseAndExit(d)
      BY <1>0, <1>23 DEF LaunchInterrupted, TypeOK, Holding
    <2> DEFINE v == IF run[d][cur[d]] = "live" THEN "lost" ELSE run[d][cur[d]]
    <2>2. run' = [run EXCEPT ![d][cur[d]] = v] /\ v \in RunState
      BY <1>0, <1>23, <2>1, RunStates DEF LaunchInterrupted
    <2> HIDE DEF v
    <2>3. run' \in [Dispatcher -> [Account -> RunState]]
      BY <1>0, <2>1, <2>2, RunUpdated, RunStates
    <2> QED
      BY <1>10, <2>1, <2>3
  <1> QED
    BY <1>1, <1>2, <1>3, <1>4, <1>5, <1>6, <1>8, <1>11, <1>12, <1>13, <1>14, <1>15, <1>16, <1>17,
       <1>18, <1>19, <1>20, <1>21, <1>22, <1>23 DEF Next, Claims, Reaps, Skips

-----------------------------------------------------------------------------
(***************************************************************************)
(* The inductive invariant.                                                *)
(***************************************************************************)
\* A step of d spares the others: their memory, their locks, and their receipts.
Spares(d) ==
  \A e \in Dispatcher \ {d} :
    /\ pc'[e] = pc[e] /\ cur'[e] = cur[e] /\ run'[e] = run[e]
    /\ \A b \in Account :
         /\ lock[b] = e => lock'[b] = e
         /\ lock[b] = e \/ InUse(e, b) => owner'[b] = owner[b] /\ receipt'[b] = receipt[b]

\* What d spares keeps its invariant.
LEMMA OthersKept ==
  ASSUME LInv, NEW d \in Dispatcher, Spares(d), NEW e \in Dispatcher, e # d
  PROVE  Ctl(e)' /\ \A b \in Account : Guarded(e, b)'
  <1>1. /\ pc'[e] = pc[e] /\ cur'[e] = cur[e] /\ run'[e] = run[e]
        /\ \A b \in Account :
             /\ lock[b] = e => lock'[b] = e
             /\ lock[b] = e \/ InUse(e, b) => owner'[b] = owner[b] /\ receipt'[b] = receipt[b]
    BY DEF Spares
  <1>2. Ctl(e) /\ \A b \in Account : Guarded(e, b)
    BY DEF LInv
  <1>3. \A b \in Account : InUse(e, b)' = InUse(e, b)
    BY <1>1 DEF InUse
  <1>4. Ctl(e)'
    <2>1. CASE pc[e] \in Holding
      <3>1. /\ cur[e] \in Account /\ lock'[cur[e]] = e
            /\ owner'[cur[e]] = owner[cur[e]] /\ receipt'[cur[e]] = receipt[cur[e]]
        BY <1>1, <1>2, <2>1 DEF Ctl
      <3>2. InUse(e, cur[e])' <=> InUse(e, cur[e])
        BY <1>1 DEF InUse
      <3> QED
        BY <1>1, <1>2, <2>1, <3>1, <3>2 DEF Ctl, Readable, HasWorkerFields
    <2>2. CASE pc[e] \notin Holding
      BY <1>1, <2>2 DEF Ctl, Holding
    <2> QED
      BY <2>1, <2>2
  <1>5. ASSUME NEW b \in Account PROVE Guarded(e, b)'
    <2>1. CASE InUse(e, b)
      BY <1>1, <1>2, <2>1 DEF Guarded, Readable, HasWorkerFields
    <2>2. CASE ~InUse(e, b)
      BY <1>3, <2>2 DEF Guarded
    <2> QED
      BY <2>1, <2>2
  <1> QED
    BY <1>4, <1>5

\* Nobody else uses, or holds the lock of, the account of a claim.
LEMMA ClaimIsExclusive ==
  ASSUME LInv, NEW d \in Dispatcher, pc[d] \in Holding
  PROVE  /\ cur[d] \in Account /\ lock[cur[d]] = d
         /\ \A e \in Dispatcher \ {d} : ~InUse(e, cur[d])
  <1>1. Ctl(d) /\ \A e \in Dispatcher, a \in Account : Guarded(e, a)
    BY DEF LInv
  <1>2. cur[d] \in Account /\ lock[cur[d]] = d
    BY <1>1 DEF Ctl
  <1>3. receipt[cur[d]] = "none" \/ owner[cur[d]] = d
    BY <1>1 DEF Ctl
  <1> QED
    BY <1>1, <1>2, <1>3 DEF Guarded, Readable

\* A claimable account is in nobody's use.
LEMMA ClaimableIsIdle ==
  ASSUME LInv, NEW d \in Dispatcher, NEW a \in Account, Claim(d, a)
  PROVE  \A e \in Dispatcher : ~InUse(e, a)
  <1>1. \A e \in Dispatcher : Guarded(e, a)
    BY DEF LInv
  <1>2. lock[a] = NoOne /\ (receipt[a] = "none" \/ ~HasWorkerFields(a))
    BY DEF Claim, Candidate
  <1> QED
    BY <1>1, <1>2, AccountLeasesAssumption DEF Guarded, Readable

\* What a step of d has to establish.
Kept(d) ==
  /\ Spares(d)
  /\ Ctl(d)'
  /\ \A a \in Account : Guarded(d, a)'
  /\ ReceiptNamed'

\* A step that leaves files and runs alone and ends without a claim.
LEMMA QuietStep ==
  ASSUME LInv, NEW d \in Dispatcher, UNCHANGED <<lock, owner, receipt, cur, run>>,
         NEW x, x \notin Holding, pc' = [pc EXCEPT ![d] = x]
  PROVE  Kept(d)
  <1>1. TypeOK /\ ReceiptNamed /\ \A a \in Account : Guarded(d, a)
    BY DEF LInv
  <1>2. Spares(d)
    BY <1>1 DEF Spares, TypeOK
  <1>3. Ctl(d)'
    BY <1>1 DEF Ctl, TypeOK, Holding
  <1>4. \A a \in Account : Guarded(d, a)'
    BY <1>1 DEF Guarded, InUse, Readable, HasWorkerFields
  <1>5. ReceiptNamed'
    BY <1>1 DEF ReceiptNamed
  <1> QED
    BY <1>2, <1>3, <1>4, <1>5 DEF Kept

\* The new claim is exclusive: nothing of an earlier one is left on the account.
LEMMA ClaimStep ==
  ASSUME LInv, NEW d \in Dispatcher, NEW a \in Account, Claim(d, a)
  PROVE  Kept(d)
  <1>1. TypeOK /\ ReceiptNamed /\ \A b \in Account : Guarded(d, b)
    BY DEF LInv
  <1>2. \A e \in Dispatcher : ~InUse(e, a)
    BY ClaimableIsIdle
  <1>3. /\ lock[a] = NoOne
        /\ lock' = [lock EXCEPT ![a] = d] /\ cur' = [cur EXCEPT ![d] = a]
        /\ owner' = [owner EXCEPT ![a] = NoOne] /\ receipt' = [receipt EXCEPT ![a] = "none"]
        /\ pc' = [pc EXCEPT ![d] = "allocating"] /\ run' = run
    BY DEF Claim, Candidate, Unlinked, Goto
  <1>4. Spares(d)
    BY <1>1, <1>2, <1>3, AccountLeasesAssumption DEF Spares, TypeOK
  <1>5. Ctl(d)'
    <2>1. /\ pc'[d] = "allocating" /\ cur'[d] = a /\ lock'[a] = d /\ receipt'[a] = "none"
      BY <1>1, <1>3 DEF TypeOK
    <2>2. ~InUse(d, a)'
      BY <1>2, <1>3 DEF InUse
    <2> QED
      BY <2>1, <2>2 DEF Ctl, Holding, InUse
  <1>6. ASSUME NEW b \in Account PROVE Guarded(d, b)'
    <2>1. CASE b = a
      BY <1>2, <1>3, <2>1 DEF Guarded, InUse
    <2>2. CASE b # a
      BY <1>1, <1>3, <2>2 DEF Guarded, InUse, Readable, HasWorkerFields, TypeOK
    <2> QED
      BY <2>1, <2>2
  <1>7. ReceiptNamed'
    BY <1>1, <1>3 DEF ReceiptNamed, TypeOK
  <1> QED
    BY <1>4, <1>5, <1>6, <1>7 DEF Kept

(***************************************************************************)
(* A step of d under its claim: only the receipt and the run of its own    *)
(* account change, and the claim stays.                                    *)
(***************************************************************************)
LEMMA UnderClaim ==
  ASSUME LInv, NEW d \in Dispatcher, pc[d] \in Holding, NEW x, pc' = [pc EXCEPT ![d] = x],
         UNCHANGED <<lock, cur>>,
         owner' \in {owner, [owner EXCEPT ![cur[d]] = d]},
         NEW r, receipt' = receipt \/ (r # "none" /\ receipt' = [receipt EXCEPT ![cur[d]] = r]),
         receipt' = receipt \/ owner'[cur[d]] = d,
         NEW v, run' = run \/ run' = [run EXCEPT ![d][cur[d]] = v],
         Ctl(d)', Guarded(d, cur[d])'
  PROVE  Kept(d)
  <1>1. TypeOK /\ ReceiptNamed /\ \A b \in Account : Guarded(d, b)
    BY DEF LInv
  <1>2. /\ cur[d] \in Account /\ lock[cur[d]] = d
        /\ \A e \in Dispatcher \ {d} : ~InUse(e, cur[d])
    BY ClaimIsExclusive
  <1>3. \A b \in Account \ {cur[d]} : owner'[b] = owner[b] /\ receipt'[b] = receipt[b]
    BY <1>1, <1>2 DEF TypeOK
  <1>4. \A e \in Dispatcher \ {d} : pc'[e] = pc[e] /\ run'[e] = run[e]
    BY <1>1, <1>2 DEF TypeOK
  <1>5. Spares(d)
    BY <1>1, <1>2, <1>3, <1>4 DEF Spares, TypeOK
  <1>6. ASSUME NEW b \in Account, b # cur[d] PROVE Guarded(d, b)'
    <2>1. run'[d][b] = run[d][b]
      BY <1>1, <1>2, <1>6 DEF TypeOK
    <2> QED
      BY <1>1, <1>3, <1>6, <2>1 DEF Guarded, InUse, Readable, HasWorkerFields
  <1>7. ReceiptNamed'
    <2>1. \A b \in Account \ {cur[d]} : receipt'[b] # "none" => owner'[b] \in Dispatcher
      BY <1>1, <1>3 DEF ReceiptNamed
    <2>2. receipt'[cur[d]] # "none" => owner'[cur[d]] \in Dispatcher
      BY <1>1, <1>2 DEF ReceiptNamed, TypeOK
    <2> QED
      BY <2>1, <2>2 DEF ReceiptNamed
  <1>8. \A b \in Account : Guarded(d, b)'
    <2>1. Guarded(d, cur[d])'
      OBVIOUS
    <2> QED
      BY <1>6, <2>1
  <1> QED
    BY <1>5, <1>7, <1>8 DEF Kept

\* The receipt of a pass is written under its flock.
LEMMA WriteReceiptStep ==
  ASSUME LInv, NEW d \in Dispatcher, WriteReceipt(d)
  PROVE  Kept(d)
  <1>1. TypeOK /\ Ctl(d) /\ pc[d] \in Holding
    BY DEF LInv, WriteReceipt, Holding
  <1>2. /\ pc' = [pc EXCEPT ![d] = "claimed"] /\ UNCHANGED <<lock, cur, run>>
        /\ owner' = [owner EXCEPT ![cur[d]] = d] /\ receipt' = [receipt EXCEPT ![cur[d]] = "plain"]
        /\ pc[d] = "allocating"
    BY DEF WriteReceipt, Goto
  <1>3. cur[d] \in Account /\ lock[cur[d]] = d /\ ~InUse(d, cur[d])
    BY <1>1, <1>2 DEF Ctl
  <1>4. /\ pc'[d] = "claimed" /\ owner'[cur[d]] = d /\ receipt'[cur[d]] = "plain"
        /\ cur'[d] = cur[d]
    BY <1>1, <1>2, <1>3 DEF TypeOK
  <1>5. ~InUse(d, cur[d])'
    BY <1>2, <1>3 DEF InUse
  <1>6. Ctl(d)'
    BY <1>2, <1>3, <1>4, <1>5 DEF Ctl, Holding, Readable
  <1>7. Guarded(d, cur[d])'
    BY <1>5 DEF Guarded
  <1> QED
    BY <1>1, <1>2, <1>4, <1>6, <1>7, UnderClaim

\* The mark is written under the flock, before the run.
LEMMA MarkRunStep ==
  ASSUME LInv, NEW d \in Dispatcher, MarkRun(d)
  PROVE  Kept(d)
  <1>1. TypeOK /\ Ctl(d) /\ pc[d] \in Holding /\ d \in Worker /\ pc[d] = "claimed"
    BY DEF LInv, MarkRun, Holding
  <1>2. cur[d] \in Account /\ lock[cur[d]] = d /\ ~InUse(d, cur[d]) /\ owner[cur[d]] = d /\ Readable(cur[d])
    BY <1>1 DEF Ctl, Holding
  <1>3. UNCHANGED <<lock, owner, cur, run>>
    BY DEF MarkRun
  <1>4. ~InUse(d, cur[d])' /\ Guarded(d, cur[d])'
    BY <1>2, <1>3 DEF InUse, Guarded
  <1>5. CASE receipt' = [receipt EXCEPT ![cur[d]] = "worker"] /\ pc' = [pc EXCEPT ![d] = "marked"]
    <2>1. pc'[d] = "marked" /\ receipt'[cur[d]] = "worker"
      BY <1>1, <1>2, <1>5 DEF TypeOK
    <2>2. Ctl(d)'
      BY <1>2, <1>3, <1>4, <2>1 DEF Ctl, Holding, Readable, HasWorkerFields
    <2> QED
      BY <1>1, <1>2, <1>3, <1>4, <1>5, <2>2, UnderClaim
  <1>6. CASE receipt' = receipt /\ pc' = [pc EXCEPT ![d] = "ending"]
    <2>1. pc'[d] = "ending"
      BY <1>1, <1>6 DEF TypeOK
    <2>2. Ctl(d)'
      BY <1>2, <1>3, <1>4, <1>6, <2>1 DEF Ctl, Holding, Readable
    <2> QED
      BY <1>1, <1>2, <1>3, <1>4, <1>6, <2>2, UnderClaim
  <1> QED
    BY <1>5, <1>6 DEF MarkRun, Goto

\* What is launched is already named by the receipt.
LEMMA LaunchStep ==
  ASSUME LInv, NEW d \in Dispatcher, Launch(d)
  PROVE  Kept(d)
  <1>1. /\ TypeOK /\ Ctl(d) /\ pc[d] \in Holding /\ pc[d] \in {"claimed", "marked"}
        /\ d \in Worker => pc[d] = "marked"
    BY DEF LInv, Launch, Holding
  <1>2. /\ cur[d] \in Account /\ lock[cur[d]] = d /\ ~InUse(d, cur[d]) /\ owner[cur[d]] = d
        /\ Readable(cur[d]) /\ (d \in Worker => HasWorkerFields(cur[d]))
    BY <1>1 DEF Ctl, Holding
  <1>3. UNCHANGED <<lock, owner, receipt, cur>>
    BY DEF Launch
  <1>4. Readable(cur[d])' /\ (d \in Worker => HasWorkerFields(cur[d])')
    BY <1>2, <1>3 DEF Readable, HasWorkerFields
  <1>5. ASSUME NEW x \in {"running", "launched"}, d \in Worker => x = "running",
               run' = [run EXCEPT ![d][cur[d]] = "live"], pc' = [pc EXCEPT ![d] = x]
        PROVE  Kept(d)
    <2>1. pc'[d] = x /\ run'[d][cur[d]] = "live"
      BY <1>1, <1>2, <1>5 DEF TypeOK
    <2>2. Ctl(d)'
      BY <1>2, <1>3, <1>4, <1>5, <2>1 DEF Ctl, Holding, Readable, HasWorkerFields
    <2>3. Guarded(d, cur[d])'
      BY <1>2, <1>3, <1>4, <2>1 DEF Guarded, Readable, HasWorkerFields
    <2> QED
      BY <1>1, <1>2, <1>3, <1>5, <2>2, <2>3, UnderClaim
  <1>6. CASE run' = run /\ pc' = [pc EXCEPT ![d] = "ending"]
    <2>1. pc'[d] = "ending"
      BY <1>1, <1>6 DEF TypeOK
    <2>2. ~InUse(d, cur[d])' /\ Guarded(d, cur[d])'
      BY <1>2, <1>3, <1>6 DEF InUse, Guarded
    <2>3. Ctl(d)'
      BY <1>2, <1>3, <1>4, <2>1, <2>2 DEF Ctl, Holding, Readable
    <2> QED
      BY <1>1, <1>2, <1>3, <1>6, <2>2, <2>3, UnderClaim
  <1> QED
    BY <1>5, <1>6 DEF Launch, Goto

\* The dispatcher learns what it runs.
LEMMA NoteProviderStep ==
  ASSUME LInv, NEW d \in Dispatcher, NoteProvider(d)
  PROVE  Kept(d)
  <1>1. /\ TypeOK /\ Ctl(d) /\ pc[d] \in Holding /\ pc[d] = "launched"
        /\ \A a \in Account : Guarded(d, a)
    BY DEF LInv, NoteProvider, Holding
  <1>2. cur[d] \in Account /\ lock[cur[d]] = d /\ owner[cur[d]] = d /\ Readable(cur[d])
    BY <1>1 DEF Ctl, Holding
  <1>3. UNCHANGED <<lock, owner, receipt, cur, run>> /\ pc' = [pc EXCEPT ![d] = "running"]
    BY DEF NoteProvider, Goto
  <1>4. pc'[d] = "running"
    BY <1>1, <1>3 DEF TypeOK
  <1>5. Ctl(d)'
    BY <1>1, <1>2, <1>3, <1>4 DEF Ctl, Holding, Readable, HasWorkerFields
  <1>6. Guarded(d, cur[d])'
    BY <1>1, <1>2, <1>3 DEF Guarded, InUse, Readable, HasWorkerFields
  <1> QED
    BY <1>1, <1>2, <1>3, <1>5, <1>6, UnderClaim

\* After a clean attempt nothing uses the account.
LEMMA AttemptEndsStep ==
  ASSUME LInv, NEW d \in Dispatcher, AttemptEnds(d)
  PROVE  Kept(d)
  <1>1. TypeOK /\ Ctl(d) /\ pc[d] \in Holding /\ pc[d] = "running"
    BY DEF LInv, AttemptEnds, Holding
  <1>2. cur[d] \in Account /\ lock[cur[d]] = d /\ owner[cur[d]] = d /\ Readable(cur[d])
    BY <1>1 DEF Ctl, Holding
  <1>3. UNCHANGED <<lock, owner, receipt, cur>> /\ pc' = [pc EXCEPT ![d] = "classify"]
    BY DEF AttemptEnds, Goto
  <1>4. run' = run \/ run' = [run EXCEPT ![d][cur[d]] = "none"]
    BY DEF AttemptEnds
  <1>5. ~InUse(d, cur[d])'
    <2>1. CASE d \in Worker
      <3>1. run' = [run EXCEPT ![d][cur[d]] = "none"]
        BY <2>1 DEF AttemptEnds
      <3>2. run'[d][cur[d]] = "none"
        BY <1>1, <1>2, <3>1 DEF TypeOK
      <3> QED
        BY <1>3, <3>2 DEF InUse
    <2>2. CASE d \notin Worker
      BY <1>3, <2>2 DEF InUse, AttemptEnds
    <2> QED
      BY <2>1, <2>2
  <1>6. pc'[d] = "classify"
    BY <1>1, <1>3 DEF TypeOK
  <1>7. Ctl(d)'
    BY <1>2, <1>3, <1>5, <1>6 DEF Ctl, Holding, Readable
  <1>8. Guarded(d, cur[d])'
    BY <1>5 DEF Guarded
  <1> QED
    BY <1>1, <1>2, <1>3, <1>4, <1>7, <1>8, UnderClaim

\* After an unclean attempt the mark guards what is left.
LEMMA AttemptUncleanStep ==
  ASSUME LInv, NEW d \in Dispatcher, AttemptUnclean(d)
  PROVE  Kept(d)
  <1>1. TypeOK /\ Ctl(d) /\ Guarded(d, cur[d]) /\ pc[d] \in Holding /\ pc[d] \in {"running", "ending"}
    BY DEF LInv, AttemptUnclean, Holding, Ctl
  <1>2. cur[d] \in Account /\ lock[cur[d]] = d /\ owner[cur[d]] = d /\ Readable(cur[d])
    BY <1>1 DEF Ctl, Holding
  <1>3. UNCHANGED <<lock, owner, cur>>
    BY DEF AttemptUnclean
  <1>4. CASE d \in Worker
    <2>0. PICK left \in {"survivor", "lost"} :
            /\ run' = [run EXCEPT ![d][cur[d]] = IF @ = "live" THEN left ELSE @]
            /\ receipt' = IF left = "lost" THEN receipt ELSE [receipt EXCEPT ![cur[d]] = "unclean"]
            /\ pc' = [pc EXCEPT ![d] = "keeping"]
      BY <1>4 DEF AttemptUnclean, Goto
    <2> DEFINE v == IF run[d][cur[d]] = "live" THEN left ELSE run[d][cur[d]]
    <2>1. run' = [run EXCEPT ![d][cur[d]] = v] /\ pc' = [pc EXCEPT ![d] = "keeping"]
      BY <2>0
    <2>2. pc'[d] = "keeping" /\ run'[d][cur[d]] = v
      BY <1>1, <1>2, <2>1 DEF TypeOK
    <2>3. CASE receipt' = [receipt EXCEPT ![cur[d]] = "unclean"]
      <3>1. receipt'[cur[d]] = "unclean"
        BY <1>1, <1>2, <2>3 DEF TypeOK
      <3>2. Ctl(d)' /\ Guarded(d, cur[d])'
        BY <1>2, <1>3, <1>4, <2>2, <3>1 DEF Ctl, Guarded, Holding, Readable, HasWorkerFields
      <3> HIDE DEF v
      <3> QED
        BY <1>1, <1>2, <1>3, <2>1, <2>3, <3>2, UnderClaim
    <2>4. CASE left = "lost" /\ receipt' = receipt
      <3>1. /\ run'[d][cur[d]] = "live" => FALSE
            /\ run'[d][cur[d]] = "survivor" => run[d][cur[d]] = "survivor"
        BY <2>2, <2>4
      <3>2. Ctl(d)' /\ Guarded(d, cur[d])'
        BY <1>1, <1>2, <1>3, <2>2, <2>4, <3>1 DEF Ctl, Guarded, InUse, Holding, Readable, HasWorkerFields
      <3> HIDE DEF v
      <3> QED
        BY <1>1, <1>2, <1>3, <2>1, <2>4, <3>2, UnderClaim
    <2> QED
      BY <2>0, <2>3, <2>4
  <1>5. CASE d \notin Worker
    <2>1. run' = run /\ receipt' = receipt /\ pc' = [pc EXCEPT ![d] = "ending"]
      BY <1>5 DEF AttemptUnclean, Goto
    <2>2. pc'[d] = "ending" /\ d \notin Hcom
      BY <1>1, <1>5, <2>1 DEF TypeOK, AttemptUnclean
    <2>3. Ctl(d)' /\ Guarded(d, cur[d])'
      BY <1>1, <1>2, <1>3, <1>5, <2>1, <2>2 DEF Ctl, Guarded, InUse, Holding, Readable
    <2> QED
      BY <1>1, <1>2, <1>3, <2>1, <2>3, UnderClaim
  <1> QED
    BY <1>4, <1>5

\* A process that ends keeps the flock while its provider holds a descriptor.
LEMMA ExitStep ==
  ASSUME LInv, NEW d \in Dispatcher, Exited(d), UNCHANGED run,
         \/ UNCHANGED <<owner, receipt>>
         \/ /\ pc[d] = "allocating"
            /\ owner' = [owner EXCEPT ![cur[d]] = d]
            /\ receipt' = [receipt EXCEPT ![cur[d]] = "torn"]
  PROVE  Kept(d)
  <1>1. TypeOK /\ ReceiptNamed /\ Ctl(d) /\ \A b \in Account : Guarded(d, b)
    BY DEF LInv
  <1>2. /\ pc' = [pc EXCEPT ![d] = "dead"] /\ cur' = [cur EXCEPT ![d] = NoOne]
        /\ lock' = [a \in Account |->
             IF lock[a] = d /\ ~(Inherits(d) /\ run[d][a] # "none") THEN NoOne ELSE lock[a]]
    BY DEF Exited, Goto
  <1>3. ASSUME NEW b \in Account
        PROVE  \/ owner'[b] = owner[b] /\ receipt'[b] = receipt[b]
               \/ /\ pc[d] = "allocating" /\ b = cur[d] /\ lock[b] = d
                  /\ \A e \in Dispatcher : ~InUse(e, b)
                  /\ owner'[b] = d
    <2>1. CASE UNCHANGED <<owner, receipt>>
      BY <2>1
    <2>2. CASE pc[d] = "allocating" /\ owner' = [owner EXCEPT ![cur[d]] = d]
               /\ receipt' = [receipt EXCEPT ![cur[d]] = "torn"]
      <3>1. /\ cur[d] \in Account /\ lock[cur[d]] = d
            /\ \A e \in Dispatcher \ {d} : ~InUse(e, cur[d])
        BY <2>2, ClaimIsExclusive DEF Holding
      <3>2. ~InUse(d, cur[d])
        BY <1>1, <2>2 DEF Ctl
      <3> QED
        BY <1>1, <2>2, <3>1, <3>2 DEF TypeOK
    <2> QED
      BY <2>1, <2>2
  <1>4. Spares(d)
    <2>1. \A e \in Dispatcher \ {d} : pc'[e] = pc[e] /\ cur'[e] = cur[e] /\ run'[e] = run[e]
      BY <1>1, <1>2 DEF TypeOK
    <2>2. \A e \in Dispatcher \ {d}, b \in Account : lock[b] = e => lock'[b] = e
      BY <1>2
    <2> QED
      BY <1>3, <2>1, <2>2 DEF Spares
  <1>5. Ctl(d)'
    <2>1. pc'[d] = "dead"
      BY <1>1, <1>2 DEF TypeOK
    <2> QED
      BY <2>1 DEF Ctl, Holding
  <1>6. ASSUME NEW b \in Account PROVE Guarded(d, b)'
    <2>1. CASE InUse(d, b)
      <3>1. owner'[b] = owner[b] /\ receipt'[b] = receipt[b]
        BY <1>3, <2>1
      <3>2. d \notin Worker => lock'[b] = d
        BY <1>1, <1>2, <2>1 DEF Guarded, InUse, Inherits
      <3> QED
        BY <1>1, <2>1, <3>1, <3>2 DEF Guarded, Readable, HasWorkerFields
    <2>2. CASE ~InUse(d, b)
      BY <2>2 DEF Guarded, InUse
    <2> QED
      BY <2>1, <2>2
  <1>7. ReceiptNamed'
    BY <1>1, <1>3 DEF ReceiptNamed
  <1> QED
    BY <1>4, <1>5, <1>6, <1>7 DEF Kept

\* An account is given back when nothing uses it, or with the run lost.
LEMMA ReleaseStep ==
  ASSUME LInv, NEW d \in Dispatcher, pc[d] \in Holding,
         NEW v, v # "live", d \in Worker => v # "survivor",
         \/ run' = [run EXCEPT ![d][cur[d]] = v]
         \/ UNCHANGED run /\ v = run[d][cur[d]],
         ReceiptReleased(cur[d]), lock' = [lock EXCEPT ![cur[d]] = NoOne],
         cur' = [cur EXCEPT ![d] = NoOne],
         NEW x, x \notin Holding, pc' = [pc EXCEPT ![d] = x]
  PROVE  Kept(d)
  <1>1. TypeOK /\ ReceiptNamed /\ \A b \in Account : Guarded(d, b)
    BY DEF LInv
  <1>2. /\ cur[d] \in Account /\ lock[cur[d]] = d
        /\ \A e \in Dispatcher \ {d} : ~InUse(e, cur[d])
    BY ClaimIsExclusive
  <1>0. run'[d][cur[d]] = v /\ \A b \in Account \ {cur[d]} : run'[d][b] = run[d][b]
    BY <1>1, <1>2 DEF TypeOK
  <1>3. /\ \A b \in Account \ {cur[d]} : owner'[b] = owner[b] /\ receipt'[b] = receipt[b]
        /\ receipt'[cur[d]] # "none" => owner'[cur[d]] = owner[cur[d]] /\ receipt'[cur[d]] = receipt[cur[d]]
    BY <1>1, <1>2 DEF ReceiptReleased, Unlinked, TypeOK
  <1>4. Spares(d)
    <2>1. \A e \in Dispatcher \ {d} : pc'[e] = pc[e] /\ cur'[e] = cur[e] /\ run'[e] = run[e]
      BY <1>1, <1>2 DEF TypeOK
    <2>2. \A e \in Dispatcher \ {d}, b \in Account : lock[b] = e => lock'[b] = e /\ b # cur[d]
      BY <1>1, <1>2 DEF TypeOK
    <2> QED
      BY <1>2, <1>3, <2>1, <2>2 DEF Spares
  <1>5. Ctl(d)'
    <2>1. pc'[d] \notin Holding
      BY <1>1 DEF TypeOK
    <2> QED
      BY <2>1 DEF Ctl, Holding
  <1>6. ASSUME NEW b \in Account PROVE Guarded(d, b)'
    <2>1. CASE b = cur[d]
      BY <1>0, <2>1 DEF Guarded, InUse
    <2>2. CASE b # cur[d]
      <3>1. lock'[b] = lock[b] /\ run'[d][b] = run[d][b]
        BY <1>0, <1>1, <2>2 DEF TypeOK
      <3> QED
        BY <1>1, <1>3, <2>2, <3>1 DEF Guarded, InUse, Readable, HasWorkerFields
    <2> QED
      BY <2>1, <2>2
  <1>7. ReceiptNamed'
    BY <1>1, <1>2, <1>3 DEF ReceiptNamed
  <1> QED
    BY <1>4, <1>5, <1>6, <1>7 DEF Kept

\* A run that ends, or leaves a descendant that no sweep is responsible for, takes no guard away.
LEMMA RunEndsStep ==
  ASSUME LInv, NEW d \in Dispatcher, NEW a \in Account, RunEnds(d, a)
  PROVE  Kept(d)
  <1>1. TypeOK /\ ReceiptNamed /\ Ctl(d) /\ \A b \in Account : Guarded(d, b)
    BY DEF LInv
  <1>2. UNCHANGED <<owner, receipt, pc, cur>>
    BY DEF RunEnds
  <1>3. PICK left \in {"none", "survivor"} :
          /\ left = "survivor" => d \notin Worker
          /\ run' = [run EXCEPT ![d][a] = left]
          /\ lock' = [lock EXCEPT ![a] =
               IF @ = d /\ left = "none" /\ pc[d] = "dead" THEN NoOne ELSE @]
    BY DEF RunEnds, Inherits
  <1>4. run'[d][a] = left /\ \A b \in Account \ {a} : run'[d][b] = run[d][b]
    BY <1>1, <1>3 DEF TypeOK
  <1>5. ~InUse(d, a)' /\ \A b \in Account \ {a} : InUse(d, b)' <=> InUse(d, b)
    BY <1>3, <1>4 DEF InUse
  <1>6. /\ \A b \in Account \ {a} : lock'[b] = lock[b]
        /\ lock'[a] # lock[a] => lock[a] = d /\ pc[d] = "dead"
    BY <1>1, <1>3 DEF TypeOK
  <1>7. Spares(d)
    <2>1. \A e \in Dispatcher \ {d} : run'[e] = run[e]
      BY <1>1, <1>3 DEF TypeOK
    <2> QED
      BY <1>2, <1>6, <2>1 DEF Spares
  <1>8. Ctl(d)'
    <2>1. CASE pc[d] \in Holding
      <3>1. cur[d] \in Account /\ lock'[cur[d]] = lock[cur[d]]
        BY <1>1, <1>6, <2>1 DEF Ctl, Holding
      <3>2. InUse(d, cur[d])' => InUse(d, cur[d])
        <4>1. ASSUME NEW b \in Account PROVE InUse(d, b)' => InUse(d, b)
          BY <1>5
        <4> QED
          BY <1>2, <3>1, <4>1 DEF InUse
      <3> QED
        BY <1>1, <1>2, <2>1, <3>1, <3>2 DEF Ctl, Readable, HasWorkerFields
    <2>2. CASE pc[d] \notin Holding
      BY <1>2, <2>2 DEF Ctl, Holding
    <2> QED
      BY <2>1, <2>2
  <1>9. ASSUME NEW b \in Account PROVE Guarded(d, b)'
    <2>1. CASE b = a
      BY <1>5, <2>1 DEF Guarded
    <2>2. CASE b # a
      <3>1. lock'[b] = lock[b] /\ run'[d][b] = run[d][b]
        BY <1>4, <1>6, <2>2
      <3> QED
        BY <1>1, <1>2, <3>1 DEF Guarded, InUse, Readable, HasWorkerFields
    <2> QED
      BY <2>1, <2>2
  <1>10. ReceiptNamed'
    BY <1>1, <1>2 DEF ReceiptNamed
  <1> QED
    BY <1>7, <1>8, <1>9, <1>10 DEF Kept

(***************************************************************************)
(* A receipt removed by a reaper or a reconciler: the flock is free, and a *)
(* marked run is proven gone.                                              *)
(***************************************************************************)
LEMMA RemovalStep ==
  ASSUME LInv, NEW a \in Account, lock[a] = NoOne, Readable(a),
         IF HasWorkerFields(a) THEN RunGone(a) ELSE UNCHANGED run,
         Unlinked(a), UNCHANGED <<lock, cur>>,
         \A e \in Dispatcher : pc'[e] = pc[e] \/ pc'[e] \notin Holding
  PROVE  /\ \A e \in Dispatcher : Ctl(e)'
         /\ \A e \in Dispatcher, b \in Account : Guarded(e, b)'
         /\ ReceiptNamed'
  <1>1. /\ TypeOK /\ ReceiptNamed /\ \A e \in Dispatcher : Ctl(e)
        /\ \A e \in Dispatcher, b \in Account : Guarded(e, b)
    BY DEF LInv
  <1>2. /\ \A b \in Account \ {a} : owner'[b] = owner[b] /\ receipt'[b] = receipt[b]
        /\ receipt'[a] = "none"
    BY <1>1 DEF Unlinked, TypeOK
  <1>3. owner[a] \in Dispatcher
    BY <1>1 DEF ReceiptNamed, Readable
  <1>4. \A e \in Dispatcher, b \in Account : b # a => run'[e][b] = run[e][b]
    <2>1. CASE HasWorkerFields(a) /\ receipt[a] # "unclean"
      <3> DEFINE v == IF run[owner[a]][a] = "live" THEN "none" ELSE run[owner[a]][a]
      <3>1. run' = [run EXCEPT ![owner[a]][a] = v]
        BY <2>1 DEF RunGone
      <3> HIDE DEF v
      <3> QED
        BY <1>1, <1>3, <3>1 DEF TypeOK
    <2>2. CASE ~(HasWorkerFields(a) /\ receipt[a] # "unclean")
      BY <2>2 DEF RunGone
    <2> QED
      BY <2>1, <2>2
  <1>5. ASSUME NEW e \in Dispatcher PROVE ~InUse(e, a)'
    <2>1. InUse(e, a) => /\ e \in Worker /\ owner[a] = e /\ HasWorkerFields(a)
                         /\ run[e][a] = "survivor" => receipt[a] = "unclean"
      BY <1>1, AccountLeasesAssumption DEF Guarded
    <2>2. CASE HasWorkerFields(a) /\ receipt[a] = "unclean"
      <3>1. run' = run /\ \A w \in Worker, b \in Account : run[w][b] = "none"
        BY <2>2 DEF RunGone
      <3>2. InUse(e, a)' <=> InUse(e, a)
        BY <3>1 DEF InUse
      <3> QED
        BY <2>1, <3>1, <3>2 DEF InUse
    <2>3. CASE HasWorkerFields(a) /\ receipt[a] # "unclean"
      <3> DEFINE v == IF run[owner[a]][a] = "live" THEN "none" ELSE run[owner[a]][a]
      <3>1. run' = [run EXCEPT ![owner[a]][a] = v]
        BY <2>3 DEF RunGone
      <3>2. run'[owner[a]][a] = v
        BY <1>1, <1>3, <3>1 DEF TypeOK
      <3>3. CASE e = owner[a]
        <4>2. CASE run[e][a] \in {"survivor", "lost"}
          <5>1. ~InUse(e, a) /\ run'[e][a] = run[e][a]
            BY <2>1, <2>3, <3>2, <3>3, <4>2 DEF InUse
          <5> QED
            BY <5>1 DEF InUse
        <4>3. CASE run[e][a] \notin {"survivor", "lost"}
          <5>1. run'[e][a] = "none"
            BY <1>1, <3>2, <3>3, <4>3 DEF TypeOK
          <5> QED
            BY <5>1 DEF InUse
        <4> QED
          BY <4>2, <4>3
      <3>4. CASE e # owner[a]
        <4>1. run'[e] = run[e]
          BY <1>1, <1>3, <3>1, <3>4 DEF TypeOK
        <4>2. InUse(e, a)' <=> InUse(e, a)
          BY <4>1 DEF InUse
        <4> QED
          BY <2>1, <3>4, <4>2
      <3> QED
        BY <3>3, <3>4
    <2>4. CASE ~HasWorkerFields(a)
      <3>1. InUse(e, a)' <=> InUse(e, a)
        BY <2>4 DEF InUse
      <3> QED
        BY <2>1, <2>4, <3>1
    <2> QED
      BY <2>2, <2>3, <2>4
  <1>6. ASSUME NEW e \in Dispatcher PROVE Ctl(e)'
    <2>1. CASE pc'[e] \in Holding
      <3>1. pc'[e] = pc[e]
        BY <2>1
      <3>2. cur[e] \in Account /\ lock[cur[e]] = e /\ cur[e] # a
        BY <1>1, <2>1, <3>1, AccountLeasesAssumption DEF Ctl
      <3>3. InUse(e, cur[e])' <=> InUse(e, cur[e])
        BY <1>4, <3>2 DEF InUse
      <3> QED
        BY <1>1, <1>2, <3>1, <3>2, <3>3 DEF Ctl, Readable, HasWorkerFields
    <2>2. CASE pc'[e] \notin Holding
      BY <2>2 DEF Ctl, Holding
    <2> QED
      BY <2>1, <2>2
  <1>7. ASSUME NEW e \in Dispatcher, NEW b \in Account PROVE Guarded(e, b)'
    <2>1. CASE b = a
      BY <1>5, <2>1 DEF Guarded
    <2>2. CASE b # a
      BY <1>1, <1>2, <1>4, <2>2 DEF Guarded, InUse, Readable, HasWorkerFields
    <2> QED
      BY <2>1, <2>2
  <1>8. ReceiptNamed'
    BY <1>1, <1>2 DEF ReceiptNamed
  <1> QED
    BY <1>6, <1>7, <1>8

\* A step that is none of these leaves claims, receipts and runs alone.
LEMMA IdleStep ==
  ASSUME LInv, UNCHANGED <<lock, owner, receipt, pc, cur, run>>
  PROVE  /\ \A e \in Dispatcher : Ctl(e)'
         /\ \A e \in Dispatcher, b \in Account : Guarded(e, b)'
         /\ ReceiptNamed'
  BY DEF LInv, Ctl, Guarded, InUse, Readable, HasWorkerFields, ReceiptNamed

\* The invariant is inductive.
LEMMA InvStep ==
  ASSUME LInv, [Next]_vars
  PROVE  LInv'
  <1> DEFINE Rest == /\ \A e \in Dispatcher : Ctl(e)
                     /\ \A e \in Dispatcher, b \in Account : Guarded(e, b)
                     /\ ReceiptNamed
  <1>1. TypeOK'
    BY TypeStep
  <1>2. ASSUME NEW d \in Dispatcher, Kept(d) PROVE Rest'
    <2>1. ASSUME NEW e \in Dispatcher PROVE Ctl(e)' /\ \A b \in Account : Guarded(e, b)'
      <3>1. CASE e = d
        BY <1>2, <3>1 DEF Kept
      <3>2. CASE e # d
        BY <1>2, <3>2, OthersKept DEF Kept
      <3> QED
        BY <3>1, <3>2
    <2> QED
      BY <1>2, <2>1 DEF Kept
  <1>3. ASSUME NEW d \in Dispatcher, NEW a \in Account, Claim(d, a) PROVE Rest'
    BY <1>2, <1>3, ClaimStep
  <1>4. ASSUME NEW d \in Dispatcher, WriteReceipt(d) PROVE Rest'
    BY <1>2, <1>4, WriteReceiptStep
  <1>5. ASSUME NEW d \in Dispatcher, NothingFree(d) PROVE Rest'
    <2>1. "reaping" \notin Holding /\ pc' = [pc EXCEPT ![d] = "reaping"]
          /\ UNCHANGED <<lock, owner, receipt, cur, run>>
      BY <1>5 DEF NothingFree, Goto, Holding
    <2> QED
      BY <1>2, <2>1, QuietStep
  <1>6. ASSUME NEW d \in Dispatcher, WaitForAccount(d) PROVE Rest'
    <2>1. "claiming" \notin Holding /\ pc' = [pc EXCEPT ![d] = "claiming"]
          /\ UNCHANGED <<lock, owner, receipt, cur, run>>
      BY <1>6 DEF WaitForAccount, Goto, Holding
    <2> QED
      BY <1>2, <2>1, QuietStep
  <1>7. ASSUME NEW d \in Dispatcher, NEW a \in Account, NEW o \in Dispatcher, Reap(d, a, o) PROVE Rest'
    <2>1. /\ lock[a] = NoOne /\ Readable(a) /\ HasWorkerFields(a) /\ RunGone(a) /\ Unlinked(a)
          /\ UNCHANGED <<lock, cur>> /\ pc' = [pc EXCEPT ![d] = "claiming"]
      BY <1>7 DEF Reap, StillDeferred, Orphaned, Goto
    <2>2. \A e \in Dispatcher : pc'[e] = pc[e] \/ pc'[e] \notin Holding
      <3>1. pc \in [Dispatcher -> Phases]
        BY DEF LInv, TypeOK
      <3> QED
        BY <2>1, <3>1 DEF Holding
    <2> QED
      BY <2>1, <2>2, RemovalStep
  <1>8. ASSUME NEW a \in Account, NEW o \in Dispatcher, Reconcile(a, o) PROVE Rest'
    <2>1. /\ lock[a] = NoOne /\ Readable(a) /\ Unlinked(a) /\ UNCHANGED <<lock, cur, pc>>
          /\ IF HasWorkerFields(a) THEN RunGone(a) ELSE UNCHANGED run
      BY <1>8 DEF Reconcile
    <2> QED
      BY <2>1, RemovalStep
  <1>9. ASSUME \/ \E d \in Dispatcher, a \in Account, o \in Dispatcher : ReapSkipped(d, a, o)
               \/ \E a \in Account : Recover(a)
               \/ UNCHANGED vars
        PROVE  Rest'
    <2>1. UNCHANGED <<lock, owner, receipt, pc, cur, run>>
      BY <1>9 DEF ReapSkipped, Recover, vars
    <2> QED
      BY <2>1, IdleStep
  <1>10. ASSUME NEW d \in Dispatcher, GiveUp(d) \/ Die(d) PROVE Rest'
    BY <1>2, <1>10, ExitStep DEF GiveUp, Die
  <1>11. ASSUME NEW d \in Dispatcher, ReleaseAndExit(d), pc[d] \in Holding,
                NEW v, v # "live", d \in Worker => v # "survivor",
                \/ run' = [run EXCEPT ![d][cur[d]] = v]
                \/ UNCHANGED run /\ v = run[d][cur[d]]
         PROVE  Rest'
    <2>1. "dead" \notin Holding /\ pc' = [pc EXCEPT ![d] = "dead"]
          /\ ReceiptReleased(cur[d]) /\ lock' = [lock EXCEPT ![cur[d]] = NoOne]
          /\ cur' = [cur EXCEPT ![d] = NoOne]
      BY <1>11 DEF ReleaseAndExit, Goto, Holding
    <2> QED
      BY <1>2, <1>11, <2>1, ReleaseStep
  <1>12. ASSUME NEW d \in Dispatcher, Failover(d) PROVE Rest'
    <2>1. "claiming" \notin Holding /\ pc' = [pc EXCEPT ![d] = "claiming"] /\ UNCHANGED run
          /\ ReceiptReleased(cur[d]) /\ lock' = [lock EXCEPT ![cur[d]] = NoOne]
          /\ cur' = [cur EXCEPT ![d] = NoOne] /\ pc[d] \in {"claimed", "classify"}
      BY <1>12 DEF Failover, Goto, Holding
    <2>2. pc[d] \in Holding /\ run[d][cur[d]] # "live" /\ (d \in Worker => run[d][cur[d]] # "survivor")
      BY <2>1 DEF LInv, Ctl, Holding, InUse
    <2> QED
      BY <1>2, <2>1, <2>2, ReleaseStep
  <1>13. ASSUME NEW d \in Dispatcher,
                MarkRun(d) \/ Launch(d) \/ NoteProvider(d) \/ AttemptEnds(d) \/ AttemptUnclean(d)
         PROVE  Rest'
    BY <1>2, <1>13, MarkRunStep, LaunchStep, NoteProviderStep, AttemptEndsStep, AttemptUncleanStep
  <1>18. ASSUME NEW d \in Dispatcher, LaunchInterrupted(d) PROVE Rest'
    <2> DEFINE v == IF run[d][cur[d]] = "live" THEN "lost" ELSE run[d][cur[d]]
    <2>1. /\ run' = [run EXCEPT ![d][cur[d]] = v] /\ v # "live"
          /\ ReleaseAndExit(d) /\ pc[d] \in Holding /\ pc[d] = "launched"
      BY <1>18 DEF LaunchInterrupted, Holding
    <2>2. d \in Worker => v # "survivor"
      BY <2>1 DEF LInv, Ctl
    <2> HIDE DEF v
    <2> QED
      BY <1>11, <2>1, <2>2
  <1>14. ASSUME NEW d \in Dispatcher, NEW a \in Account, RunEnds(d, a) PROVE Rest'
    BY <1>2, <1>14, RunEndsStep
  <1>15. ASSUME NEW d \in Dispatcher, Finish(d) PROVE Rest'
    <2>1. CASE /\ pc[d] \in {"claimed", "classify", "ending"}
               /\ run[d][cur[d]] # "live"
               /\ ReleaseAndExit(d) /\ UNCHANGED run
      <3>1. Ctl(d)
        BY DEF LInv
      <3>2. run[d][cur[d]] # "live" /\ (d \in Worker => run[d][cur[d]] # "survivor")
        BY <2>1, <3>1 DEF Ctl, InUse
      <3> QED
        BY <1>11, <2>1, <3>2 DEF Holding
    <2>2. CASE Exited(d) /\ UNCHANGED <<owner, receipt, usable, run>>
      BY <1>2, <2>2, ExitStep
    <2> QED
      BY <1>15, <2>1, <2>2 DEF Finish
  <1>16. ASSUME NEW d \in Dispatcher, HcomEnds(d) PROVE Rest'
    <2>1. CASE /\ pc[d] \in {"claimed", "ending"} \/ (pc[d] = "running" /\ run[d][cur[d]] # "live")
               /\ ReleaseAndExit(d) /\ UNCHANGED run
      <3>1. Ctl(d) /\ d \in Hcom /\ d \notin Worker
        BY <1>16, AccountLeasesAssumption DEF LInv, HcomEnds
      <3>2. run[d][cur[d]] # "live"
        BY <2>1, <3>1 DEF Ctl, InUse
      <3> QED
        BY <1>11, <2>1, <3>1, <3>2 DEF Holding
    <2>2. CASE Exited(d) /\ UNCHANGED <<owner, receipt, usable, run>>
      BY <1>2, <2>2, ExitStep
    <2> QED
      BY <1>16, <2>1, <2>2 DEF HcomEnds
  <1>17. Rest'
    BY <1>3, <1>4, <1>5, <1>6, <1>7, <1>8, <1>9, <1>10, <1>12, <1>13, <1>14, <1>15, <1>16, <1>18
       DEF Next, Claims, Reaps, Skips
  <1> QED
    BY <1>1, <1>17 DEF LInv

\* Initially nothing is claimed and nothing runs.
LEMMA InitInv ==
  ASSUME Init
  PROVE  LInv
  <1>1. TypeOK
    BY DEF Init, TypeOK, Phases
  <1>2. ReceiptNamed
    BY DEF Init, ReceiptNamed
  <1>3. \A d \in Dispatcher : Ctl(d)
    BY DEF Init, Ctl, Holding
  <1>4. \A d \in Dispatcher, a \in Account : Guarded(d, a)
    BY DEF Init, Guarded, InUse
  <1> QED
    BY <1>1, <1>2, <1>3, <1>4 DEF LInv

-----------------------------------------------------------------------------
(***************************************************************************)
(* The theorems.                                                           *)
(***************************************************************************)
\* The inductive invariant holds throughout.
LEMMA InvHolds == Spec => []LInv
  <1>1. Init => LInv
    BY InitInv
  <1>2. LInv /\ [Next]_vars => LInv'
    BY InvStep
  <1> QED
    BY <1>1, <1>2, PTL DEF Spec

(***************************************************************************)
(* acquire_claim, release, retire_failed_claim and the reapers keep the    *)
(* lock table, the receipts and every dispatcher's claim well formed: no   *)
(* path excludes, releases or runs on an account that is not there.        *)
(***************************************************************************)
THEOREM TypeCorrect == Spec => []TypeOK
  <1>1. LInv => TypeOK
    BY DEF LInv
  <1> QED
    BY <1>1, InvHolds, PTL

(***************************************************************************)
(* mark_worker_run before the launch: whatever uses an account is named by *)
(* the receipt on disk, through every crash, release, reap and             *)
(* reconciliation, for any number of accounts and dispatchers.  A run lost *)
(* by its dispatcher, in the window of the launch or with its unclean mark *)
(* not written, is excepted: no receipt names it.                          *)
(***************************************************************************)
THEOREM ReceiptsNameTheirRuns == Spec => []EvidenceBeforeEffect
  <1>1. LInv => EvidenceBeforeEffect
    BY DEF LInv, Guarded, EvidenceBeforeEffect
  <1> QED
    BY <1>1, InvHolds, PTL

(***************************************************************************)
(* acquire_claim: a free lock and a receipt that is absent or orphaned     *)
(* prove that no run but a lost one is on the account, so no two runs      *)
(* share one unless its dispatcher lost one of them.                       *)
(***************************************************************************)
THEOREM RunsDoNotShareAccounts == Spec => []OneRunPerAccount
  <1>1. LInv => OneRunPerAccount
    BY DEF LInv, Guarded, OneRunPerAccount
  <1> QED
    BY <1>1, InvHolds, PTL

(***************************************************************************)
(* The mark of the dispatcher ("always marked") is what keeps the account  *)
(* of an unclean worker run closed: where it was written, no claimer,      *)
(* reaper or reconciler gets past what such a run left.                    *)
(***************************************************************************)
THEOREM MarkedRunsKeepAccounts == Spec => []UncleanRunKeepsAccount
  <1>1. LInv => UncleanRunKeepsAccount
    <2>1. Worker \subseteq Dispatcher
      BY AccountLeasesAssumption
    <2> QED
      BY <2>1 DEF LInv, Guarded, InUse, UncleanRunKeepsAccount
  <1> QED
    BY <1>1, InvHolds, PTL

=============================================================================
