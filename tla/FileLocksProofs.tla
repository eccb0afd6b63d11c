---------------------------- MODULE FileLocksProofs ----------------------------
(***************************************************************************)
(* Proofs about FileLocks, for any actors, files, TTLs and bound on the    *)
(* clock.                                                                  *)
(*                                                                         *)
(* NoTwoHolders is not inductive.  The invariant ties the time at which an *)
(* actor was granted a file to the acquired_at the next taker will judge   *)
(* by: as long as a granted lock is still its actor's, the two are equal;  *)
(* otherwise the lock was taken over, and was overdue then.  The nested    *)
(* lock needs one fact more: an inner acquire that took the target anew    *)
(* (and will therefore free it) found the outer lock already lost.         *)
(***************************************************************************)
EXTENDS FileLocks, TLAPS

-----------------------------------------------------------------------------
\* Where an actor can be in its program.
Control ==
  \A a \in Actor :
    /\ pc[a] = "dead" => ~outer[a]
    /\ pc[a] \in {"idle", "sweep_outer", "try_outer"} => ~outer[a]
    /\ pc[a] = "try_outer" => keys[a] = {Target[a]}
    /\ pc[a] = "sweep_outer" => keys[a] = {Target[a]}
    /\ pc[a] = "writing" => newKeys[a] \subseteq keys[a]
    /\ pc[a] = "working" => outer[a]

NowIsPast == \A a \in Actor : now[a] <= clock

\* A lock of a on f granted at t is still held since then, or it is overdue.
HeldSince(a, f, t) == (locks[f] = a /\ acquiredAt[f] = t) \/ Overdue(a, t)

(***************************************************************************)
(* What an actor was granted it holds since its grant, or it is overdue;   *)
(* an inner acquire takes the target anew only when the outer lock is lost.*)
(***************************************************************************)
Granted(a) ==
  disk = "intact" =>
    /\ \A f \in File : pc[a] = "writing" /\ f \in keys[a] => HeldSince(a, f, since[a][f])
    /\ outer[a] => HeldSince(a, Target[a], outerSince[a])
    /\ pc[a] = "writing" /\ outer[a] /\ Target[a] \in newKeys[a] => Overdue(a, outerSince[a])

Inv == TypeOK /\ Control /\ NowIsPast /\ \A a \in Actor : Granted(a)

\* The locks of seams that were dead before a sweep are still ahead of it.
SweepCovers ==
  \A a \in Seam :
    /\ deadBefore[a] \subseteq Dead
    /\ pc[a] \in {"sweep_outer", "sweep_inner", "try_outer", "try_inner"} =>
         \A f \in File : Loaded[f] \in Seam \cap deadBefore[a] => Loaded[f] \in toSweep[a]
    /\ pc[a] \in {"try_outer", "try_inner"} => toSweep[a] = {}
-----------------------------------------------------------------------------
(***************************************************************************)
(* What the registry operations do to the file.                            *)
(***************************************************************************)
\* The registry file keeps its type through a release.
LEMMA ReleaseTypes ==
  ASSUME TypeOK, NEW h, NEW ks \in SUBSET File, Release(h, ks)
  PROVE  /\ locks' \in [File -> Actor \cup {NoOne}]
         /\ acquiredAt' \in [File -> Time]
         /\ disk' \in {"intact", "unreadable", "rewritten"}
  <1>1. /\ \A f \in File : Loaded[f] \in Actor \cup {NoOne} /\ LoadedAt[f] \in Time
        /\ 0 \in Time
    BY FileLocksAssumption DEF TypeOK, Loaded, LoadedAt, Time
  <1>2. CASE UNCHANGED registry
    BY <1>2 DEF TypeOK, registry
  <1>3. CASE ~UNCHANGED registry
    BY <1>1, <1>3 DEF Release, SavedDisk
  <1> QED
    BY <1>2, <1>3

\* The registry file keeps its type through an acquire.
LEMMA AcquireTypes ==
  ASSUME TypeOK, NEW a \in Actor, NEW ks \in SUBSET File, AcquireAll(a, ks)
  PROVE  /\ locks' \in [File -> Actor \cup {NoOne}]
         /\ acquiredAt' \in [File -> Time]
         /\ disk' \in {"intact", "unreadable", "rewritten"}
  BY FileLocksAssumption DEF TypeOK, AcquireAll, Loaded, LoadedAt, SavedDisk, NewlyAcquired, Time

\* release and release_files free locks of their holder only.
LEMMA ReleaseFrame ==
  ASSUME TypeOK, NEW h, NEW ks \in SUBSET File, Release(h, ks), disk' = "intact"
  PROVE  /\ disk = "intact"
         /\ \A f \in File : f \notin ks \/ locks[f] # h =>
              locks'[f] = locks[f] /\ acquiredAt'[f] = acquiredAt[f]
         /\ \A f \in File : locks'[f] # locks[f] => locks'[f] = NoOne
  BY DEF TypeOK, Release, registry, Loaded, LoadedAt, SavedDisk

\* acquire_detailed touches the requested keys only, and takes over overdue locks only.
LEMMA AcquireFrame ==
  ASSUME TypeOK, NEW a \in Actor, NEW ks \in SUBSET File, AcquireAll(a, ks),
         Conflicts(a, ks) = {}, disk' = "intact"
  PROVE  /\ disk = "intact"
         /\ \A f \in File \ ks : locks'[f] = locks[f] /\ acquiredAt'[f] = acquiredAt[f]
         /\ \A f \in ks : /\ locks'[f] = a
                          /\ locks[f] = a => acquiredAt'[f] = acquiredAt[f]
                          /\ locks[f] \notin {NoOne, a} =>
                               TTL[a] # Never /\ now[a] - acquiredAt[f] > TTL[a]
  <1>1. disk = "intact"
    BY DEF TypeOK, AcquireAll, SavedDisk
  <1>2. \A f \in File : Loaded[f] = locks[f] /\ LoadedAt[f] = acquiredAt[f]
    BY <1>1 DEF Loaded, LoadedAt
  <1>3. \A f \in ks : locks[f] \notin {NoOne, a} =>
                        TTL[a] # Never /\ now[a] - acquiredAt[f] > TTL[a]
    BY <1>2 DEF Conflicts, Stale
  <1> QED
    BY <1>1, <1>2, <1>3 DEF AcquireAll, NewlyAcquired

(***************************************************************************)
(* A lock held since its grant stays so, or becomes overdue, whatever the  *)
(* others do to the registry.                                              *)
(***************************************************************************)
KeepsHolds(a) ==
  disk' = "intact" =>
    /\ disk = "intact"
    /\ \A f \in File, t \in Time : HeldSince(a, f, t) => HeldSince(a, f, t)'
    /\ \A t \in Time : Overdue(a, t) => Overdue(a, t)'

\* A step that leaves the registry and the clock alone.
LEMMA KeptAtRest ==
  ASSUME UNCHANGED registry, clock' = clock, NEW a \in Actor
  PROVE  KeepsHolds(a)
  BY DEF KeepsHolds, HeldSince, Overdue, registry

\* A release of another holder leaves a's locks alone.
LEMMA KeptThroughRelease ==
  ASSUME TypeOK, NEW h, NEW ks \in SUBSET File, Release(h, ks), clock' = clock,
         NEW a \in Actor, a # h
  PROVE  KeepsHolds(a)
  BY ReleaseFrame DEF KeepsHolds, HeldSince, Overdue

\* An acquire of anybody leaves a's locks alone, or takes over an overdue one.
LEMMA KeptThroughAcquire ==
  ASSUME TypeOK, NowIsPast, NEW b \in Actor, NEW ks \in SUBSET File, AcquireAll(b, ks),
         Conflicts(b, ks) = {}, clock' = clock, NEW a \in Actor
  PROVE  KeepsHolds(a)
  <1> SUFFICES ASSUME disk' = "intact" PROVE KeepsHolds(a)
    BY DEF KeepsHolds
  <1>1. ASSUME NEW t \in Time, Overdue(a, t) PROVE Overdue(a, t)'
    BY <1>1 DEF Overdue
  <1>2. ASSUME NEW f \in File, NEW t \in Time, HeldSince(a, f, t) PROVE HeldSince(a, f, t)'
    <2>1. CASE Overdue(a, t)
      BY <2>1, <1>1 DEF HeldSince
    <2>2. CASE locks[f] = a /\ acquiredAt[f] = t /\ (f \notin ks \/ a = b)
      BY <2>2, AcquireFrame DEF HeldSince
    <2>3. CASE locks[f] = a /\ acquiredAt[f] = t /\ f \in ks /\ a # b
      <3>1. TTL[b] # Never /\ now[b] - acquiredAt[f] > TTL[b]
        BY <2>3, AcquireFrame, FileLocksAssumption
      <3>2. now[b] \in Int /\ clock \in Int /\ now[b] <= clock /\ TTL[b] \in Int /\ t \in Int
        BY FileLocksAssumption DEF TypeOK, NowIsPast, Time, Never
      <3>3. clock' - t > TTL[b]
        BY <2>3, <3>1, <3>2
      <3> QED
        BY <2>3, <3>1, <3>3 DEF HeldSince, Overdue
    <2> QED
      BY <1>2, <2>1, <2>2, <2>3 DEF HeldSince
  <1>3. disk = "intact"
    BY AcquireFrame
  <1> QED
    BY <1>1, <1>2, <1>3 DEF KeepsHolds

\* Time passes: a lock only gets older.
LEMMA KeptThroughTick ==
  ASSUME TypeOK, Tick, NEW a \in Actor
  PROVE  KeepsHolds(a)
  <1>1. clock \in Int /\ clock' = clock + 1 /\ \A b \in Actor : TTL[b] \in Int
    BY FileLocksAssumption DEF TypeOK, Tick, Time, Never
  <1>2. ASSUME NEW t \in Time, Overdue(a, t) PROVE Overdue(a, t)'
    BY <1>1, <1>2 DEF Overdue, Time
  <1> QED
    BY <1>2 DEF KeepsHolds, HeldSince, Tick, registry

-----------------------------------------------------------------------------
(***************************************************************************)
(* Type correctness.                                                       *)
(***************************************************************************)
\* A function updated with a value of its range stays of its type.
LEMMA Updated ==
  ASSUME NEW D, NEW S, NEW g \in [D -> S], NEW d, NEW v \in S
  PROVE  [g EXCEPT ![d] = v] \in [D -> S]
  OBVIOUS

\* Every step keeps the type invariant.
LEMMA TypeStep ==
  ASSUME TypeOK, [Next]_vars
  PROVE  TypeOK'
  <1> USE FileLocksAssumption
  <1>0. 0 \in Time /\ clock \in Time /\ Dead \subseteq Actor
    BY DEF TypeOK, Time, Dead
  <1>1. ASSUME NEW a \in Actor, BeginOuter(a) \/ BeginInner(a) PROVE TypeOK'
    <2>1. /\ {Target[a]} \in SUBSET File /\ HoldKeys(a) \in SUBSET File
          /\ {h \in Seam \ {a} : \E f \in File : Loaded[f] = h} \in SUBSET Actor
      BY DEF HoldKeys
    <2>2. pc' \in [Actor -> Phases]
      BY <1>1 DEF TypeOK, Phases, BeginOuter, BeginInner
    <2>3. keys' \in [Actor -> SUBSET File]
      <3>1. PICK K \in SUBSET File : keys' = [keys EXCEPT ![a] = K]
        BY <1>1, <2>1 DEF BeginOuter, BeginInner
      <3>2. keys \in [Actor -> SUBSET File]
        BY DEF TypeOK
      <3> QED
        BY <3>1, <3>2, Updated, Zenon
    <2>4. toSweep' \in [Actor -> SUBSET Actor] /\ deadBefore' \in [Actor -> SUBSET Actor]
      <3>1. BeginSweep(a) /\ Dead \in SUBSET Actor
        BY <1>1, <1>0 DEF BeginOuter, BeginInner
      <3> QED
        BY <3>1, <2>1, Updated, Zenon DEF TypeOK, BeginSweep
    <2> QED
      BY <1>1, <2>2, <2>3, <2>4 DEF TypeOK, BeginOuter, BeginInner, BeginSweep, registry
  <1>2. ASSUME NEW a \in Actor, BeginTask(a) \/ ReadClock(a) PROVE TypeOK'
    <2>1. pc' \in [Actor -> Phases]
      BY <1>2 DEF TypeOK, Phases, BeginTask, ReadClock
    <2>2. now' \in [Actor -> Time] /\ keys' \in [Actor -> SUBSET File]
      <3>1. {Target[a]} \in SUBSET File
        OBVIOUS
      <3>2. keys \in [Actor -> SUBSET File] /\ now \in [Actor -> Time]
        BY DEF TypeOK
      <3>3. /\ now' = [now EXCEPT ![a] = clock]
            /\ keys' = keys \/ keys' = [keys EXCEPT ![a] = {Target[a]}]
        BY <1>2 DEF BeginTask, ReadClock
      <3>4. now' \in [Actor -> Time]
        BY <1>0, <3>2, <3>3, Updated, Zenon
      <3>5. CASE keys' = keys
        BY <3>2, <3>4, <3>5
      <3>6. CASE keys' = [keys EXCEPT ![a] = {Target[a]}]
        BY <3>1, <3>2, <3>4, <3>6, Updated, Zenon
      <3> QED
        BY <3>3, <3>5, <3>6
    <2> QED
      BY <1>2, <2>1, <2>2 DEF TypeOK, BeginTask, ReadClock, registry, observers
  <1>3. ASSUME NEW a \in Actor, NEW h \in Actor, SweepOne(a, h) PROVE TypeOK'
    <2>1. Release(h, File) \/ UNCHANGED registry
      BY <1>3 DEF SweepOne
    <2>2. /\ locks' \in [File -> Actor \cup {NoOne}]
          /\ acquiredAt' \in [File -> Time]
          /\ disk' \in {"intact", "unreadable", "rewritten"}
      BY <2>1, ReleaseTypes DEF TypeOK, registry
    <2> QED
      BY <1>3, <2>2 DEF TypeOK, SweepOne, observers
  <1>3a. ASSUME NEW a \in Actor, SweepFails(a) PROVE TypeOK'
    <2>1. toSweep' \in [Actor -> SUBSET Actor] /\ deadBefore' \in [Actor -> SUBSET Actor]
      <3>1. {} \in SUBSET Actor
        OBVIOUS
      <3> QED
        BY <1>3a, <3>1, Updated, Zenon DEF TypeOK, SweepFails
    <2> QED
      BY <1>3a, <2>1 DEF TypeOK, SweepFails, registry
  <1>4. ASSUME NEW a \in Actor, AcquireOuter(a) PROVE TypeOK'
    <2>1. keys[a] \in SUBSET File /\ Target[a] \in File
      BY DEF TypeOK
    <2>2. /\ locks' \in [File -> Actor \cup {NoOne}]
          /\ acquiredAt' \in [File -> Time]
          /\ disk' \in {"intact", "unreadable", "rewritten"}
      BY <1>4, <2>1, AcquireTypes DEF AcquireOuter
    <2> QED
      BY <1>4, <1>0, <2>1, <2>2 DEF TypeOK, Phases, AcquireOuter, EndAttempt
  <1>5. ASSUME NEW a \in Actor, AcquireInner(a) PROVE TypeOK'
    <2>1. keys[a] \in SUBSET File /\ NewlyAcquired(a, keys[a]) \in SUBSET File
      BY DEF TypeOK, NewlyAcquired
    <2>2. /\ locks' \in [File -> Actor \cup {NoOne}]
          /\ acquiredAt' \in [File -> Time]
          /\ disk' \in {"intact", "unreadable", "rewritten"}
      BY <1>5, <2>1, AcquireTypes DEF AcquireInner
    <2> QED
      BY <1>5, <1>0, <2>1, <2>2 DEF TypeOK, Phases, AcquireInner
  <1>6. ASSUME NEW a \in Actor, Refused(a) PROVE TypeOK'
    BY <1>6, <1>0 DEF TypeOK, Phases, Refused, Resting, EndAttempt, registry
  <1>7. ASSUME NEW a \in Actor, EndWrite(a) PROVE TypeOK'
    <2>1. /\ locks' \in [File -> Actor \cup {NoOne}]
          /\ acquiredAt' \in [File -> Time]
          /\ disk' \in {"intact", "unreadable", "rewritten"}
      BY <1>7, ReleaseTypes DEF EndWrite, TypeOK
    <2> QED
      BY <1>7, <1>0, <2>1 DEF TypeOK, Phases, EndWrite, Resting, EndAttempt
  <1>8. ASSUME NEW a \in Actor, EndTask(a) PROVE TypeOK'
    <2>1. /\ locks' \in [File -> Actor \cup {NoOne}]
          /\ acquiredAt' \in [File -> Time]
          /\ disk' \in {"intact", "unreadable", "rewritten"}
      BY <1>8, ReleaseTypes DEF EndTask
    <2> QED
      BY <1>8, <1>0, <2>1 DEF TypeOK, Phases, EndTask
  <1>9. ASSUME NEW a \in Actor, Die(a) PROVE TypeOK'
    BY <1>9, <1>0 DEF TypeOK, Phases, Die, EndAttempt, registry
  <1>10. CASE Corrupt
    BY <1>10 DEF TypeOK, Corrupt, observers
  <1>11. CASE Tick
    BY <1>11 DEF TypeOK, Tick, Time, registry, observers
  <1>12. CASE UNCHANGED vars
    BY <1>12 DEF TypeOK, vars
  <1> QED
    BY <1>1, <1>2, <1>3, <1>3a, <1>4, <1>5, <1>6, <1>7, <1>8, <1>9, <1>10, <1>11, <1>12
       DEF Next, ActorStep

\* TypeOK: the registry file and every actor's variables keep their types.
THEOREM TypeCorrect == Spec => []TypeOK
  <1>1. Init => TypeOK
    BY FileLocksAssumption DEF Init, TypeOK, Phases, Time
  <1> QED
    BY <1>1, TypeStep, PTL DEF Spec

-----------------------------------------------------------------------------
(***************************************************************************)
(* The inductive invariant.                                                *)
(***************************************************************************)
\* Every step keeps the program's control and the order of clock and now.
LEMMA ControlStep ==
  ASSUME TypeOK, Control, NowIsPast, [Next]_vars
  PROVE  Control' /\ NowIsPast'
  <1> USE FileLocksAssumption
  <1>0. clock \in Int /\ 0 <= clock /\ \A a \in Actor : now[a] \in Int /\ pc[a] \in Phases
    BY DEF TypeOK, Time
  <1>1. ASSUME NEW a \in Actor, ActorStep(a) \/ Die(a) PROVE NowIsPast'
    <2>1. /\ clock' = clock
          /\ now' \in {now, [now EXCEPT ![a] = clock], [now EXCEPT ![a] = 0]}
      BY <1>1 DEF ActorStep, BeginOuter, BeginInner, BeginSweep, SweepOne, SweepFails, ReadClock,
         BeginTask, AcquireOuter, AcquireInner, Refused, EndWrite, EndTask, Die, EndAttempt
    <2>2. now \in [Actor -> Time]
      BY DEF TypeOK
    <2> QED
      BY <1>0, <2>1, <2>2 DEF NowIsPast
  <1>2. ASSUME NEW a \in Actor, BeginOuter(a) PROVE Control'
    BY <1>2 DEF Control, TypeOK, BeginOuter, BeginSweep
  <1>3. ASSUME NEW a \in Actor, BeginInner(a) PROVE Control'
    BY <1>3 DEF Control, TypeOK, BeginInner, BeginSweep
  <1>4. ASSUME NEW a \in Actor, BeginTask(a) PROVE Control'
    BY <1>4 DEF Control, TypeOK, BeginTask
  <1>5. ASSUME NEW a \in Actor, NEW h \in Actor, SweepOne(a, h) PROVE Control'
    BY <1>5 DEF Control, TypeOK, SweepOne
  <1>5a. ASSUME NEW a \in Actor, SweepFails(a) PROVE Control'
    BY <1>5a DEF Control, TypeOK, SweepFails
  <1>6. ASSUME NEW a \in Actor, ReadClock(a) PROVE Control'
    BY <1>6 DEF Control, TypeOK, ReadClock
  <1>7. ASSUME NEW a \in Actor, AcquireOuter(a) PROVE Control'
    BY <1>7 DEF Control, TypeOK, AcquireOuter, EndAttempt
  <1>8. ASSUME NEW a \in Actor, AcquireInner(a) PROVE Control'
    BY <1>8 DEF Control, TypeOK, AcquireInner, NewlyAcquired
  <1>9. ASSUME NEW a \in Actor, Refused(a) PROVE Control'
    BY <1>9 DEF Control, TypeOK, Refused, Resting, EndAttempt
  <1>10. ASSUME NEW a \in Actor, EndWrite(a) PROVE Control'
    BY <1>10 DEF Control, TypeOK, EndWrite, Resting, EndAttempt
  <1>11. ASSUME NEW a \in Actor, EndTask(a) PROVE Control'
    BY <1>11 DEF Control, TypeOK, EndTask
  <1>12. ASSUME NEW a \in Actor, Die(a) PROVE Control'
    BY <1>12 DEF Control, TypeOK, Die, EndAttempt
  <1>13. CASE Corrupt
    BY <1>13 DEF Control, NowIsPast, Corrupt
  <1>14. CASE Tick
    BY <1>14, <1>0 DEF Control, NowIsPast, Tick
  <1>15. CASE UNCHANGED vars
    BY <1>15 DEF Control, NowIsPast, vars
  <1> QED
    BY <1>1, <1>2, <1>3, <1>4, <1>5, <1>5a, <1>6, <1>7, <1>8, <1>9, <1>10, <1>11, <1>12, <1>13,
       <1>14, <1>15 DEF Next, ActorStep

\* What an actor has in memory about its locks.
LocalsKept(b) ==
  /\ pc'[b] = "writing" => pc[b] = "writing"
  /\ keys'[b] = keys[b]
  /\ newKeys'[b] = newKeys[b]
  /\ since'[b] = since[b]
  /\ outer'[b] => outer[b]
  /\ outerSince'[b] = outerSince[b]

\* The claim about an actor survives the steps that keep its locals and its holds.
LEMMA GrantedKept ==
  ASSUME TypeOK, NEW b \in Actor, Granted(b), LocalsKept(b), KeepsHolds(b)
  PROVE  Granted(b)'
  <1> SUFFICES ASSUME disk' = "intact" PROVE Granted(b)'
    BY DEF Granted
  <1>1. /\ \A f \in File : since[b][f] \in Time
        /\ outerSince[b] \in Time
        /\ Target[b] \in File
    BY FileLocksAssumption DEF TypeOK
  <1>2. /\ disk = "intact"
        /\ \A f \in File, t \in Time : HeldSince(b, f, t) => HeldSince(b, f, t)'
        /\ \A t \in Time : Overdue(b, t) => Overdue(b, t)'
    BY DEF KeepsHolds
  <1>3. ASSUME NEW f \in File, pc'[b] = "writing", f \in keys'[b]
        PROVE  HeldSince(b, f, since[b][f])'
    <2>1. HeldSince(b, f, since[b][f])
      BY <1>2, <1>3 DEF Granted, LocalsKept
    <2>2. (locks'[f] = b /\ acquiredAt'[f] = since[b][f])
            \/ \E c \in Actor \ {b} : TTL[c] # Never /\ clock' - since[b][f] > TTL[c]
      BY <1>1, <1>2, <2>1 DEF HeldSince, Overdue
    <2> QED
      BY <2>2 DEF LocalsKept, HeldSince, Overdue
  <1>4. ASSUME outer'[b] PROVE HeldSince(b, Target[b], outerSince[b])'
    <2>1. HeldSince(b, Target[b], outerSince[b])
      BY <1>2, <1>4 DEF Granted, LocalsKept
    <2>2. (locks'[Target[b]] = b /\ acquiredAt'[Target[b]] = outerSince[b])
            \/ \E c \in Actor \ {b} : TTL[c] # Never /\ clock' - outerSince[b] > TTL[c]
      BY <1>1, <1>2, <2>1 DEF HeldSince, Overdue
    <2> QED
      BY <2>2 DEF LocalsKept, HeldSince, Overdue
  <1>5. ASSUME pc'[b] = "writing", outer'[b], Target[b] \in newKeys'[b]
        PROVE  Overdue(b, outerSince[b])'
    <2>1. Overdue(b, outerSince[b])
      BY <1>2, <1>5 DEF Granted, LocalsKept
    <2>2. \E c \in Actor \ {b} : TTL[c] # Never /\ clock' - outerSince[b] > TTL[c]
      BY <1>1, <1>2, <2>1 DEF Overdue
    <2> QED
      BY <2>2 DEF LocalsKept, Overdue
  <1> QED
    BY <1>3, <1>4, <1>5 DEF Granted

\* A step of an actor leaves the memory of the others alone.
LEMMA OthersKept ==
  ASSUME TypeOK, NEW a \in Actor, ActorStep(a) \/ Die(a), NEW b \in Actor, b # a
  PROVE  LocalsKept(b) /\ clock' = clock
  <1>1. CASE BeginOuter(a) \/ BeginInner(a)
    BY <1>1 DEF LocalsKept, TypeOK, BeginOuter, BeginInner, BeginSweep
  <1>2. CASE BeginTask(a) \/ ReadClock(a)
    BY <1>2 DEF LocalsKept, TypeOK, BeginTask, ReadClock, observers
  <1>3. CASE \E h \in Actor : SweepOne(a, h)
    BY <1>3 DEF LocalsKept, TypeOK, SweepOne, observers
  <1>3a. CASE SweepFails(a)
    BY <1>3a DEF LocalsKept, TypeOK, SweepFails
  <1>4. CASE AcquireOuter(a)
    BY <1>4 DEF LocalsKept, TypeOK, AcquireOuter, EndAttempt
  <1>5. CASE AcquireInner(a)
    BY <1>5 DEF LocalsKept, TypeOK, AcquireInner
  <1>6. CASE Refused(a)
    BY <1>6 DEF LocalsKept, TypeOK, Refused, EndAttempt
  <1>7. CASE EndWrite(a)
    BY <1>7 DEF LocalsKept, TypeOK, EndWrite, EndAttempt
  <1>8. CASE EndTask(a)
    BY <1>8 DEF LocalsKept, TypeOK, EndTask
  <1>9. CASE Die(a)
    BY <1>9 DEF LocalsKept, TypeOK, Die, EndAttempt
  <1> QED
    BY <1>1, <1>2, <1>3, <1>3a, <1>4, <1>5, <1>6, <1>7, <1>8, <1>9 DEF ActorStep

\* Granted(b) survives the steps of the other actors.
LEMMA GrantedOther ==
  ASSUME Inv, NEW a \in Actor, ActorStep(a) \/ Die(a), NEW b \in Actor, b # a
  PROVE  Granted(b)'
  <1>1. TypeOK /\ NowIsPast /\ Control /\ Granted(b)
    BY DEF Inv
  <1>2. LocalsKept(b) /\ clock' = clock
    BY <1>1, OthersKept
  <1>3. CASE UNCHANGED registry
    BY <1>1, <1>2, <1>3, KeptAtRest, GrantedKept
  <1>4. CASE \E ks \in SUBSET File : AcquireAll(a, ks) /\ Conflicts(a, ks) = {}
    <2>1. KeepsHolds(b)
      BY <1>1, <1>2, <1>4, KeptThroughAcquire
    <2> QED
      BY <1>1, <1>2, <2>1, GrantedKept
  <1>5. CASE \E ks \in SUBSET File : Release(a, ks)
    <2>1. KeepsHolds(b)
      BY <1>1, <1>2, <1>5, KeptThroughRelease
    <2> QED
      BY <1>1, <1>2, <2>1, GrantedKept
  <1>6. CASE \E h \in Actor : SweepOne(a, h) /\ h \in Dead
    <2>1. PICK h \in Actor : SweepOne(a, h) /\ h \in Dead
      BY <1>6
    <2>2. Release(h, File)
      BY <2>1 DEF SweepOne
    <2>3. CASE h = b
      <3>1. pc[b] = "dead" /\ ~outer[b]
        BY <1>1, <2>1, <2>3 DEF Dead, Control
      <3>2. pc' = pc /\ outer' = outer
        BY <2>1 DEF SweepOne
      <3> QED
        BY <3>1, <3>2 DEF Granted
    <2>4. CASE h # b
      <3>1. KeepsHolds(b)
        BY <1>1, <1>2, <2>2, <2>4, KeptThroughRelease
      <3> QED
        BY <1>1, <1>2, <3>1, GrantedKept
    <2> QED
      BY <2>3, <2>4
  <1>7. keys[a] \in SUBSET File /\ newKeys[a] \in SUBSET File /\ File \in SUBSET File
    BY <1>1 DEF TypeOK
  <1>8. \/ UNCHANGED registry
        \/ \E ks \in SUBSET File : AcquireAll(a, ks) /\ Conflicts(a, ks) = {}
        \/ \E ks \in SUBSET File : Release(a, ks)
        \/ \E h \in Actor : SweepOne(a, h) /\ h \in Dead
    <2>1. CASE BeginOuter(a) \/ BeginInner(a) \/ BeginTask(a) \/ SweepFails(a) \/ ReadClock(a)
                 \/ Refused(a) \/ Die(a)
      BY <2>1 DEF BeginOuter, BeginInner, BeginSweep, BeginTask, SweepFails, ReadClock, Refused, Die
    <2>2. CASE \E h \in Actor : SweepOne(a, h)
      BY <2>2 DEF SweepOne
    <2>3. CASE AcquireOuter(a) \/ AcquireInner(a)
      BY <2>3, <1>7 DEF AcquireOuter, AcquireInner
    <2>4. CASE EndWrite(a)
      BY <2>4, <1>7 DEF EndWrite
    <2>5. CASE EndTask(a)
      BY <2>5, <1>7 DEF EndTask
    <2> QED
      BY <2>1, <2>2, <2>3, <2>4, <2>5 DEF ActorStep
  <1> QED
    BY <1>3, <1>4, <1>5, <1>6, <1>8

\* Granted(a) survives a's own steps.
LEMMA GrantedSelf ==
  ASSUME Inv, NEW a \in Actor, ActorStep(a) \/ Die(a)
  PROVE  Granted(a)'
  <1>1. TypeOK /\ NowIsPast /\ Control /\ Granted(a)
    BY DEF Inv
  <1> SUFFICES ASSUME disk' = "intact" PROVE Granted(a)'
    BY DEF Granted
  <1>2. /\ \A f \in File : since[a][f] \in Time
        /\ outerSince[a] \in Time
        /\ Target[a] \in File
        /\ keys[a] \in SUBSET File
        /\ newKeys[a] \in SUBSET File
    BY <1>1, FileLocksAssumption DEF TypeOK
  <1>3. CASE BeginOuter(a) \/ BeginInner(a) \/ BeginTask(a) \/ SweepFails(a) \/ ReadClock(a)
               \/ Refused(a)
    <2>1. /\ UNCHANGED registry /\ clock' = clock
          /\ pc'[a] # "writing"
          /\ UNCHANGED <<outer, outerSince>>
      <3>1. CASE BeginOuter(a) \/ BeginInner(a)
        BY <1>1, <3>1 DEF TypeOK, BeginOuter, BeginInner, BeginSweep
      <3>2. CASE BeginTask(a) \/ ReadClock(a)
        BY <1>1, <3>2 DEF TypeOK, BeginTask, ReadClock, observers
      <3>3. CASE Refused(a)
        BY <1>1, <3>3 DEF TypeOK, Refused, Resting
      <3>4. CASE SweepFails(a)
        BY <3>4 DEF SweepFails
      <3> QED
        BY <1>3, <3>1, <3>2, <3>3, <3>4
    <2> QED
      BY <1>1, <2>1 DEF Granted, HeldSince, Overdue, registry
  <1>4. ASSUME NEW h \in Actor, SweepOne(a, h) PROVE Granted(a)'
    <2>1. LocalsKept(a) /\ clock' = clock
      BY <1>4 DEF LocalsKept, SweepOne, observers
    <2>2. pc[a] # "dead"
      BY <1>4 DEF SweepOne
    <2>3. CASE h \in Dead
      <3>1. h # a /\ Release(h, File)
        BY <1>4, <2>2, <2>3 DEF Dead, SweepOne
      <3>2. KeepsHolds(a)
        BY <1>1, <2>1, <3>1, KeptThroughRelease
      <3> QED
        BY <1>1, <2>1, <3>2, GrantedKept
    <2>4. CASE h \notin Dead
      <3>1. UNCHANGED registry
        BY <1>4, <2>4 DEF SweepOne
      <3> QED
        BY <1>1, <2>1, <3>1, KeptAtRest, GrantedKept
    <2> QED
      BY <2>3, <2>4
  <1>5. CASE AcquireOuter(a)
    <2>1. /\ AcquireAll(a, keys[a]) /\ Conflicts(a, keys[a]) = {}
          /\ Target[a] \in keys[a]
      BY <1>1, <1>5 DEF AcquireOuter, Control
    <2>2. pc'[a] = "working" /\ outerSince'[a] = acquiredAt'[Target[a]]
      BY <1>1, <1>5 DEF AcquireOuter, TypeOK
    <2>3. locks'[Target[a]] = a
      BY <1>1, <1>2, <2>1, AcquireFrame
    <2> QED
      BY <2>2, <2>3 DEF Granted, HeldSince
  <1>6. CASE AcquireInner(a)
    <2>1. AcquireAll(a, keys[a]) /\ Conflicts(a, keys[a]) = {} /\ clock' = clock
      BY <1>6 DEF AcquireInner
    <2>2. /\ pc[a] # "writing" /\ keys'[a] = keys[a] /\ since'[a] = acquiredAt'
          /\ outer' = outer /\ outerSince' = outerSince
          /\ newKeys'[a] = NewlyAcquired(a, keys[a])
      BY <1>1, <1>6 DEF AcquireInner, TypeOK
    <2>3. \A f \in keys[a] : locks'[f] = a
      BY <1>1, <1>2, <2>1, AcquireFrame
    <2>4. KeepsHolds(a)
      BY <1>1, <1>2, <2>1, KeptThroughAcquire
    <2>5. disk = "intact"
      BY <2>4 DEF KeepsHolds
    <2>6. ASSUME outer[a] PROVE HeldSince(a, Target[a], outerSince[a])'
      <3>1. HeldSince(a, Target[a], outerSince[a])
        BY <1>1, <2>5, <2>6 DEF Granted
      <3>2. (locks'[Target[a]] = a /\ acquiredAt'[Target[a]] = outerSince[a])
              \/ \E c \in Actor \ {a} : TTL[c] # Never /\ clock' - outerSince[a] > TTL[c]
        BY <1>2, <2>4, <3>1 DEF KeepsHolds, HeldSince, Overdue
      <3> QED
        BY <2>2, <3>2 DEF HeldSince, Overdue
    <2>7. ASSUME outer[a], Target[a] \in newKeys'[a] PROVE Overdue(a, outerSince[a])'
      <3>1. locks[Target[a]] # a
        BY <1>2, <2>2, <2>5, <2>7 DEF NewlyAcquired, Loaded
      <3>2. Overdue(a, outerSince[a])
        BY <1>1, <2>5, <2>7, <3>1 DEF Granted, HeldSince
      <3> QED
        BY <2>1, <2>2, <3>2 DEF Overdue
    <2> QED
      BY <2>2, <2>3, <2>6, <2>7 DEF Granted, HeldSince
  <1>7. CASE EndWrite(a)
    <2>1. /\ Release(a, newKeys[a]) /\ pc'[a] # "writing"
          /\ outer' = outer /\ outerSince' = outerSince /\ clock' = clock
          /\ pc[a] = "writing"
      BY <1>1, <1>7 DEF EndWrite, Resting, TypeOK
    <2>2. /\ disk = "intact"
          /\ \A f \in File : f \notin newKeys[a] =>
               locks'[f] = locks[f] /\ acquiredAt'[f] = acquiredAt[f]
      BY <1>1, <1>2, <2>1, ReleaseFrame
    <2>3. ASSUME outer[a] PROVE HeldSince(a, Target[a], outerSince[a])'
      <3>1. HeldSince(a, Target[a], outerSince[a])
        BY <1>1, <2>2, <2>3 DEF Granted
      <3>2. CASE Overdue(a, outerSince[a])
        BY <2>1, <3>2 DEF HeldSince, Overdue
      <3>3. CASE ~Overdue(a, outerSince[a])
        <4>1. Target[a] \notin newKeys[a]
          BY <1>1, <2>1, <2>2, <2>3, <3>3 DEF Granted
        <4> QED
          BY <1>2, <2>1, <2>2, <3>1, <3>3, <4>1 DEF HeldSince
      <3> QED
        BY <3>2, <3>3
    <2> QED
      BY <2>1, <2>3 DEF Granted
  <1>8. CASE EndTask(a)
    BY <1>1, <1>8 DEF Granted, EndTask, TypeOK
  <1>9. CASE Die(a)
    BY <1>1, <1>9 DEF Granted, Die, TypeOK
  <1> QED
    BY <1>3, <1>4, <1>5, <1>6, <1>7, <1>8, <1>9 DEF ActorStep

\* The invariant is inductive.
LEMMA InvStep ==
  ASSUME Inv, [Next]_vars
  PROVE  Inv'
  <1>1. TypeOK /\ Control /\ NowIsPast
    BY DEF Inv
  <1>2. TypeOK' /\ Control' /\ NowIsPast'
    BY <1>1, TypeStep, ControlStep
  <1>3. ASSUME NEW a \in Actor, ActorStep(a) \/ Die(a), NEW b \in Actor PROVE Granted(b)'
    <2>1. CASE b = a
      BY <1>3, <2>1, GrantedSelf
    <2>2. CASE b # a
      BY <1>3, <2>2, GrantedOther
    <2> QED
      BY <2>1, <2>2
  <1>4. ASSUME Tick, NEW b \in Actor PROVE Granted(b)'
    <2>1. LocalsKept(b)
      BY <1>4 DEF LocalsKept, Tick, observers
    <2>2. Granted(b) /\ KeepsHolds(b)
      BY <1>1, <1>4, KeptThroughTick DEF Inv
    <2> QED
      BY <1>1, <2>1, <2>2, GrantedKept
  <1>5. ASSUME Corrupt, NEW b \in Actor PROVE Granted(b)'
    BY <1>5 DEF Granted, Corrupt
  <1>6. ASSUME UNCHANGED vars, NEW b \in Actor PROVE Granted(b)'
    <2>1. LocalsKept(b) /\ UNCHANGED registry /\ clock' = clock
      BY <1>6 DEF LocalsKept, vars, registry
    <2>2. Granted(b) /\ KeepsHolds(b)
      BY <2>1, KeptAtRest DEF Inv
    <2> QED
      BY <1>1, <2>1, <2>2, GrantedKept
  <1>7. \A b \in Actor : Granted(b)'
    BY <1>3, <1>4, <1>5, <1>6 DEF Next
  <1> QED
    BY <1>2, <1>7 DEF Inv

\* The invariant holds of every behaviour.
LEMMA InvHolds == Spec => []Inv
  <1>1. ASSUME Init PROVE Inv
    <2>1. TypeOK
      BY <1>1, FileLocksAssumption DEF Init, TypeOK, Phases, Time
    <2>2. Control
      BY <1>1 DEF Init, Control
    <2>3. NowIsPast
      <3>1. clock = 0 /\ \A a \in Actor : now[a] = 0
        BY <1>1 DEF Init
      <3>2. 0 <= 0
        OBVIOUS
      <3> QED
        BY <3>1, <3>2, Zenon DEF NowIsPast
    <2>4. \A a \in Actor : Granted(a)
      BY <1>1 DEF Init, Granted
    <2> QED
      BY <2>1, <2>2, <2>3, <2>4 DEF Inv
  <1> QED
    BY <1>1, InvStep, PTL DEF Spec

-----------------------------------------------------------------------------
(***************************************************************************)
(* acquire_detailed: while the registry file stays readable, two actors    *)
(* that both believe they hold a file are explained by age alone.          *)
(***************************************************************************)
THEOREM TwoHoldersNeedAge == Spec => []NoTwoHolders
  <1>1. ASSUME Inv PROVE NoTwoHolders
    <2> SUFFICES ASSUME disk = "intact", NEW a \in Actor, NEW b \in Actor, NEW f \in File,
                        a # b, check_access(a, f), check_access(b, f)
                 PROVE  Overdue(a, GrantedAt(a, f)) \/ Overdue(b, GrantedAt(b, f))
      BY DEF NoTwoHolders
    <2>1. ASSUME NEW c \in Actor, check_access(c, f)
          PROVE  locks[f] = c \/ Overdue(c, GrantedAt(c, f))
      BY <1>1, <2>1 DEF Inv, Granted, HeldSince, check_access, GrantedAt
    <2> QED
      BY <2>1
  <1> QED
    BY <1>1, InvHolds, PTL

(***************************************************************************)
(* hold_target_lock, run_under_target_lock, sweep_dead_seam_locks: a live  *)
(* task loses the outer lock on its target to age alone.                   *)
(***************************************************************************)
THEOREM OuterLockSurvives == Spec => []OuterLockKept
  <1>1. Inv => OuterLockKept
    BY DEF Inv, Granted, HeldSince, OuterLockKept
  <1> QED
    BY <1>1, InvHolds, PTL

(***************************************************************************)
(* release, release_files, release_task_locks, sweep_dead_seam_locks: the  *)
(* lock of a live holder becomes free only in a step of that holder.       *)
(***************************************************************************)
THEOREM FreedByHolder == Spec => OnlyHolderFrees
  <1>1. ASSUME Inv, [Next]_vars, NEW f \in File,
               disk = "intact", locks[f] # NoOne, locks'[f] = NoOne
        PROVE  locks[f] \in Dead \/ pc'[locks[f]] # pc[locks[f]]
    <2>1. TypeOK /\ \A g \in File : Loaded[g] = locks[g]
      BY <1>1 DEF Inv, Loaded
    <2>2. locks' # locks
      BY <1>1
    <2>3. PICK a \in Actor : ActorStep(a) \/ Die(a)
      BY <1>1, <2>2 DEF Next, Corrupt, Tick, vars, registry
    <2>4. CASE BeginOuter(a) \/ BeginInner(a) \/ BeginTask(a) \/ SweepFails(a) \/ ReadClock(a)
                 \/ Refused(a) \/ Die(a)
      BY <2>2, <2>4 DEF BeginOuter, BeginInner, BeginSweep, BeginTask, SweepFails, ReadClock,
         Refused, Die, registry
    <2>5. ASSUME NEW h \in Actor, SweepOne(a, h) PROVE locks[f] \in Dead
      BY <1>1, <2>1, <2>2, <2>5 DEF SweepOne, Release, registry
    <2>6. CASE AcquireOuter(a) \/ AcquireInner(a)
      <3>1. AcquireAll(a, keys[a])
        BY <2>6 DEF AcquireOuter, AcquireInner
      <3> QED
        BY <1>1, <2>1, <3>1, FileLocksAssumption DEF AcquireAll
    <2>7. CASE EndWrite(a)
      <3>1. Release(a, newKeys[a]) /\ pc[a] = "writing" /\ pc'[a] # "writing"
        BY <2>1, <2>7 DEF EndWrite, Resting, TypeOK
      <3> QED
        BY <1>1, <2>1, <2>2, <3>1 DEF Release, registry
    <2>8. CASE EndTask(a)
      <3>1. Release(a, File) /\ pc[a] = "working" /\ pc'[a] # "working"
        BY <2>1, <2>8 DEF EndTask, TypeOK
      <3> QED
        BY <1>1, <2>1, <2>2, <3>1 DEF Release, registry
    <2> QED
      BY <2>3, <2>4, <2>5, <2>6, <2>7, <2>8 DEF ActorStep
  <1>2. Inv /\ [Next]_vars =>
          [\A f \in File :
             disk = "intact" /\ locks[f] # NoOne /\ locks'[f] = NoOne =>
               locks[f] \in Dead \/ pc'[locks[f]] # pc[locks[f]]]_vars
    BY <1>1
  <1> QED
    BY <1>2, InvHolds, PTL DEF Spec, OnlyHolderFrees

-----------------------------------------------------------------------------
(***************************************************************************)
(* The sweep.                                                              *)
(***************************************************************************)
\* The dead stay dead, and no step makes a dead actor the holder of a file.
LEMMA DeadStep ==
  ASSUME TypeOK, [Next]_vars
  PROVE  /\ Dead \subseteq Dead'
         /\ \A f \in File : Loaded'[f] \in {NoOne, Loaded[f]} \/ Loaded'[f] \notin Dead'
  <1>1. ASSUME UNCHANGED registry PROVE Loaded' = Loaded
    BY <1>1 DEF Loaded, registry
  <1>2. ASSUME NEW h, NEW ks \in SUBSET File, Release(h, ks)
        PROVE  \A f \in File : Loaded'[f] \in {NoOne, Loaded[f]}
    BY <1>2 DEF Release, Loaded, SavedDisk, registry, TypeOK
  <1>3. ASSUME NEW a \in Actor, AcquireOuter(a) \/ AcquireInner(a)
        PROVE  /\ Dead \subseteq Dead'
               /\ \A f \in File : Loaded'[f] = Loaded[f] \/ Loaded'[f] \notin Dead'
    <2>1. AcquireAll(a, keys[a])
      BY <1>3 DEF AcquireOuter, AcquireInner
    <2>2. disk' # "unreadable"
      BY <2>1 DEF AcquireAll, SavedDisk
    <2>3. \A f \in File : Loaded'[f] \in {a, Loaded[f]}
      BY <2>1, <2>2 DEF AcquireAll, Loaded
    <2>4. Dead' = Dead /\ a \notin Dead
      <3>1. /\ pc[a] # "dead"
            /\ pc' = [pc EXCEPT ![a] = "working"] \/ pc' = [pc EXCEPT ![a] = "writing"]
        BY <1>3 DEF AcquireOuter, AcquireInner
      <3> QED
        BY <3>1 DEF Dead, TypeOK
    <2> QED
      BY <2>3, <2>4
  <1>4. ASSUME NEW a \in Actor, BeginOuter(a) \/ BeginInner(a) \/ BeginTask(a) \/ SweepFails(a)
                                  \/ ReadClock(a) \/ Refused(a) \/ Die(a)
        PROVE  Dead \subseteq Dead' /\ UNCHANGED registry
    <2>1. /\ UNCHANGED registry
          /\ \A b \in Actor : pc[b] = "dead" => pc'[b] = "dead"
      BY <1>4 DEF BeginOuter, BeginInner, BeginSweep, BeginTask, SweepFails, ReadClock, Refused,
         Die, TypeOK
    <2> QED
      BY <2>1 DEF Dead
  <1>5. ASSUME NEW a \in Actor, EndWrite(a) \/ EndTask(a) \/ \E h \in Actor : SweepOne(a, h)
        PROVE  /\ Dead \subseteq Dead'
               /\ \A f \in File : Loaded'[f] \in {NoOne, Loaded[f]}
    <2>1. \A b \in Actor : pc[b] = "dead" => pc'[b] = "dead"
      BY <1>5 DEF EndWrite, EndTask, SweepOne, TypeOK
    <2>2. newKeys[a] \in SUBSET File
      BY DEF TypeOK
    <2>3. UNCHANGED registry \/ \E h \in Actor, ks \in SUBSET File : Release(h, ks)
      BY <1>5, <2>2 DEF EndWrite, EndTask, SweepOne
    <2> QED
      BY <1>1, <1>2, <2>1, <2>3 DEF Dead
  <1>6. ASSUME Corrupt \/ Tick \/ UNCHANGED vars
        PROVE  /\ Dead \subseteq Dead'
               /\ \A f \in File : Loaded'[f] \in {NoOne, Loaded[f]}
    BY <1>6 DEF Corrupt, Tick, vars, registry, Dead, Loaded
  <1> QED
    BY <1>1, <1>3, <1>4, <1>5, <1>6 DEF Next, ActorStep

\* SweepCovers for one actor.
Covers(a) ==
  /\ deadBefore[a] \subseteq Dead
  /\ pc[a] \in {"sweep_outer", "sweep_inner", "try_outer", "try_inner"} =>
       \A f \in File : Loaded[f] \in Seam \cap deadBefore[a] => Loaded[f] \in toSweep[a]
  /\ pc[a] \in {"try_outer", "try_inner"} => toSweep[a] = {}

\* A step that leaves a's sweep alone keeps what it covers.
LEMMA CoversKept ==
  ASSUME TypeOK, [Next]_vars, NEW a \in Seam, Covers(a),
         deadBefore'[a] \subseteq deadBefore[a], toSweep'[a] = toSweep[a],
         pc'[a] \in {"sweep_outer", "sweep_inner", "try_outer", "try_inner"} =>
           pc[a] \in {"sweep_outer", "sweep_inner", "try_outer", "try_inner"},
         pc'[a] \in {"try_outer", "try_inner"} => toSweep[a] = {}
  PROVE  Covers(a)'
  <1>1. /\ Dead \subseteq Dead'
        /\ \A f \in File : Loaded'[f] \in {NoOne, Loaded[f]} \/ Loaded'[f] \notin Dead'
    BY DeadStep
  <1>2. deadBefore'[a] \subseteq Dead'
    BY <1>1 DEF Covers
  <1>3. ASSUME NEW f \in File, Loaded'[f] \in Seam, Loaded'[f] \in deadBefore'[a],
               pc[a] \in {"sweep_outer", "sweep_inner", "try_outer", "try_inner"}
        PROVE  Loaded'[f] \in toSweep'[a]
    <2>1. Loaded'[f] # NoOne
      BY <1>3, FileLocksAssumption
    <2>2. Loaded'[f] = Loaded[f]
      BY <1>1, <1>2, <1>3, <2>1
    <2> QED
      BY <1>3, <2>2 DEF Covers
  <1> QED
    BY <1>2, <1>3 DEF Covers

\* Every step keeps the sweeps' cover.
LEMMA CoversStep ==
  ASSUME TypeOK, [Next]_vars, NEW a \in Seam, Covers(a)
  PROVE  Covers(a)'
  <1>0. a \in Actor /\ Seam \subseteq Actor
    BY FileLocksAssumption
  <1>1. ASSUME NEW b \in Actor, b # a, ActorStep(b) \/ Die(b) PROVE Covers(a)'
    <2>1. pc'[a] = pc[a] /\ deadBefore'[a] = deadBefore[a] /\ toSweep'[a] = toSweep[a]
      <3>1. CASE BeginOuter(b) \/ BeginInner(b)
        BY <1>0, <1>1, <3>1 DEF TypeOK, BeginOuter, BeginInner, BeginSweep
      <3>2. CASE BeginTask(b) \/ ReadClock(b)
        BY <1>0, <1>1, <3>2 DEF TypeOK, BeginTask, ReadClock, observers
      <3>3. CASE \E h \in Actor : SweepOne(b, h)
        BY <1>0, <1>1, <3>3 DEF TypeOK, SweepOne, observers
      <3>4. CASE AcquireOuter(b)
        BY <1>0, <1>1, <3>4 DEF TypeOK, AcquireOuter, EndAttempt
      <3>5. CASE AcquireInner(b)
        BY <1>0, <1>1, <3>5 DEF TypeOK, AcquireInner
      <3>6. CASE Refused(b)
        BY <1>0, <1>1, <3>6 DEF TypeOK, Refused, EndAttempt
      <3>7. CASE EndWrite(b) \/ Die(b)
        BY <1>0, <1>1, <3>7 DEF TypeOK, EndWrite, Die, EndAttempt
      <3>8. CASE EndTask(b)
        BY <1>0, <1>1, <3>8 DEF TypeOK, EndTask
      <3>9. CASE SweepFails(b)
        BY <1>0, <1>1, <3>9 DEF TypeOK, SweepFails
      <3> QED
        BY <1>1, <3>1, <3>2, <3>3, <3>4, <3>5, <3>6, <3>7, <3>8, <3>9 DEF ActorStep
    <2> QED
      BY <2>1, CoversKept DEF Covers
  <1>2. CASE BeginOuter(a) \/ BeginInner(a)
    <2>1. /\ deadBefore'[a] = Dead
          /\ toSweep'[a] = {h \in Seam \ {a} : \E f \in File : Loaded[f] = h}
          /\ pc'[a] \in {"sweep_outer", "sweep_inner"} /\ pc[a] # "dead"
      BY <1>0, <1>2 DEF BeginOuter, BeginInner, BeginSweep, TypeOK
    <2>2. Loaded' = Loaded
      BY <1>2 DEF BeginOuter, BeginInner, BeginSweep, registry, Loaded
    <2>3. Dead \subseteq Dead' /\ a \notin Dead
      BY <2>1, DeadStep DEF Dead
    <2> QED
      BY <2>1, <2>2, <2>3 DEF Covers
  <1>3. CASE BeginTask(a)
    BY <1>3 DEF BeginTask
  <1>4. ASSUME NEW h \in Actor, SweepOne(a, h) PROVE Covers(a)'
    <2>1. /\ pc' = pc /\ deadBefore' = deadBefore /\ toSweep'[a] = toSweep[a] \ {h}
          /\ pc[a] \in {"sweep_outer", "sweep_inner"}
      BY <1>0, <1>4 DEF SweepOne, observers, TypeOK
    <2>2. Dead' = Dead
      BY <2>1 DEF Dead
    <2>3. ASSUME NEW f \in File, Loaded'[f] \in Seam, Loaded'[f] \in deadBefore[a]
          PROVE  Loaded'[f] \in toSweep'[a]
      <3>1. Loaded'[f] # NoOne
        BY <2>3, FileLocksAssumption
      <3>2. Loaded'[f] = Loaded[f]
        BY <2>1, <2>2, <2>3, <3>1, DeadStep DEF Covers
      <3>3. Loaded[f] \in toSweep[a]
        BY <2>1, <2>3, <3>2 DEF Covers
      <3>4. Loaded[f] # h
        <4>1. SUFFICES ASSUME Loaded[f] = h PROVE FALSE
          OBVIOUS
        <4>2. Release(h, File)
          BY <1>4, <2>3, <3>2, <4>1 DEF SweepOne, Covers
        <4> QED
          BY <3>1, <3>2, <4>1, <4>2 DEF Release, Loaded, SavedDisk
      <3> QED
        BY <2>1, <3>2, <3>3, <3>4
    <2> QED
      BY <2>1, <2>2, <2>3 DEF Covers
  <1>4a. CASE SweepFails(a)
    <2>1. deadBefore'[a] = {} /\ pc'[a] \in {"sweep_outer", "sweep_inner"}
      BY <1>0, <1>4a DEF SweepFails, TypeOK
    <2> QED
      BY <2>1 DEF Covers
  <1>5. CASE ReadClock(a)
    <2>1. /\ pc[a] \in {"sweep_outer", "sweep_inner"} /\ toSweep[a] = {}
          /\ toSweep' = toSweep /\ deadBefore' = deadBefore
      BY <1>5 DEF ReadClock, observers
    <2> QED
      BY <2>1, CoversKept
  <1>6. CASE AcquireOuter(a) \/ AcquireInner(a) \/ Refused(a) \/ EndWrite(a) \/ EndTask(a) \/ Die(a)
    <2>1. /\ pc'[a] \in {"idle", "working", "writing", "dead"}
          /\ deadBefore'[a] \in {{}, deadBefore[a]}
      <3>1. CASE AcquireOuter(a)
        BY <1>0, <3>1 DEF TypeOK, AcquireOuter, EndAttempt
      <3>2. CASE AcquireInner(a)
        BY <1>0, <3>2 DEF TypeOK, AcquireInner
      <3>3. CASE Refused(a)
        BY <1>0, <3>3 DEF TypeOK, Refused, EndAttempt, Resting
      <3>4. CASE EndWrite(a)
        BY <1>0, <3>4 DEF TypeOK, EndWrite, EndAttempt, Resting
      <3>5. CASE EndTask(a)
        BY <1>0, <3>5 DEF TypeOK, EndTask
      <3>6. CASE Die(a)
        BY <1>0, <3>6 DEF TypeOK, Die, EndAttempt
      <3> QED
        BY <1>6, <3>1, <3>2, <3>3, <3>4, <3>5, <3>6
    <2> QED
      BY <2>1, DeadStep DEF Covers
  <1>7. CASE Corrupt \/ Tick \/ UNCHANGED vars
    <2>1. UNCHANGED <<pc, deadBefore, toSweep>>
      BY <1>7 DEF Corrupt, Tick, vars, observers
    <2> QED
      BY <2>1, CoversKept DEF Covers
  <1> QED
    BY <1>0, <1>1, <1>2, <1>3, <1>4, <1>4a, <1>5, <1>6, <1>7 DEF Next, ActorStep

(***************************************************************************)
(* sweep_dead_seam_locks: when a seam asks for its files, none of the      *)
(* locks that refuse them is that of a seam process killed before the      *)
(* asker's sweep began, unless an error ended that sweep early.            *)
(***************************************************************************)
THEOREM SweptBeforeAsked == Spec => []DeadSeamsNeverRefuse
  <1>1. ASSUME Init PROVE SweepCovers
    <2>1. \A a \in Seam : deadBefore[a] = {} /\ pc[a] = "idle"
      BY <1>1, FileLocksAssumption DEF Init
    <2> QED
      BY <2>1 DEF SweepCovers
  <1>2. ASSUME Inv, SweepCovers, [Next]_vars PROVE SweepCovers'
    <2>1. \A a \in Seam : Covers(a)
      BY <1>2 DEF SweepCovers, Covers
    <2>2. \A a \in Seam : Covers(a)'
      BY <1>2, <2>1, CoversStep DEF Inv
    <2> QED
      BY <2>2 DEF SweepCovers, Covers
  <1>3. ASSUME Inv, SweepCovers PROVE DeadSeamsNeverRefuse
    <2> SUFFICES ASSUME NEW a \in Seam, pc[a] \in {"try_outer", "try_inner"},
                        NEW f \in Conflicts(a, keys[a])
                 PROVE  Loaded[f] \notin Seam \cap deadBefore[a]
      BY DEF DeadSeamsNeverRefuse
    <2>1. f \in File
      BY <1>3, FileLocksAssumption DEF Inv, TypeOK, Conflicts
    <2> QED
      BY <1>3, <2>1 DEF SweepCovers
  <1> QED
    BY <1>1, <1>2, <1>3, InvHolds, PTL DEF Spec

=============================================================================
