------------------------------- MODULE FileLocks -------------------------------
(***************************************************************************)
(* FileLockRegistry (nexus/orchestrator/file_lock_registry.py) and the     *)
(* writers that rely on it: the file_lock capability, which holds a task's *)
(* target for the whole task (the outer lock), and the candidate seam      *)
(* (nexus/services/post_candidate_seam.py), which takes the target and its *)
(* companion files around every write in place (the inner lock, possibly   *)
(* nested in an outer one of the same holder).                             *)
(*                                                                         *)
(* An actor is a process with its task.  Every registry operation runs     *)
(* under one flock and is one step, but the time an acquire judges by is   *)
(* read before it waits for that flock.  A seam's holder id ends in its    *)
(* pid, so that the locks of a killed process can be swept; the holder id  *)
(* of a plain task does not, and only a TTL ends its locks.  Pids are not  *)
(* reused.                                                                 *)
(***************************************************************************)
EXTENDS Integers

CONSTANTS
  Actor,      \* processes, each with the task it runs
  Seam,       \* those whose holder id carries their pid
  File,       \* canonical lock keys
  Target,     \* Target[a]: the file the task of a is about
  Companion,  \* Companion[a]: the files written along with it
  TTL,        \* TTL[a]: ttl_sec of the registries a opens, or Never
  MaxClock,   \* bound: the last instant
  NoOne

Never == -1

ASSUME FileLocksAssumption ==
  /\ Seam \subseteq Actor
  /\ Target \in [Actor -> File]
  /\ Companion \in [Actor -> SUBSET File]
  /\ TTL \in [Actor -> Nat \cup {Never}]
  /\ MaxClock \in Nat
  /\ NoOne \notin Actor

VARIABLES
  clock,       \* time.time()
  locks,       \* the registry file: locks ...
  acquiredAt,  \* ... and acquired_at
  disk,        \* "intact", "unreadable", or "rewritten" after it was unreadable
  pc,
  now,         \* the time the actor's current acquire judges by
  keys,        \* the keys of the inner lock it is taking or holds
  newKeys,     \* newly_acquired: the keys its release callable will free
  outer,       \* register_task_lock_file: the outer lock is to be released
  toSweep,     \* the holders its sweep has still to look at
  since,       \* observer: acquired_at of the inner lock's keys when granted
  outerSince,  \* observer: acquired_at of the outer lock when granted
  deadBefore   \* observer: who was dead when the sweep began, if it has not failed

vars == <<clock, locks, acquiredAt, disk, pc, now, keys, newKeys, outer, toSweep,
          since, outerSince, deadBefore>>
registry == <<locks, acquiredAt, disk>>
observers == <<since, outerSince, deadBefore>>

Phases == {"idle", "sweep_outer", "try_outer", "working",
           "sweep_inner", "try_inner", "writing", "dead"}
Time == 0..MaxClock

TypeOK ==
  /\ clock \in Time
  /\ locks \in [File -> Actor \cup {NoOne}]
  /\ acquiredAt \in [File -> Time]
  /\ disk \in {"intact", "unreadable", "rewritten"}
  /\ pc \in [Actor -> Phases]
  /\ now \in [Actor -> Time]
  /\ keys \in [Actor -> SUBSET File]
  /\ newKeys \in [Actor -> SUBSET File]
  /\ outer \in [Actor -> BOOLEAN]
  /\ toSweep \in [Actor -> SUBSET Actor]
  /\ since \in [Actor -> [File -> Time]]
  /\ outerSince \in [Actor -> Time]
  /\ deadBefore \in [Actor -> SUBSET Actor]

Init ==
  /\ clock = 0
  /\ locks = [f \in File |-> NoOne]
  /\ acquiredAt = [f \in File |-> 0]
  /\ disk = "intact"
  /\ pc = [a \in Actor |-> "idle"]
  /\ now = [a \in Actor |-> 0]
  /\ keys = [a \in Actor |-> {}]
  /\ newKeys = [a \in Actor |-> {}]
  /\ outer = [a \in Actor |-> FALSE]
  /\ toSweep = [a \in Actor |-> {}]
  /\ since = [a \in Actor |-> [f \in File |-> 0]]
  /\ outerSince = [a \in Actor |-> 0]
  /\ deadBefore = [a \in Actor |-> {}]

-----------------------------------------------------------------------------
(***************************************************************************)
(* The registry operations.  A file that cannot be read counts as one      *)
(* without locks; the next save replaces it.                               *)
(***************************************************************************)
Loaded == [f \in File |-> IF disk = "unreadable" THEN NoOne ELSE locks[f]]
LoadedAt == [f \in File |-> IF disk = "unreadable" THEN 0 ELSE acquiredAt[f]]
SavedDisk == IF disk = "intact" THEN "intact" ELSE "rewritten"

\* Mutant of Stale: a lock expires one instant early.
StaleEarly(a, f) == TTL[a] # Never /\ now[a] - LoadedAt[f] >= TTL[a]

Stale(a, f) == TTL[a] # Never /\ now[a] - LoadedAt[f] > TTL[a]

\* The files of ks that another holder has and that a may not take over.
Conflicts(a, ks) == {f \in ks : Loaded[f] \notin {NoOne, a} /\ ~Stale(a, f)}

\* Mutant of NewlyAcquired: a key the holder already had counts as new.
NewlyAcquiredAll(a, ks) == {f \in ks : a \in Actor}

NewlyAcquired(a, ks) == {f \in ks : Loaded[f] # a}

\* What acquire_detailed saves once there are no conflicts.
AcquireAll(a, ks) ==
  /\ locks' = [f \in File |-> IF f \in ks THEN a ELSE Loaded[f]]
  /\ acquiredAt' = [f \in File |-> IF f \in NewlyAcquired(a, ks) THEN now[a] ELSE LoadedAt[f]]
  /\ disk' = SavedDisk

\* The locks of holder h among the files ks go; nothing is saved when there are none.
Release(h, ks) ==
  LET gone == {f \in ks : Loaded[f] = h}
  IN  IF gone = {} THEN UNCHANGED registry
      ELSE /\ locks' = [f \in File |-> IF f \in gone THEN NoOne ELSE Loaded[f]]
           /\ acquiredAt' = [f \in File |-> IF f \in gone THEN 0 ELSE LoadedAt[f]]
           /\ disk' = SavedDisk

-----------------------------------------------------------------------------
\* The keys of hold_target_lock: the target and the companions, in one acquire.
HoldKeys(a) == {Target[a]} \cup Companion[a]

Dead == {a \in Actor : pc[a] = "dead"}

\* Where an actor is when it neither takes nor holds an inner lock.
Resting(a) == IF outer[a] THEN "working" ELSE "idle"

\* The locals of an acquire go when it is over.
EndAttempt(a) ==
  /\ keys' = [keys EXCEPT ![a] = {}]
  /\ now' = [now EXCEPT ![a] = 0]
  /\ deadBefore' = [deadBefore EXCEPT ![a] = {}]

\* sweep_dead_seam_locks begins: the holders named by an unlocked read of the file.
BeginSweep(a) ==
  /\ toSweep' = [toSweep EXCEPT ![a] = {h \in Seam \ {a} : \E f \in File : Loaded[f] = h}]
  /\ deadBefore' = [deadBefore EXCEPT ![a] = Dead]
  /\ UNCHANGED <<clock, registry, now, newKeys, outer, since, outerSince>>

\* acquire_target_lock: a seam sweeps before it asks for the outer lock.
BeginOuter(a) ==
  /\ a \in Seam /\ pc[a] = "idle"
  /\ pc' = [pc EXCEPT ![a] = "sweep_outer"]
  /\ keys' = [keys EXCEPT ![a] = {Target[a]}]
  /\ BeginSweep(a)

\* hold_target_lock, on its own or under the outer lock.
BeginInner(a) ==
  /\ a \in Seam /\ pc[a] \in {"idle", "working"}
  /\ pc' = [pc EXCEPT ![a] = "sweep_inner"]
  /\ keys' = [keys EXCEPT ![a] = HoldKeys(a)]
  /\ BeginSweep(a)

\* Mutant of SweepOne: a dead holder keeps its locks until they are old.
SweepOneExpired(a, h) ==
  /\ pc[a] \in {"sweep_outer", "sweep_inner"} /\ h \in toSweep[a]
  /\ toSweep' = [toSweep EXCEPT ![a] = @ \ {h}]
  /\ IF h \in Dead THEN Release(h, {f \in File : clock - LoadedAt[f] > TTL[a]})
     ELSE UNCHANGED registry
  /\ UNCHANGED <<clock, pc, now, keys, newKeys, outer, observers>>

\* Mutant of SweepOne: a holder without a registered task lock counts as gone.
SweepOneUnregistered(a, h) ==
  /\ pc[a] \in {"sweep_outer", "sweep_inner"} /\ h \in toSweep[a]
  /\ toSweep' = [toSweep EXCEPT ![a] = @ \ {h}]
  /\ IF ~outer[h] THEN Release(h, File) ELSE UNCHANGED registry
  /\ UNCHANGED <<clock, pc, now, keys, newKeys, outer, observers>>

\* One holder of the sweep: released if its process is gone.
SweepOne(a, h) ==
  /\ pc[a] \in {"sweep_outer", "sweep_inner"} /\ h \in toSweep[a]
  /\ toSweep' = [toSweep EXCEPT ![a] = @ \ {h}]
  /\ IF h \in Dead THEN Release(h, File) ELSE UNCHANGED registry
  /\ UNCHANGED <<clock, pc, now, keys, newKeys, outer, observers>>

\* The registry cannot be opened or saved: the exception ends the sweep, and is swallowed.
SweepFails(a) ==
  /\ pc[a] \in {"sweep_outer", "sweep_inner"} /\ toSweep[a] # {}
  /\ toSweep' = [toSweep EXCEPT ![a] = {}]
  /\ deadBefore' = [deadBefore EXCEPT ![a] = {}]
  /\ UNCHANGED <<clock, registry, pc, now, keys, newKeys, outer, since, outerSince>>

\* Mutant of ReadClock: the time is rounded up.
ReadClockUp(a) ==
  /\ \/ pc[a] = "sweep_outer" /\ toSweep[a] = {} /\ pc' = [pc EXCEPT ![a] = "try_outer"]
     \/ pc[a] = "sweep_inner" /\ toSweep[a] = {} /\ pc' = [pc EXCEPT ![a] = "try_inner"]
  /\ now' = [now EXCEPT ![a] = clock + 1]
  /\ UNCHANGED <<clock, registry, keys, newKeys, outer, toSweep, observers>>

\* acquire_detailed reads the time, then waits for the flock.
ReadClock(a) ==
  /\ \/ pc[a] = "sweep_outer" /\ toSweep[a] = {} /\ pc' = [pc EXCEPT ![a] = "try_outer"]
     \/ pc[a] = "sweep_inner" /\ toSweep[a] = {} /\ pc' = [pc EXCEPT ![a] = "try_inner"]
  /\ now' = [now EXCEPT ![a] = clock]
  /\ UNCHANGED <<clock, registry, keys, newKeys, outer, toSweep, observers>>

\* A plain task asks for its target without a sweep.
BeginTask(a) ==
  /\ a \notin Seam /\ pc[a] = "idle"
  /\ pc' = [pc EXCEPT ![a] = "try_outer"]
  /\ keys' = [keys EXCEPT ![a] = {Target[a]}]
  /\ now' = [now EXCEPT ![a] = clock]
  /\ UNCHANGED <<clock, registry, newKeys, outer, toSweep, observers>>

\* The file_lock capability: acquire, then remember the registry file for the end of the task.
AcquireOuter(a) ==
  /\ pc[a] = "try_outer" /\ Conflicts(a, keys[a]) = {}
  /\ AcquireAll(a, keys[a])
  /\ outer' = [outer EXCEPT ![a] = TRUE]
  /\ outerSince' = [outerSince EXCEPT ![a] = acquiredAt'[Target[a]]]
  /\ pc' = [pc EXCEPT ![a] = "working"]
  /\ EndAttempt(a)
  /\ UNCHANGED <<clock, newKeys, toSweep, since>>

AcquireInner(a) ==
  /\ pc[a] = "try_inner" /\ Conflicts(a, keys[a]) = {}
  /\ AcquireAll(a, keys[a])
  /\ newKeys' = [newKeys EXCEPT ![a] = NewlyAcquired(a, keys[a])]
  /\ since' = [since EXCEPT ![a] = acquiredAt']
  /\ pc' = [pc EXCEPT ![a] = "writing"]
  /\ deadBefore' = [deadBefore EXCEPT ![a] = {}]
  /\ UNCHANGED <<clock, now, keys, outer, toSweep, outerSince>>

\* A conflict refuses the whole acquire and leaves the registry file alone.
Refused(a) ==
  /\ pc[a] \in {"try_outer", "try_inner"} /\ Conflicts(a, keys[a]) # {}
  /\ pc' = [pc EXCEPT ![a] = Resting(a)]
  /\ EndAttempt(a)
  /\ UNCHANGED <<clock, registry, newKeys, outer, toSweep, since, outerSince>>

\* The release callable of hold_target_lock: release_files of what it newly took.
EndWrite(a) ==
  /\ pc[a] = "writing"
  /\ Release(a, newKeys[a])
  /\ pc' = [pc EXCEPT ![a] = Resting(a)]
  /\ newKeys' = [newKeys EXCEPT ![a] = {}]
  /\ since' = [since EXCEPT ![a] = [f \in File |-> 0]]
  /\ EndAttempt(a)
  /\ UNCHANGED <<clock, outer, toSweep, outerSince>>

\* release_task_locks at the end of the task: every lock of the holder.
EndTask(a) ==
  /\ pc[a] = "working"
  /\ Release(a, File)
  /\ outer' = [outer EXCEPT ![a] = FALSE]
  /\ pc' = [pc EXCEPT ![a] = "idle"]
  /\ outerSince' = [outerSince EXCEPT ![a] = 0]
  /\ UNCHANGED <<clock, now, keys, newKeys, toSweep, since, deadBefore>>

-----------------------------------------------------------------------------
\* The process is killed: its memory goes, the registry file keeps its locks.
Die(a) ==
  /\ pc[a] # "dead"
  /\ pc' = [pc EXCEPT ![a] = "dead"]
  /\ newKeys' = [newKeys EXCEPT ![a] = {}]
  /\ outer' = [outer EXCEPT ![a] = FALSE]
  /\ toSweep' = [toSweep EXCEPT ![a] = {}]
  /\ since' = [since EXCEPT ![a] = [f \in File |-> 0]]
  /\ outerSince' = [outerSince EXCEPT ![a] = 0]
  /\ EndAttempt(a)
  /\ UNCHANGED <<clock, registry>>

\* The registry file becomes unreadable (once).
Corrupt ==
  /\ disk = "intact"
  /\ disk' = "unreadable"
  /\ UNCHANGED <<clock, locks, acquiredAt, pc, now, keys, newKeys, outer, toSweep, observers>>

Tick ==
  /\ clock < MaxClock
  /\ clock' = clock + 1
  /\ UNCHANGED <<registry, pc, now, keys, newKeys, outer, toSweep, observers>>

ActorStep(a) ==
  \/ BeginOuter(a) \/ BeginInner(a) \/ BeginTask(a)
  \/ \E h \in Actor : SweepOne(a, h)
  \/ SweepFails(a) \/ ReadClock(a)
  \/ AcquireOuter(a) \/ AcquireInner(a) \/ Refused(a)
  \/ EndWrite(a) \/ EndTask(a)

Next ==
  \/ \E a \in Actor : ActorStep(a) \/ Die(a)
  \/ Corrupt
  \/ Tick

Spec == Init /\ [][Next]_vars
-----------------------------------------------------------------------------
(***************************************************************************)
(* Properties.  check_access answers from what the registry object read    *)
(* at its own last acquire, so an actor that was granted a file believes   *)
(* it holds the file until it releases it.                                 *)
(***************************************************************************)
check_access(a, f) ==
  \/ pc[a] = "writing" /\ f \in keys[a]
  \/ outer[a] /\ f = Target[a]

GrantedAt(a, f) ==
  IF pc[a] = "writing" /\ f \in keys[a] THEN since[a][f] ELSE outerSince[a]

\* A lock of a granted at time t is old enough for some other actor's TTL.
Overdue(a, t) == \E b \in Actor \ {a} : TTL[b] # Never /\ clock - t > TTL[b]

(***************************************************************************)
(* acquire_detailed: while the registry file stays readable, two actors    *)
(* that both believe they hold a file are explained by age alone: the lock *)
(* of one of them has outlived the TTL another actor judges it by.         *)
(***************************************************************************)
NoTwoHolders ==
  disk = "intact" =>
    \A a, b \in Actor : \A f \in File :
      a # b /\ check_access(a, f) /\ check_access(b, f) =>
        Overdue(a, GrantedAt(a, f)) \/ Overdue(b, GrantedAt(b, f))

(***************************************************************************)
(* hold_target_lock nested in the file_lock capability: neither the inner  *)
(* release nor anybody's sweep drops the outer lock of a live task, which  *)
(* is lost to age alone.                                                   *)
(***************************************************************************)
OuterLockKept ==
  disk = "intact" =>
    \A a \in Actor :
      outer[a] /\ locks[Target[a]] # a => Overdue(a, outerSince[a])

(***************************************************************************)
(* release, release_files, release_task_locks, sweep_dead_seam_locks: the  *)
(* lock of a live holder becomes free only in a step of that holder; a     *)
(* holder that lost its lock to a takeover never frees the new holder's.   *)
(***************************************************************************)
OnlyHolderFrees ==
  [][\A f \in File :
       disk = "intact" /\ locks[f] # NoOne /\ locks'[f] = NoOne =>
         locks[f] \in Dead \/ pc'[locks[f]] # pc[locks[f]]]_vars

(***************************************************************************)
(* sweep_dead_seam_locks: when a seam asks for its files, none of the      *)
(* locks that refuse them is that of a seam process killed before the      *)
(* asker's sweep began, unless an error ended that sweep early.            *)
(***************************************************************************)
DeadSeamsNeverRefuse ==
  \A a \in Seam :
    pc[a] \in {"try_outer", "try_inner"} =>
      \A f \in Conflicts(a, keys[a]) : Loaded[f] \notin Seam \cap deadBefore[a]

(***************************************************************************)
(* run_under_target_lock: "acquire -> action -> release, so no other task  *)
(* can take the target between the check and the write".  Stated for an    *)
(* action that is shorter than every TTL, counted from the check.          *)
(***************************************************************************)
WriteIsUnderTheLock ==
  disk = "intact" =>
    \A a \in Actor :
      /\ pc[a] = "writing"
      /\ \A b \in Actor : TTL[b] # Never => clock - now[a] <= TTL[b]
      => locks[Target[a]] = a
=============================================================================
