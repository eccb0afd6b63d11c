------------------------------ MODULE MCFileLocks ------------------------------
(***************************************************************************)
(* Two seam processes on one target, one of which also writes a companion  *)
(* file, and a plain task that holds the companion and never takes over.   *)
(***************************************************************************)
EXTENDS FileLocks

CONSTANTS seam1, seam2, task, f1, f2

MCActor == {seam1, seam2, task}
MCSeam == {seam1, seam2}
MCFile == {f1, f2}
MCTarget == [a \in MCActor |-> IF a = task THEN f2 ELSE f1]
MCCompanion == [a \in MCActor |-> IF a = seam2 THEN {f2} ELSE {}]
MCTTL == [a \in MCActor |-> IF a = task THEN Never ELSE 1]

(***************************************************************************)
(* Both seams on the target, and a second task on the same target that     *)
(* takes over only after twice the time.                                   *)
(***************************************************************************)
MCSameTarget == [a \in MCActor |-> f1]
MCNoCompanion == [a \in MCActor |-> {}]
MCMixedTTL == [a \in MCActor |-> IF a = task THEN 2 ELSE 1]
=============================================================================
