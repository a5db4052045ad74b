------------------------------ MODULE MCLocks ------------------------------
(* Small instances of Locks for TLC.                                       *)
EXTENDS Locks, TLC

CONSTANTS r1, r2, t1, t2, marie, root, scene, arena

AllReplicas == {r1, r2}
OneReplica  == {r1}
TwoTasks    == {t1, t2}
Pair        == {marie, root}
Root        == {root}
OnePath     == {scene}
TwoPaths    == {scene, arena}
OneSlot     == {0}
SameGate    == [p \in Paths |-> 0]

InStep  == [r \in Replicas |-> 0]
Ahead   == [r \in Replicas |-> IF r = r2 THEN 1 ELSE 0]

TaskSymmetry == Permutations(Tasks)
=============================================================================
