---------------------------- MODULE MCMonitoring ----------------------------
(* Model values for module Monitoring: windows and systems.                *)
EXTENDS Monitoring, TLC

CONSTANTS w1, w2, pc1, jita, amarr

OneWindow == {w1}
TwoWindows == {w1, w2}
WindowAndParent == {w1, pc1}
TwoWindowsAndParent == {w1, w2, pc1}

TwoWindowSymmetry == Permutations(TwoWindows)

NoWindow == {}
BothWindows == {w1, pc1}

OneSystem == {jita}
TwoSystems == {jita, amarr}

SystemSymmetry == Permutations(TwoSystems)

\* w1 runs on machine pc1; the other windows are those of other machines.
Machines == [c \in Clients |-> IF c = w1 THEN {pc1} \cap Clients ELSE {}]

NoMachines == [c \in Clients |-> {}]

\* Uploads and sessions per window.
One == [c \in Clients |-> 1]
Two == [c \in Clients |-> 2]
Three == [c \in Clients |-> 3]

\* The bare identity of an old binary reports once.
ThreeThenOne == [c \in Clients |-> IF c = pc1 THEN 1 ELSE 3]
TwoThenOne == [c \in Clients |-> IF c = pc1 THEN 1 ELSE 2]

CompleteOrTruncated == {"complete", "truncated"}
OnlyComplete == {"complete"}
NoQualities == {}
=============================================================================
