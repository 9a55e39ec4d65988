---------------------------- MODULE MCProcessing ----------------------------
(* Instances of Processing for TLC. *)
EXTENDS Processing, TLC

TwoMessages == 1 .. 2
ThreeMessages == 1 .. 3
NoMessage == {}
Oldest == {1}
Second == {2}

RunnerSymmetry == Permutations(Runners)
=============================================================================
