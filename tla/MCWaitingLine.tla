---------------------------- MODULE MCWaitingLine ----------------------------
(* WaitingLine on small sets of writes and of runs of connect(). *)
EXTENDS WaitingLine, TLC

CONSTANTS w1, w2, w3, r1, r2

ThreeWrites == {w1, w2, w3}
OneRun == {r1}
TwoRuns == {r1, r2}
NoRuns == {}

(* The model values are interchangeable: no action names one of them. *)
ItemAndRunSymmetry == Permutations(Items) \cup Permutations(Runs)
=============================================================================
