---------------------------- MODULE MCCommitPath ----------------------------
(* CommitPath with a few events and commits. *)
EXTENDS CommitPath, TLC

CONSTANTS e1, e2, e3, c1, c2

ThreeEvents == {e1, e2, e3}
SecondEvent == {e2}
TwoCommits == {c1, c2}
=============================================================================
