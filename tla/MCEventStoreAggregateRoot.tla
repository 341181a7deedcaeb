---------------------- MODULE MCEventStoreAggregateRoot ----------------------
(* EventStoreAggregateRoot with a few events, commits and publishers. *)
EXTENDS EventStoreAggregateRoot, TLC

CONSTANTS e1, e2, e3, c1, c2, c3, p1, p2

ThreeEvents == {e1, e2, e3}
ThreeCommits == {c1, c2, c3}
TwoPublishers == <<p1, p2>>

EventAndCommitSymmetry == Permutations(Events) \cup Permutations(Commits)
=============================================================================
