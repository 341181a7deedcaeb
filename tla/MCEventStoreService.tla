------------------------ MODULE MCEventStoreService ------------------------
(* EventStoreService on small configurations of subsystems and of writes. *)
EXTENDS EventStoreService, TLC

CONSTANTS s1, s2, p1, p2, r1, r2, r3, e1, m1

Nothing == <<>>
NoItems == {}
OneSubscription == <<s1>>
TwoSubscriptions == <<s1, s2>>
TwoProjections == <<p1, p2>>
LastProjection == {p2}
TwoRuns == {r1, r2}
ThreeRuns == {r1, r2, r3}
OneEvent == {e1}
OneMetadata == {m1}

(* Configurations: everything given, and one member left out. *)
Complete == [settings |-> Subs, onError |-> Subs, hook |-> TRUE]
NoHook == [Complete EXCEPT !.hook = FALSE]

OnlyComplete == {Complete}
WithAndWithoutHook == {Complete, NoHook}
SomeLeftOut == {Complete, [Complete EXCEPT !.settings = {s1}], [Complete EXCEPT !.onError = {s1}]}

(* The runs are interchangeable: no action names one of them. *)
RunSymmetry == Permutations(Runs)
=============================================================================
