---------------------------- MODULE AtLeastOnce ----------------------------
(***************************************************************************)
(* What a persistent subscription promises for events whose handlers       *)
(* acknowledge them: an event is released only after a handler has been    *)
(* through with it.  It may be handled several times, even after that, and *)
(* the store may give it up and put it aside.  Delivery.tla is the         *)
(* implementation.                                                         *)
(***************************************************************************)

CONSTANT Items      \* the events of the stream

VARIABLES
    pending,        \* the events under the promise that the store still holds
    released,       \* those it forgot because they were acknowledged
    handled         \* the events a handler has been through with

promiseVars == <<pending, released, handled>>

Init ==
    /\ pending \in SUBSET Items
    /\ released = {}
    /\ handled = {}

Handle(i) ==
    /\ handled' = handled \cup {i}
    /\ UNCHANGED <<pending, released>>

Release(i) ==
    /\ i \in pending \cap handled
    /\ pending' = pending \ {i}
    /\ released' = released \cup {i}
    /\ UNCHANGED handled

(* The end of the retries, or a handler that refuses the event. *)
GiveUp(aside) ==
    /\ pending' = pending \ aside
    /\ UNCHANGED <<released, handled>>

Next ==
    \/ \E i \in Items : Handle(i) \/ Release(i)
    \/ \E aside \in SUBSET Items : GiveUp(aside)

Spec == Init /\ [][Next]_promiseVars
=============================================================================
