---------------------------- MODULE MCPrepublish ----------------------------
(***************************************************************************)
(* Three events for TLC: one plain, two versioned, which may be one with   *)
(* data its class refuses and one with the version 0; contexts that are    *)
(* whole, without a correlation id, or without a hostname; events that are *)
(* given nothing, a correlation id and a type, or a version with no value. *)
(***************************************************************************)
EXTENDS Prepublish, TLC

CONSTANTS plain, second, third, one, other, custom

Class(version, sound) == [version |-> version, sound |-> sound]

MCClasses ==
    {[e \in Events |-> CASE e = plain  -> Class(Absent, TRUE)
                         [] e = second -> Class(2, sound)
                         [] e = third  -> Class(v, TRUE)] :
        <<sound, v>> \in {<<TRUE, 3>>, <<FALSE, 0>>}}

(* The plain event alone, and pairs of it and a versioned one. *)
MCBatches == {<<plain>>, <<plain, second>>, <<second, plain>>, <<second, third>>}

MCContexts ==
    {[correlation |-> c, hostname |-> TRUE] : c \in {one, other, Undefined}}
        \cup {[correlation |-> Undefined, hostname |-> FALSE]}

Nothing == [key \in Keys |-> Absent]
MCPartials ==
    {Nothing, [Nothing EXCEPT !.correlation_id = one, !.type = custom],
     [Nothing EXCEPT !.version = Undefined]}

(* The publications are interchangeable. *)
Symmetry == Permutations(Publications)
=============================================================================
