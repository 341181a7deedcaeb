------------------------------- MODULE Outbox -------------------------------
(***************************************************************************)
(* What a waiting line of the event store service promises to its callers: *)
(* every accepted write is kept, and writes reach the event store once     *)
(* each, in the order in which they were accepted.  Nothing is said of how *)
(* the writes travel; WaitingLine.tla is the implementation.               *)
(***************************************************************************)
EXTENDS Sequences, Naturals, SequencesExt

CONSTANT Items      \* the writes the application may ask for, one per call

VARIABLES
    accepted,       \* the writes accepted so far, in order of acceptance
    stored          \* the event store's log of them

outboxVars == <<accepted, stored>>

Init ==
    /\ accepted = <<>>
    /\ stored = <<>>

(* The service accepts a new write. *)
Accept(i) ==
    /\ i \notin ToSet(accepted)
    /\ accepted' = Append(accepted, i)
    /\ UNCHANGED stored

(* The store receives the first accepted write it does not hold yet. *)
Deliver ==
    /\ Len(stored) < Len(accepted)
    /\ stored' = Append(stored, accepted[Len(stored) + 1])
    /\ UNCHANGED accepted

Next == Deliver \/ \E i \in Items : Accept(i)

Spec == Init /\ [][Next]_outboxVars
=============================================================================
