---------------------------- MODULE AggregateRoot ----------------------------
(***************************************************************************)
(* cqrs/aggregate-root.ts: commit() clears the array first, and then       *)
(* publishes it: the events it kept aside are the array itself, not a copy. *)
(***************************************************************************)
EXTENDS Aggregate

Apply(e) ==
    /\ ~autoCommit /\ MayApply
    /\ Add(e)
    /\ uncommitted' = Append(uncommitted, e)
    /\ UNCHANGED <<autoCommit, commitVars, discarded, publisherVars>>

(* apply under autoCommit commits at once: the event is cleared. *)
ApplyAndCommit(e, c) ==
    /\ autoCommit /\ MayApply /\ MayCommit
    /\ Add(e)
    /\ uncommitted' = <<>>
    /\ Starts(c)
    /\ UNCHANGED <<autoCommit, discarded, publisherVars>>

Commit(c) ==
    /\ MayCommit
    /\ Starts(c)
    /\ uncommitted' = <<>>
    /\ UNCHANGED <<autoCommit, applied, discarded, publisherVars>>

(* unshift(...events) puts the array in front of itself. *)
Fail(c) == Throws(c) /\ uncommitted' = uncommitted \o uncommitted

Finish(c) == Returns(c) /\ UNCHANGED uncommitted

Next ==
    \/ \E e \in Events : Apply(e) \/ \E c \in Commits : ApplyAndCommit(e, c)
    \/ Uncommit \/ SetAutoCommit
    \/ \E c \in Commits : Commit(c) \/ Copies(c) \/ CallsNext(c) \/ Finish(c) \/ Fail(c)

Spec == Init /\ [][Next]_vars
=============================================================================
