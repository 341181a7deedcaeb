----------------------- MODULE EventStoreAggregateRoot -----------------------
(***************************************************************************)
(* event-store/event-store-aggregate-root.ts: commit() publishes the array *)
(* and clears it when all publishers are done.                             *)
(***************************************************************************)
EXTENDS Aggregate

(* Bug: a new event is put first. *)
ApplyFirst(e) ==
    /\ ~autoCommit /\ MayApply
    /\ Add(e)
    /\ uncommitted' = <<e>> \o uncommitted
    /\ UNCHANGED <<autoCommit, commitVars, discarded, publisherVars>>

Apply(e) ==
    /\ ~autoCommit /\ MayApply
    /\ Add(e)
    /\ uncommitted' = Append(uncommitted, e)
    /\ UNCHANGED <<autoCommit, commitVars, discarded, publisherVars>>

(* apply under autoCommit commits at once. *)
ApplyAndCommit(e, c) ==
    /\ autoCommit /\ MayApply /\ MayCommit
    /\ Add(e)
    /\ uncommitted' = Append(uncommitted, e)
    /\ Starts(c)
    /\ UNCHANGED <<autoCommit, discarded, publisherVars>>

(* commit(), or the commit an event of the history starts under autoCommit. *)
Commit(c) ==
    /\ MayCommit
    /\ Starts(c)
    /\ UNCHANGED <<uncommitted, autoCommit, applied, discarded, publisherVars>>

(* Bug: the array is cleared whatever becomes of the publishing. *)
FailClearing(c) == Throws(c) /\ uncommitted' = <<>>

Fail(c) == Throws(c) /\ UNCHANGED uncommitted

(* Bug: of commits that overlap only the last one clears the array. *)
FinishClearingLast(c) ==
    /\ Returns(c)
    /\ uncommitted' = IF \E d \in Commits \ {c} : stage[d] = "publishing"
                      THEN uncommitted ELSE <<>>

(* All events there are now are cleared, copied by the publishers or not.  *)
Finish(c) == Returns(c) /\ uncommitted' = <<>>

Next ==
    \/ \E e \in Events : Apply(e) \/ \E c \in Commits : ApplyAndCommit(e, c)
    \/ Uncommit \/ SetAutoCommit
    \/ \E c \in Commits : Commit(c) \/ Copies(c) \/ CallsNext(c) \/ Finish(c) \/ Fail(c)

Spec == Init /\ [][Next]_vars
-----------------------------------------------------------------------------
(* Once a commit has returned, no publisher copies again what it gave to   *)
(* the last one: an event is published anew only by a commit whose         *)
(* publisher had copied it before, or after a commit that threw.           *)
ReturnedForGood ==
    [][\A c, d \in Commits : stage[c] = "done" /\ ~copied[d] /\ copied'[d] =>
        ToSet(batch'[d]) \cap ToSet(batch[c]) = {}]_vars
=============================================================================
