------------------------------ MODULE Aggregate ------------------------------
(***************************************************************************)
(* What the two aggregate roots share (cqrs/aggregate-root.ts): the array  *)
(* of uncommitted events, applying and discarding events, and the          *)
(* publishers that a commit calls one after the other.  A commit gives     *)
(* them the array itself; a publisher is asynchronous and copies it when   *)
(* it comes to it (the write event bus after it resolved its providers,    *)
(* the event store publisher after it wrote the metadata).                 *)
(***************************************************************************)
EXTENDS Naturals, Sequences, SequencesExt

CONSTANTS
    Events,                \* the events, one per call of apply
    Commits,               \* the calls of commit
    Publishers,            \* the publishers added, a sequence
    AppliesDuringCommit,   \* the application applies while a commit awaits
    CommitsOverlap         \* the application commits while a commit awaits

ASSUME AggregateAssumption ==
    /\ Publishers \in Seq(ToSet(Publishers))
    /\ IsInjective(Publishers) /\ Publishers # <<>>
    /\ {AppliesDuringCommit, CommitsOverlap} \subseteq BOOLEAN

VARIABLES
    uncommitted,   \* INTERNAL_EVENTS
    autoCommit,    \* IS_AUTO_COMMIT_ENABLED
    stage,         \* stage[c]: "idle", "publishing", "done" or "failed"
    at,            \* at[c]: the number of the publisher c awaits
    copied,        \* copied[c]: that publisher has copied the array ...
    batch,         \* batch[c]: ... and this is the copy

    applied,       \* history: the events applied, in order
    discarded,     \* history: those uncommit() removed
    received,      \* received[p]: history: the events p copied, in order
    accepted       \* accepted[p]: history: the events p published

commitVars == <<stage, at, copied, batch>>
publisherVars == <<received, accepted>>
vars == <<uncommitted, autoCommit, commitVars, applied, discarded, publisherVars>>

Init ==
    /\ uncommitted = <<>>
    /\ autoCommit = FALSE
    /\ stage = [c \in Commits |-> "idle"]
    /\ at = [c \in Commits |-> 1]
    /\ copied = [c \in Commits |-> FALSE]
    /\ batch = [c \in Commits |-> <<>>]
    /\ applied = <<>>
    /\ discarded = {}
    /\ received = [p \in ToSet(Publishers) |-> <<>>]
    /\ accepted = [p \in ToSet(Publishers) |-> {}]

Committing == \E c \in Commits : stage[c] = "publishing"
Publisher(c) == Publishers[at[c]]

(* What the application waits for before it applies, and before it commits. *)
MayApply == ~Committing \/ AppliesDuringCommit
MayCommit == ~Committing \/ CommitsOverlap

SetAutoCommit ==
    /\ autoCommit' \in BOOLEAN
    /\ UNCHANGED <<uncommitted, commitVars, applied, discarded, publisherVars>>

(* apply(e) and commit(), but for what they do to the array. *)
Add(e) ==
    /\ e \notin ToSet(applied)
    /\ applied' = Append(applied, e)

Starts(c) ==
    /\ stage[c] = "idle"
    /\ stage' = [stage EXCEPT ![c] = "publishing"]
    /\ UNCHANGED <<at, copied, batch>>

(* uncommit() *)
Uncommit ==
    /\ MayApply
    /\ uncommitted' = <<>>
    /\ discarded' = discarded \cup ToSet(uncommitted)
    /\ UNCHANGED <<autoCommit, commitVars, applied, publisherVars>>

(* The publisher that c awaits copies the array, as it is now. *)
Copies(c) ==
    /\ stage[c] = "publishing" /\ ~copied[c]
    /\ copied' = [copied EXCEPT ![c] = TRUE]
    /\ batch' = [batch EXCEPT ![c] = uncommitted]
    /\ received' = [received EXCEPT ![Publisher(c)] = @ \o uncommitted]
    /\ UNCHANGED <<uncommitted, autoCommit, stage, at, applied, discarded, accepted>>

(* It has published its copy: c calls the next one ... *)
CallsNext(c) ==
    /\ stage[c] = "publishing" /\ copied[c]
    /\ at[c] < Len(Publishers)
    /\ at' = [at EXCEPT ![c] = @ + 1]
    /\ copied' = [copied EXCEPT ![c] = FALSE]
    /\ accepted' = [accepted EXCEPT ![Publisher(c)] = @ \cup ToSet(batch[c])]
    /\ UNCHANGED <<uncommitted, autoCommit, stage, batch, applied, discarded, received>>

(* ... or, after the last, returns. *)
Returns(c) ==
    /\ stage[c] = "publishing" /\ copied[c]
    /\ at[c] = Len(Publishers)
    /\ stage' = [stage EXCEPT ![c] = "done"]
    /\ accepted' = [accepted EXCEPT ![Publisher(c)] = @ \cup ToSet(batch[c])]
    /\ UNCHANGED <<autoCommit, at, copied, batch, applied, discarded, received>>

(* It rejects, before or after it copied the array: c throws. *)
Throws(c) ==
    /\ stage[c] = "publishing"
    /\ stage' = [stage EXCEPT ![c] = "failed"]
    /\ UNCHANGED <<autoCommit, at, copied, batch, applied, discarded, publisherVars>>
-----------------------------------------------------------------------------
TypeOK ==
    /\ uncommitted \in Seq(Events)
    /\ autoCommit \in BOOLEAN
    /\ stage \in [Commits -> {"idle", "publishing", "done", "failed"}]
    /\ at \in [Commits -> 1..Len(Publishers)]
    /\ copied \in [Commits -> BOOLEAN]
    /\ batch \in [Commits -> Seq(Events)]
    /\ applied \in Seq(Events)
    /\ discarded \subseteq Events
    /\ received \in [ToSet(Publishers) -> Seq(Events)]
    /\ accepted \in [ToSet(Publishers) -> SUBSET Events]

(* An event leaves the array only when every publisher has published it or *)
(* the application discarded it.                                           *)
ClearedMeansPublished ==
    ToSet(applied) \subseteq
        ToSet(uncommitted) \cup discarded
            \cup {e \in Events : \A p \in ToSet(Publishers) : e \in accepted[p]}

(* A publisher never gets an event before one that was applied earlier.    *)
ReceivedInOrder ==
    \A p \in ToSet(Publishers) : \A k \in DOMAIN received[p] : \A j \in DOMAIN applied :
        \/ applied[j] \in discarded \cup ToSet(SubSeq(received[p], 1, k))
        \/ \E i \in 1..(j - 1) : applied[i] = received[p][k]
-----------------------------------------------------------------------------
(* What the documentation and the comments say, and the code does not do.  *)

(* aggregate-root.ts, of commit(): "publish the event"; the examples:      *)
(* commit() writes "all events on aggregate".  When no commit is at work,  *)
(* what was applied is still in the array, or published, or discarded.     *)
CommittedMeansPublished == Committing \/ ClearedMeansPublished
=============================================================================
