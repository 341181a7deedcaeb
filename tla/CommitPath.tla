----------------------------- MODULE CommitPath -----------------------------
(***************************************************************************)
(* The way of an event from an aggregate to the store: commit() calls the  *)
(* write event bus, which prepares and validates the events and gives them *)
(* to the event store publisher, which writes the stream's metadata and    *)
(* then the events to the service, whose two lines (WaitingLine.tla) are   *)
(* drained by these writes only.                                           *)
(*                                                                         *)
(* The array an aggregate commits is not copied until the prepare provider *)
(* or the publisher maps it, and can be cleared by another commit before.  *)
(***************************************************************************)
EXTENDS Naturals, Sequences, SequencesExt

CONSTANTS
    Events,           \* the events, one per call of apply
    Commits,          \* the calls of commit
    CommitsOverlap,   \* the application commits while a commit awaits
    Invalid,          \* the events that do not pass validation
    Bus, None

ASSUME PathAssumption ==
    /\ Invalid \subseteq Events
    /\ CommitsOverlap \in BOOLEAN
    /\ None \notin Commits

VARIABLES
    uncommitted, autoCommit, stage, at, copied, batch, applied, discarded,
    received, published,
    streamMetadata,   \* the aggregate has metadata to write
    withMetadata,     \* the commits whose context has some
    step              \* step[c]: what the publishing of c awaits

aggregateVars == <<uncommitted, autoCommit, stage, at, copied, batch,
                   applied, discarded, received, published>>

Aggregate == INSTANCE EventStoreAggregateRoot WITH
    Publishers <- <<Bus>>, AppliesDuringCommit <- FALSE, accepted <- published

VARIABLES
    connection,
    eventBatchesFifo, isTryingToWriteEvents, eventPhase, eventCurrent,
    eventResult, eventsSent, eventsStored, eventsAccepted
eventLine == <<eventBatchesFifo, isTryingToWriteEvents, eventPhase, eventCurrent,
               eventResult, eventsSent, eventsStored, eventsAccepted>>

VARIABLES
    metadatasFifo, isTryingToWriteMetadatas, metadataPhase, metadataCurrent,
    metadataResult, metadatasSent, metadatasStored, metadatasAccepted
metadataLine == <<metadatasFifo, isTryingToWriteMetadatas, metadataPhase, metadataCurrent,
                  metadataResult, metadatasSent, metadatasStored, metadatasAccepted>>

Ev == INSTANCE WaitingLine WITH
    Items <- Commits, Runs <- {}, YieldsAfterShift <- TRUE,
    fifo <- eventBatchesFifo, isTrying <- isTryingToWriteEvents,
    phase <- eventPhase, current <- eventCurrent, result <- eventResult,
    sent <- eventsSent, stored <- eventsStored, accepted <- eventsAccepted

Md == INSTANCE WaitingLine WITH
    Items <- Commits, Runs <- {}, YieldsAfterShift <- FALSE,
    fifo <- metadatasFifo, isTrying <- isTryingToWriteMetadatas,
    phase <- metadataPhase, current <- metadataCurrent, result <- metadataResult,
    sent <- metadatasSent, stored <- metadatasStored, accepted <- metadatasAccepted

contextVars == <<streamMetadata, withMetadata>>
pathVars == <<aggregateVars, contextVars, step>>
vars == <<pathVars, connection, eventLine, metadataLine>>

Init ==
    /\ Aggregate!Init
    /\ streamMetadata = FALSE
    /\ withMetadata = {}
    /\ step = [c \in Commits |-> "none"]
    /\ Ev!Init
    /\ Md!LineInit

Goto(c, s) == step' = [step EXCEPT ![c] = s]

(* The events the publishing of c has in its hands. *)
Held(c) == IF copied[c] THEN batch[c] ELSE uncommitted
-----------------------------------------------------------------------------
(* The aggregate. *)

AggregateChanges ==
    /\ \/ \E e \in Events : Aggregate!Apply(e)
       \/ Aggregate!Uncommit
    /\ UNCHANGED <<contextVars, step, connection, eventLine, metadataLine>>

SetStreamMetadata ==
    /\ ~streamMetadata
    /\ streamMetadata' = TRUE
    /\ UNCHANGED <<aggregateVars, withMetadata, step, connection, eventLine, metadataLine>>

(* commit() builds the context and calls the bus.  autoCommit, which makes *)
(* apply() call it at once, stays off here.                                *)
Commit(c) ==
    /\ Aggregate!Commit(c)
    /\ withMetadata' = IF streamMetadata THEN withMetadata \cup {c} ELSE withMetadata
    /\ Goto(c, "preparing")
    /\ UNCHANGED <<streamMetadata, connection, eventLine, metadataLine>>

(* The publishing of c throws: the array is left as it is. *)
Throws(c) ==
    /\ Aggregate!Fail(c)
    /\ Goto(c, "none")
    /\ UNCHANGED <<contextVars, connection, eventLine, metadataLine>>
-----------------------------------------------------------------------------
(* The write event bus. *)

(* A prepare provider returns the array it was given, or a new one; *)
(* without a provider it is the same array.                         *)
Prepared(c) ==
    /\ step[c] = "preparing"
    /\ UNCHANGED aggregateVars \/ Aggregate!Copies(c)
    /\ Goto(c, "validating")
    /\ UNCHANGED <<contextVars, connection, eventLine, metadataLine>>

(* The providers are the application's and may throw; validation finds     *)
(* errors; or the aggregate has no stream name and the array was cleared,  *)
(* so that there is no event to make a name from.                          *)
Refused(c) ==
    /\ step[c] \in {"preparing", "validating"}
    /\ Throws(c)

(* The publisher puts the events in the line, copied now if not before. *)
WritesEvents(c) ==
    /\ \/ copied[c] /\ UNCHANGED aggregateVars
       \/ ~copied[c] /\ Aggregate!Copies(c)
    /\ Ev!Stack(c) \/ Ev!StackAndDrain(c)
    /\ Goto(c, "events")
    /\ UNCHANGED <<contextVars, metadataLine>>

(* Bug: the errors that validation finds are not looked at. *)
ValidatedUnread(c) ==
    /\ step[c] = "validating"
    /\ \/ /\ c \in withMetadata
          /\ Md!Stack(c) \/ Md!StackAndDrain(c)
          /\ Goto(c, "metadata")
          /\ UNCHANGED <<aggregateVars, contextVars, eventLine>>
       \/ /\ c \notin withMetadata
          /\ WritesEvents(c)

(* Bug: the metadata is not written. *)
ValidatedWithoutMetadata(c) ==
    /\ step[c] = "validating"
    /\ ToSet(Held(c)) \cap Invalid = {}
    /\ WritesEvents(c)

(* Validation passed, and the publisher writes the metadata, if there is   *)
(* any, and else the events.                                               *)
Validated(c) ==
    /\ step[c] = "validating"
    /\ ToSet(Held(c)) \cap Invalid = {}
    /\ \/ /\ c \in withMetadata
          /\ Md!Stack(c) \/ Md!StackAndDrain(c)
          /\ Goto(c, "metadata")
          /\ UNCHANGED <<aggregateVars, contextVars, eventLine>>
       \/ /\ c \notin withMetadata
          /\ WritesEvents(c)
-----------------------------------------------------------------------------
(* The publisher, when the service's promises resolve. *)

(* Bug: only a result lets the publisher go on. *)
MetadataReturnedStored(c) ==
    /\ step[c] = "metadata"
    /\ metadataResult[c] # None
    /\ WritesEvents(c)

(* The metadata is written, or waits, or failed: no difference is made. *)
MetadataReturned(c) ==
    /\ step[c] = "metadata"
    /\ metadataPhase[c] \in {"done", "failed"}
    /\ WritesEvents(c)

(* Bug: the bus is not awaited, commit() returns before the events are in the line. *)
EventsReturnedUnawaited(c) ==
    /\ copied[c]
    /\ Aggregate!Finish(c)
    /\ Goto(c, "none")
    /\ UNCHANGED <<contextVars, connection, eventLine, metadataLine>>

(* The same of the events: commit() returns. *)
EventsReturned(c) ==
    /\ step[c] = "events"
    /\ eventPhase[c] \in {"done", "failed"}
    /\ Aggregate!Finish(c)
    /\ Goto(c, "none")
    /\ UNCHANGED <<contextVars, connection, eventLine, metadataLine>>

(* The hook that a failed write calls is missing, or throws. *)
HookThrows(c) ==
    /\ \/ step[c] = "metadata" /\ metadataPhase[c] = "failed"
       \/ step[c] = "events" /\ eventPhase[c] = "failed"
    /\ Throws(c)

PublishingStep(c) ==
    Prepared(c) \/ Refused(c) \/ Validated(c)
        \/ MetadataReturned(c) \/ EventsReturned(c) \/ HookThrows(c)
-----------------------------------------------------------------------------
(* The two lines. *)

EventsStep(c) ==
    /\ Ev!Answered(c) \/ Ev!Continue(c)
    /\ UNCHANGED <<pathVars, metadataLine>>

MetadatasStep(c) ==
    /\ Md!Answered(c)
    /\ UNCHANGED <<pathVars, eventLine>>

StoreAppliesEvents(c) == Ev!StoreApplies(c) /\ UNCHANGED <<pathVars, metadataLine>>
StoreAppliesMetadata(c) == Md!StoreApplies(c) /\ UNCHANGED <<pathVars, eventLine>>

Next ==
    \/ AggregateChanges \/ SetStreamMetadata
    \/ \E c \in Commits :
        \/ Commit(c) \/ PublishingStep(c)
        \/ EventsStep(c) \/ StoreAppliesEvents(c)
        \/ MetadatasStep(c) \/ StoreAppliesMetadata(c)

Spec == Init /\ [][Next]_vars

(* The providers answer, requests are answered or fail at their deadline,  *)
(* and a resolved promise resumes its caller.                              *)
LiveSpec ==
    /\ Spec
    /\ \A c \in Commits :
        WF_vars(PublishingStep(c)) /\ WF_vars(EventsStep(c)) /\ WF_vars(MetadatasStep(c))
-----------------------------------------------------------------------------
TypeOK ==
    /\ Aggregate!TypeOK
    /\ Ev!TypeOK
    /\ Md!TypeOK
    /\ streamMetadata \in BOOLEAN
    /\ withMetadata \subseteq Commits
    /\ step \in [Commits -> {"none", "preparing", "validating", "metadata", "events"}]
    /\ \A c \in Commits : step[c] # "none" <=> stage[c] = "publishing"

InBatches(line) == UNION {ToSet(batch[c]) : c \in ToSet(line)}

(* From the aggregate to the store: an event that was applied, and not     *)
(* discarded, is in the aggregate, in the line, or in the store, whatever  *)
(* commits overlap and whichever of them fail half way.                    *)
AppliedIsKept ==
    ToSet(applied) \subseteq
        ToSet(uncommitted) \cup discarded
            \cup InBatches(eventBatchesFifo) \cup InBatches(eventsStored)

(* The store receives an event only together with or after all that were   *)
(* applied before it.                                                      *)
StoredAsApplied ==
    \A k \in DOMAIN eventsStored : \A j \in DOMAIN applied :
        applied[j] \in ToSet(batch[eventsStored[k]]) =>
            ToSet(SubSeq(applied, 1, j)) \subseteq
                discarded \cup InBatches(SubSeq(eventsStored, 1, k))

(* Events that do not pass validation never get into the line. *)
OnlyValidWritten == InBatches(eventsAccepted) \cap Invalid = {}

(* Events in the line or in the store were preceded by their metadata,     *)
(* which is in the store or still in its own line, never dropped.          *)
MetadataFirst ==
    ToSet(eventsAccepted) \cap withMetadata
        \subseteq ToSet(metadatasStored) \cup ToSet(metadatasFifo)

(* A commit returns or throws, store reachable or not: it never waits for  *)
(* the writes that are stacked behind a failed one.                        *)
CommitEnds == \A c \in Commits : stage[c] = "publishing" ~> stage[c] # "publishing"
=============================================================================
