-------------------------- MODULE CommitPathProofs --------------------------
(***************************************************************************)
(* CommitPath, for any events, commits and failures.  What the two lines   *)
(* do is taken from WaitingLineProofs.tla; here is what the aggregate, the *)
(* bus and the publisher do with the writes that the lines accept.         *)
(***************************************************************************)
EXTENDS CommitPath, SequenceTheorems, TLAPS

EvP == INSTANCE WaitingLineProofs WITH
    Items <- Commits, Runs <- {}, YieldsAfterShift <- TRUE,
    fifo <- eventBatchesFifo, isTrying <- isTryingToWriteEvents,
    phase <- eventPhase, current <- eventCurrent, result <- eventResult,
    sent <- eventsSent, stored <- eventsStored, accepted <- eventsAccepted

MdP == INSTANCE WaitingLineProofs WITH
    Items <- Commits, Runs <- {}, YieldsAfterShift <- FALSE,
    fifo <- metadatasFifo, isTrying <- isTryingToWriteMetadatas,
    phase <- metadataPhase, current <- metadataCurrent, result <- metadataResult,
    sent <- metadatasSent, stored <- metadatasStored, accepted <- metadatasAccepted

AgP == INSTANCE AggregateProofs WITH
    Publishers <- <<Bus>>, AppliesDuringCommit <- FALSE, accepted <- published

EventsInv == EvP!TypeOK /\ EvP!WriteOnlyInv
MetadatasInv == MdP!TypeOK /\ MdP!WriteOnlyInv

LEMMA LineAssumptions == EvP!LineAssumption /\ MdP!LineAssumption
  BY PathAssumption DEF EvP!LineAssumption, MdP!LineAssumption
-----------------------------------------------------------------------------
(* The lines. *)

EventsLineStep(c) ==
    Ev!Stack(c) \/ Ev!StackAndDrain(c) \/ Ev!Answered(c) \/ Ev!Continue(c) \/ Ev!StoreApplies(c)

MetadatasLineStep(c) ==
    Md!Stack(c) \/ Md!StackAndDrain(c) \/ Md!Answered(c) \/ Md!StoreApplies(c)

LEMMA EventsLineMoves ==
    ASSUME NEW c \in Commits, EventsLineStep(c)
    PROVE  EvP!Next
<1>1. Ev!Drainers = Commits /\ EvP!Drainers = Commits
  BY DEF Ev!Drainers, EvP!Drainers
<1>2. \/ EvP!Stack(c) \/ EvP!StackAndDrain(c) \/ EvP!StoreApplies(c)
      \/ EvP!Resolve(c) \/ EvP!Continue(c) \/ EvP!Reject(c)
  BY DEF EventsLineStep, Ev!Answered,
         Ev!Stack, Ev!StackAndDrain, Ev!StoreApplies, Ev!Resolve, Ev!Continue, Ev!Reject,
         Ev!Iterate, Ev!Send, Ev!Leave, Ev!Shift, Ev!ToSet,
         EvP!Stack, EvP!StackAndDrain, EvP!StoreApplies, EvP!Resolve, EvP!Continue, EvP!Reject,
         EvP!Iterate, EvP!Send, EvP!Leave, EvP!Shift, EvP!ToSet
<1> QED  BY <1>1, <1>2 DEF EvP!Next

LEMMA MetadatasLineMoves ==
    ASSUME NEW c \in Commits, MetadatasLineStep(c)
    PROVE  MdP!Next
<1>1. Md!Drainers = Commits /\ MdP!Drainers = Commits
  BY DEF Md!Drainers, MdP!Drainers
<1>2. \/ MdP!Stack(c) \/ MdP!StackAndDrain(c) \/ MdP!StoreApplies(c)
      \/ MdP!Resolve(c) \/ MdP!Reject(c)
  BY DEF MetadatasLineStep, Md!Answered,
         Md!Stack, Md!StackAndDrain, Md!StoreApplies, Md!Resolve, Md!Reject,
         Md!Iterate, Md!Send, Md!Leave, Md!Shift, Md!ToSet,
         MdP!Stack, MdP!StackAndDrain, MdP!StoreApplies, MdP!Resolve, MdP!Reject,
         MdP!Iterate, MdP!Send, MdP!Leave, MdP!Shift, MdP!ToSet
<1> QED  BY <1>1, <1>2 DEF MdP!Next

(* Every step is one of each line, or leaves it alone. *)
LEMMA EventsLineCases ==
    ASSUME [Next]_vars
    PROVE  \/ \E c \in Commits : EventsLineStep(c)
           \/ UNCHANGED eventLine /\ connection' \in {connection, "down"}
<1> DEFINE Goal == \/ \E c \in Commits : EventsLineStep(c)
                   \/ UNCHANGED eventLine /\ connection' \in {connection, "down"}
<1>1. CASE AggregateChanges \/ SetStreamMetadata \/ UNCHANGED vars
  BY <1>1 DEF AggregateChanges, SetStreamMetadata, vars
<1>2. ASSUME NEW c \in Commits,
             Commit(c) \/ Prepared(c) \/ Refused(c) \/ EventsReturned(c) \/ HookThrows(c)
      PROVE  Goal
  BY <1>2 DEF Commit, Prepared, Refused, EventsReturned, HookThrows, Throws
<1>3. ASSUME NEW c \in Commits, WritesEvents(c)
      PROVE  Goal
  BY <1>3 DEF WritesEvents, EventsLineStep
<1>4. ASSUME NEW c \in Commits, Validated(c) \/ MetadataReturned(c)
      PROVE  Goal
  BY <1>3, <1>4 DEF Validated, MetadataReturned, Md!Stack, Md!StackAndDrain
<1>5. ASSUME NEW c \in Commits, EventsStep(c) \/ StoreAppliesEvents(c)
      PROVE  Goal
  BY <1>5 DEF EventsStep, StoreAppliesEvents, EventsLineStep
<1>6. ASSUME NEW c \in Commits, MetadatasStep(c) \/ StoreAppliesMetadata(c)
      PROVE  Goal
  BY <1>6 DEF MetadatasStep, StoreAppliesMetadata, Md!Answered, Md!Resolve, Md!Reject,
              Md!StoreApplies
<1> QED  BY <1>1, <1>2, <1>4, <1>5, <1>6 DEF Next, PublishingStep

LEMMA MetadatasLineCases ==
    ASSUME [Next]_vars
    PROVE  \/ \E c \in Commits : MetadatasLineStep(c)
           \/ UNCHANGED metadataLine /\ connection' \in {connection, "down"}
<1> DEFINE Goal == \/ \E c \in Commits : MetadatasLineStep(c)
                   \/ UNCHANGED metadataLine /\ connection' \in {connection, "down"}
<1>1. CASE AggregateChanges \/ SetStreamMetadata \/ UNCHANGED vars
  BY <1>1 DEF AggregateChanges, SetStreamMetadata, vars
<1>2. ASSUME NEW c \in Commits,
             Commit(c) \/ Prepared(c) \/ Refused(c) \/ EventsReturned(c) \/ HookThrows(c)
      PROVE  Goal
  BY <1>2 DEF Commit, Prepared, Refused, EventsReturned, HookThrows, Throws
<1>3. ASSUME NEW c \in Commits, WritesEvents(c)
      PROVE  Goal
  BY <1>3 DEF WritesEvents, Ev!Stack, Ev!StackAndDrain
<1>4. ASSUME NEW c \in Commits, Validated(c) \/ MetadataReturned(c)
      PROVE  Goal
  BY <1>3, <1>4 DEF Validated, MetadataReturned, MetadatasLineStep
<1>5. ASSUME NEW c \in Commits, EventsStep(c) \/ StoreAppliesEvents(c)
      PROVE  Goal
  BY <1>5 DEF EventsStep, StoreAppliesEvents, Ev!Answered, Ev!Resolve, Ev!Reject,
              Ev!Continue, Ev!StoreApplies
<1>6. ASSUME NEW c \in Commits, MetadatasStep(c) \/ StoreAppliesMetadata(c)
      PROVE  Goal
  BY <1>6 DEF MetadatasStep, StoreAppliesMetadata, MetadatasLineStep
<1> QED  BY <1>1, <1>2, <1>4, <1>5, <1>6 DEF Next, PublishingStep

LEMMA EventsKeep ==
    ASSUME EventsInv, [Next]_vars
    PROVE  EventsInv'
<1>1. ASSUME EvP!Next PROVE EventsInv'
  BY <1>1, LineAssumptions, EvP!NextIsLineStep, EvP!TypeStep, EvP!WriteOnlyStep
  DEF EventsInv, EvP!TypeOK, EvP!LineStep
<1>2. ASSUME UNCHANGED eventLine, connection' \in {connection, "down"} PROVE EventsInv'
  BY <1>2 DEF eventLine, EventsInv, EvP!TypeOK, EvP!LineTypeOK, EvP!WriteOnlyInv, EvP!LoneInv,
              EvP!FlagInv, EvP!LockInv, EvP!QueueInv, EvP!LogInv, EvP!OwnFirst, EvP!AtMostOneDrain, EvP!Active, EvP!Shifted
<1> QED  BY <1>1, <1>2, EventsLineCases, EventsLineMoves

LEMMA MetadatasKeep ==
    ASSUME MetadatasInv, [Next]_vars
    PROVE  MetadatasInv'
<1>1. ASSUME MdP!Next PROVE MetadatasInv'
  BY <1>1, LineAssumptions, MdP!NextIsLineStep, MdP!TypeStep, MdP!WriteOnlyStep
  DEF MetadatasInv, MdP!TypeOK, MdP!LineStep
<1>2. ASSUME UNCHANGED metadataLine, connection' \in {connection, "down"} PROVE MetadatasInv'
  BY <1>2 DEF metadataLine, MetadatasInv, MdP!TypeOK, MdP!LineTypeOK, MdP!WriteOnlyInv, MdP!LoneInv,
              MdP!FlagInv, MdP!LockInv, MdP!QueueInv, MdP!LogInv, MdP!OwnFirst, MdP!AtMostOneDrain, MdP!Active,
              MdP!Shifted
<1> QED  BY <1>1, <1>2, MetadatasLineCases, MetadatasLineMoves

LEMMA LinesStart == Init => EventsInv /\ MetadatasInv
<1> SUFFICES ASSUME Init PROVE EventsInv /\ MetadatasInv
  OBVIOUS
<1>1. Ev!Drainers = Commits /\ EvP!Drainers = Commits /\ Md!Drainers = Commits /\ MdP!Drainers = Commits
  BY DEF Ev!Drainers, EvP!Drainers, Md!Drainers, MdP!Drainers
<1>2. EvP!Init /\ MdP!Init
  BY <1>1 DEF Init, Ev!Init, Ev!LineInit, Md!LineInit, EvP!Init, EvP!LineInit, MdP!Init,
              MdP!LineInit
<1> QED
  BY <1>2, LineAssumptions, EvP!TypeInit, EvP!WriteOnlyInit, MdP!TypeInit, MdP!WriteOnlyInit
  DEF EventsInv, MetadatasInv, EvP!Init, MdP!Init

(* The log is the beginning of the accepted writes, the line their end. *)
LEMMA EventsAre ==
    ASSUME EventsInv
    PROVE  /\ eventsAccepted \in Seq(Commits) /\ eventsStored \in Seq(Commits)
           /\ Len(eventsStored) <= Len(eventsAccepted)
           /\ \A k \in 1 .. Len(eventsStored) : eventsStored[k] = eventsAccepted[k]
           /\ ToSet(eventsAccepted) = ToSet(eventsStored) \cup ToSet(eventBatchesFifo)
<1>1. /\ eventsAccepted \in Seq(Commits) /\ eventsStored \in Seq(Commits)
      /\ eventBatchesFifo \in Seq(Commits)
  BY DEF EventsInv, EvP!TypeOK, EvP!LineTypeOK
<1>2. /\ Len(eventsAccepted) \in Nat /\ Len(eventsStored) \in Nat
      /\ Len(eventBatchesFifo) \in Nat
      /\ DOMAIN eventsAccepted = 1 .. Len(eventsAccepted)
      /\ DOMAIN eventsStored = 1 .. Len(eventsStored)
      /\ DOMAIN eventBatchesFifo = 1 .. Len(eventBatchesFifo)
  BY <1>1, LenProperties
<1> DEFINE n == Len(eventsAccepted) - Len(eventBatchesFifo)
<1>3. /\ n \in Nat /\ Len(eventBatchesFifo) <= Len(eventsAccepted)
      /\ \A k \in 1 .. Len(eventBatchesFifo) : eventBatchesFifo[k] = eventsAccepted[n + k]
  BY <1>2 DEF EventsInv, EvP!WriteOnlyInv, EvP!LoneInv, EvP!QueueInv, EvP!Shifted
<1>4. /\ n <= Len(eventsStored) /\ Len(eventsStored) <= Len(eventsAccepted)
      /\ \A k \in 1 .. Len(eventsStored) : eventsStored[k] = eventsAccepted[k]
  <2>1. EvP!LogInv
    BY DEF EventsInv, EvP!WriteOnlyInv, EvP!LoneInv
  <2>2. Len(eventsStored) = n \/ Len(eventsStored) = n + 1
    BY <2>1 DEF EvP!LogInv, EvP!Shifted
  <2>3. n \in Nat /\ Len(eventsStored) \in Nat
    BY <1>2, <1>3
  <2>4. n <= Len(eventsStored)
    <3> HIDE DEF n
    <3> QED  BY <2>2, <2>3
  <2> QED  BY <2>1, <2>4 DEF EvP!LogInv
<1>5. ASSUME NEW k \in 1 .. Len(eventsAccepted)
      PROVE  eventsAccepted[k] \in ToSet(eventsStored) \cup ToSet(eventBatchesFifo)
  <2>1. CASE k <= n
    <3>1. k \in 1 .. Len(eventsStored)
      BY <1>2, <1>3, <1>4, <2>1
    <3>2. eventsStored[k] = eventsAccepted[k]
      BY <1>4, <3>1
    <3> QED  BY <1>2, <3>1, <3>2 DEF ToSet
  <2>2. CASE k > n
    <3>1. k - n \in 1 .. Len(eventBatchesFifo) /\ n + (k - n) = k
      BY <1>2, <1>3, <2>2
    <3> QED  BY <1>2, <1>3, <3>1 DEF ToSet
  <2> QED  BY <1>2, <1>3, <2>1, <2>2
<1>6. ToSet(eventsAccepted) \subseteq ToSet(eventsStored) \cup ToSet(eventBatchesFifo)
  BY <1>2, <1>5 DEF ToSet
<1>7. ToSet(eventsStored) \subseteq ToSet(eventsAccepted)
  BY <1>2, <1>4 DEF ToSet
<1>8. ToSet(eventBatchesFifo) \subseteq ToSet(eventsAccepted)
  <2>1. \A k \in 1 .. Len(eventBatchesFifo) : n + k \in 1 .. Len(eventsAccepted)
    BY <1>2, <1>3
  <2> QED  BY <1>2, <1>3, <2>1 DEF ToSet
<1> QED  BY <1>1, <1>4, <1>6, <1>7, <1>8

LEMMA MetadatasAre ==
    ASSUME MetadatasInv
    PROVE  /\ metadatasAccepted \in Seq(Commits)
           /\ ToSet(metadatasAccepted) \subseteq ToSet(metadatasStored) \cup ToSet(metadatasFifo)
<1>1. /\ metadatasAccepted \in Seq(Commits) /\ metadatasStored \in Seq(Commits)
      /\ metadatasFifo \in Seq(Commits)
  BY DEF MetadatasInv, MdP!TypeOK, MdP!LineTypeOK
<1>2. /\ Len(metadatasAccepted) \in Nat /\ Len(metadatasStored) \in Nat
      /\ Len(metadatasFifo) \in Nat
      /\ DOMAIN metadatasAccepted = 1 .. Len(metadatasAccepted)
      /\ DOMAIN metadatasStored = 1 .. Len(metadatasStored)
      /\ DOMAIN metadatasFifo = 1 .. Len(metadatasFifo)
  BY <1>1, LenProperties
<1> DEFINE n == Len(metadatasAccepted) - Len(metadatasFifo)
<1>3. /\ n \in Nat
      /\ \A k \in 1 .. Len(metadatasFifo) : metadatasFifo[k] = metadatasAccepted[n + k]
  BY <1>2 DEF MetadatasInv, MdP!WriteOnlyInv, MdP!LoneInv, MdP!QueueInv, MdP!Shifted
<1>4. /\ n <= Len(metadatasStored)
      /\ \A k \in 1 .. Len(metadatasStored) : metadatasStored[k] = metadatasAccepted[k]
  <2>1. MdP!LogInv
    BY DEF MetadatasInv, MdP!WriteOnlyInv, MdP!LoneInv
  <2>2. Len(metadatasStored) = n \/ Len(metadatasStored) = n + 1
    BY <2>1 DEF MdP!LogInv, MdP!Shifted
  <2>3. n \in Nat /\ Len(metadatasStored) \in Nat
    BY <1>2, <1>3
  <2>4. n <= Len(metadatasStored)
    <3> HIDE DEF n
    <3> QED  BY <2>2, <2>3
  <2> QED  BY <2>1, <2>4 DEF MdP!LogInv
<1>5. ASSUME NEW k \in 1 .. Len(metadatasAccepted)
      PROVE  metadatasAccepted[k] \in ToSet(metadatasStored) \cup ToSet(metadatasFifo)
  <2>1. CASE k <= n
    <3>1. k \in 1 .. Len(metadatasStored)
      BY <1>2, <1>3, <1>4, <2>1
    <3>2. metadatasStored[k] = metadatasAccepted[k]
      BY <1>4, <3>1
    <3> QED  BY <1>2, <3>1, <3>2 DEF ToSet
  <2>2. CASE k > n
    <3>1. k - n \in 1 .. Len(metadatasFifo) /\ n + (k - n) = k
      BY <1>2, <1>3, <2>2
    <3> QED  BY <1>2, <1>3, <3>1 DEF ToSet
  <2> QED  BY <1>2, <1>3, <2>1, <2>2
<1> QED  BY <1>1, <1>2, <1>5 DEF ToSet

(* A write is accepted once. *)
LEMMA EventsAccept ==
    ASSUME EventsInv, NEW c \in Commits, Ev!Stack(c) \/ Ev!StackAndDrain(c)
    PROVE  /\ eventsAccepted' = Append(eventsAccepted, c)
           /\ c \notin ToSet(eventsAccepted)
<1>1. eventPhase[c] = "idle" /\ eventsAccepted' = Append(eventsAccepted, c)
  BY DEF Ev!Stack, Ev!StackAndDrain
<1>2. c \notin EvP!ToSet(eventsAccepted)
  BY <1>1, LineAssumptions, EvP!IdleNotAccepted DEF EventsInv, EvP!TypeOK, EvP!WriteOnlyInv
<1> QED  BY <1>1, <1>2 DEF ToSet, EvP!ToSet

LEMMA MetadatasAccept ==
    ASSUME MetadatasInv, NEW c \in Commits, Md!Stack(c) \/ Md!StackAndDrain(c)
    PROVE  metadatasAccepted' = Append(metadatasAccepted, c)
  BY DEF Md!Stack, Md!StackAndDrain
-----------------------------------------------------------------------------
(* Type correctness. *)

LEMMA AggregateAssumed == AgP!AggregateAssumption
<1>1. <<Bus>> \in Seq({Bus}) /\ AgP!ToSet(<<Bus>>) = {Bus} /\ <<Bus>> # <<>>
  BY DEF AgP!ToSet
<1>2. AgP!IsInjective(<<Bus>>)
  BY DEF AgP!IsInjective
<1>3. {FALSE, CommitsOverlap} \subseteq BOOLEAN
  BY PathAssumption DEF PathAssumption
<1> QED  BY <1>1, <1>2, <1>3 DEF AgP!AggregateAssumption

(* Every step is one of the aggregate, or leaves it alone. *)
LEMMA AggregateMoves ==
    ASSUME [Next]_vars
    PROVE  [AgP!Next]_(AgP!vars)
<1> DEFINE Goal == [AgP!Next]_(AgP!vars)
<1> USE DEF AgP!vars, AgP!commitVars, AgP!publisherVars
<1>1. ASSUME UNCHANGED aggregateVars PROVE Goal
  BY <1>1 DEF aggregateVars
<1>2. ASSUME NEW c \in Commits, Aggregate!Copies(c) PROVE Goal
  BY <1>2 DEF Aggregate!Copies, Aggregate!Publisher, AgP!Copies, AgP!Publisher, AgP!Next
<1>3. ASSUME NEW c \in Commits, Throws(c) PROVE Goal
  BY <1>3 DEF Throws, Aggregate!Fail, Aggregate!Throws, Aggregate!publisherVars,
              AgP!Fail, AgP!Throws, AgP!Next
<1>4. CASE AggregateChanges
  <2>1. ASSUME NEW e \in Events, Aggregate!Apply(e) PROVE Goal
    BY <2>1 DEF Aggregate!Apply, Aggregate!Add, Aggregate!MayApply, Aggregate!Committing,
                Aggregate!commitVars, Aggregate!publisherVars, Aggregate!ToSet,
                AgP!Apply, AgP!Add, AgP!MayApply, AgP!Committing, AgP!ToSet, AgP!Next
  <2>2. ASSUME Aggregate!Uncommit PROVE Goal
    BY <2>2 DEF Aggregate!Uncommit, Aggregate!MayApply, Aggregate!Committing,
                Aggregate!commitVars, Aggregate!publisherVars, Aggregate!ToSet,
                AgP!Uncommit, AgP!MayApply, AgP!Committing, AgP!ToSet, AgP!Next
  <2> QED  BY <1>4, <2>1, <2>2 DEF AggregateChanges
<1>5. ASSUME NEW c \in Commits, Commit(c) PROVE Goal
  BY <1>5 DEF Commit, Aggregate!Commit, Aggregate!MayCommit, Aggregate!Committing,
              Aggregate!Starts, Aggregate!publisherVars,
              AgP!Commit, AgP!MayCommit, AgP!Committing, AgP!Starts, AgP!Next
<1>6. ASSUME NEW c \in Commits, EventsReturned(c) PROVE Goal
  BY <1>6 DEF EventsReturned, Aggregate!Finish, Aggregate!Returns, Aggregate!Publisher,
              Aggregate!ToSet, AgP!Finish, AgP!Returns, AgP!Publisher, AgP!ToSet, AgP!Next
<1>7. ASSUME NEW c \in Commits, WritesEvents(c) PROVE Goal
  BY <1>1, <1>2, <1>7 DEF WritesEvents
<1>8. ASSUME NEW c \in Commits, PublishingStep(c) PROVE Goal
  BY <1>1, <1>2, <1>3, <1>6, <1>7, <1>8
  DEF PublishingStep, Prepared, Refused, Validated, MetadataReturned, HookThrows
<1>9. CASE \/ SetStreamMetadata \/ UNCHANGED vars
           \/ \E c \in Commits : \/ EventsStep(c) \/ StoreAppliesEvents(c)
                                 \/ MetadatasStep(c) \/ StoreAppliesMetadata(c)
  BY <1>1, <1>9 DEF SetStreamMetadata, vars, pathVars, EventsStep, StoreAppliesEvents,
                    MetadatasStep, StoreAppliesMetadata
<1> QED  BY <1>4, <1>5, <1>8, <1>9 DEF Next
Steps == {"none", "preparing", "validating", "metadata", "events"}

(* What the publisher awaits is awaited by a commit at work. *)
StepInv ==
    /\ streamMetadata \in BOOLEAN
    /\ withMetadata \subseteq Commits
    /\ step \in [Commits -> Steps]
    /\ \A c \in Commits : step[c] # "none" <=> stage[c] = "publishing"

LEMMA StepKeeps ==
    ASSUME AgP!TypeOK, StepInv, [Next]_vars
    PROVE  StepInv'
<1> USE DEF StepInv, Steps, Goto
<1>1. ASSUME UNCHANGED <<aggregateVars, contextVars, step>> PROVE StepInv'
  BY <1>1 DEF aggregateVars, contextVars
<1>2. ASSUME NEW c \in Commits, NEW s \in Steps \ {"none"},
             UNCHANGED <<stage, contextVars>>, step[c] # "none", Goto(c, s)
      PROVE  StepInv'
  BY <1>2 DEF contextVars
<1>3. ASSUME NEW c \in Commits, Throws(c) PROVE StepInv'
  BY <1>3 DEF Throws, Aggregate!Fail, Aggregate!Throws, contextVars, AgP!TypeOK
<1>4. ASSUME NEW c \in Commits, WritesEvents(c), step[c] # "none" PROVE StepInv'
  BY <1>2, <1>4 DEF WritesEvents, aggregateVars, Aggregate!Copies
<1>5. ASSUME NEW c \in Commits, PublishingStep(c) PROVE StepInv'
  <2>1. CASE Prepared(c)
    BY <1>2, <2>1 DEF Prepared, aggregateVars, Aggregate!Copies
  <2>2. CASE Refused(c) \/ HookThrows(c)
    BY <1>3, <2>2 DEF Refused, HookThrows
  <2>3. CASE Validated(c)
    BY <1>2, <1>4, <2>3 DEF Validated, aggregateVars
  <2>4. CASE MetadataReturned(c)
    BY <1>4, <2>4 DEF MetadataReturned
  <2>5. CASE EventsReturned(c)
    BY <2>5 DEF EventsReturned, Aggregate!Finish, Aggregate!Returns, contextVars, AgP!TypeOK
  <2> QED  BY <1>5, <2>1, <2>2, <2>3, <2>4, <2>5 DEF PublishingStep
<1>6. ASSUME NEW c \in Commits, Commit(c) PROVE StepInv'
  BY <1>6 DEF Commit, Aggregate!Commit, Aggregate!Starts, AgP!TypeOK
<1>7. CASE AggregateChanges
  BY <1>7 DEF AggregateChanges, Aggregate!Apply, Aggregate!Uncommit, Aggregate!commitVars,
              contextVars
<1>8. CASE SetStreamMetadata
  BY <1>8 DEF SetStreamMetadata, aggregateVars
<1>9. CASE \/ UNCHANGED vars
           \/ \E c \in Commits : \/ EventsStep(c) \/ StoreAppliesEvents(c)
                                 \/ MetadatasStep(c) \/ StoreAppliesMetadata(c)
  BY <1>1, <1>9 DEF vars, pathVars, EventsStep, StoreAppliesEvents,
                    MetadatasStep, StoreAppliesMetadata
<1> QED  BY <1>5, <1>6, <1>7, <1>8, <1>9 DEF Next

TypesInv == AgP!TypeOK /\ StepInv /\ EventsInv /\ MetadatasInv

LEMMA TypesStart == Init => TypesInv
<1> SUFFICES ASSUME Init PROVE TypesInv
  OBVIOUS
<1>1. AgP!Init
  BY DEF Init, Aggregate!Init, Aggregate!ToSet, AgP!Init, AgP!ToSet
<1>2. AgP!TypeOK
  BY <1>1, AggregateAssumed, AgP!TypeInit
<1>3. StepInv
  BY DEF Init, Aggregate!Init, StepInv, Steps
<1> QED  BY <1>2, <1>3, LinesStart DEF TypesInv

LEMMA TypesKeep == TypesInv /\ [Next]_vars => TypesInv'
<1> SUFFICES ASSUME TypesInv, [Next]_vars PROVE TypesInv'
  OBVIOUS
<1>1. AgP!TypeOK'
  BY AggregateAssumed, AggregateMoves, AgP!TypeStep DEF TypesInv
<1> QED  BY <1>1, StepKeeps, EventsKeep, MetadatasKeep DEF TypesInv

LEMMA TypesAre == TypesInv => TypeOK
<1> SUFFICES ASSUME TypesInv PROVE TypeOK
  OBVIOUS
<1>1. Aggregate!TypeOK
  BY DEF TypesInv, AgP!TypeOK, AgP!ToSet, Aggregate!TypeOK, Aggregate!ToSet
<1>2. Ev!TypeOK /\ Md!TypeOK
  BY DEF TypesInv, EventsInv, MetadatasInv, EvP!TypeOK, MdP!TypeOK, Ev!TypeOK, Md!TypeOK,
         EvP!LineTypeOK, MdP!LineTypeOK, Ev!LineTypeOK, Md!LineTypeOK, EvP!Drainers, MdP!Drainers, Ev!Drainers, Md!Drainers,
         EvP!Phases, MdP!Phases, Ev!Phases, Md!Phases
<1> QED  BY <1>1, <1>2 DEF TypesInv, StepInv, Steps, TypeOK

(* The parts keep their state well typed when they are put together, and a *)
(* publisher is at work exactly while its commit is.                       *)
THEOREM CommitPathTypeCorrect == Spec => []TypeOK
  BY TypesStart, TypesKeep, TypesAre, PTL DEF Spec
-----------------------------------------------------------------------------
(* What a commit has done so far. *)

(* A commit at work whose events are copied has all that is in the array.  *)
(* It writes them after it wrote its metadata, and when it looked at them  *)
(* and found them valid; neither its copy nor, but to be cleared, the      *)
(* array changes after that.                                               *)
CommitInv ==
    \A c \in Commits :
        /\ stage[c] = "idle" => ~copied[c]
        /\ stage[c] = "publishing" /\ copied[c] => ToSet(uncommitted) \subseteq ToSet(batch[c])
        /\ step[c] = "metadata" =>
            ToSet(Held(c)) \cap Invalid = {} /\ c \in ToSet(metadatasAccepted)
        /\ step[c] = "events" => c \in ToSet(eventsAccepted)
        /\ c \in ToSet(eventsAccepted) =>
            /\ copied[c] /\ step[c] \in {"none", "events"}
            /\ ToSet(batch[c]) \cap Invalid = {}
            /\ c \in withMetadata => c \in ToSet(metadatasAccepted)

LEMMA InSeqAppend ==
    ASSUME NEW S, NEW s \in Seq(S), NEW e \in S
    PROVE  ToSet(Append(s, e)) = ToSet(s) \cup {e}
<1>1. AgP!ToSet(Append(s, e)) = AgP!ToSet(s) \cup {e}
  BY AggregateAssumed, AgP!ToSetAppend
<1> QED  BY <1>1 DEF ToSet, AgP!ToSet

LEMMA InSubSeq ==
    ASSUME NEW S, NEW s \in Seq(S), NEW k \in 1 .. Len(s), NEW x
    PROVE  x \in ToSet(SubSeq(s, 1, k)) <=> \E i \in 1 .. k : s[i] = x
<1>1. k \in 0 .. Len(s)
  OBVIOUS
<1>2. x \in AgP!ToSet(SubSeq(s, 1, k)) <=> \E i \in 1 .. k : s[i] = x
  BY <1>1, AggregateAssumed, AgP!ToSetSubSeq
<1> QED  BY <1>2 DEF ToSet, AgP!ToSet

LEMMA CommitStart == Init => CommitInv
<1> SUFFICES ASSUME Init PROVE CommitInv
  OBVIOUS
<1>1. eventsAccepted = <<>>
  BY DEF Init, Ev!Init, Ev!LineInit
<1> QED  BY <1>1 DEF Init, Aggregate!Init, CommitInv, ToSet

(* The variables that the path's invariants speak of. *)
spokenOf == <<uncommitted, stage, copied, batch, applied, discarded, withMetadata, step,
              eventsAccepted, metadatasAccepted>>

LEMMA LineStepsKeep ==
    ASSUME NEW c \in Commits,
           EventsStep(c) \/ StoreAppliesEvents(c) \/ MetadatasStep(c) \/ StoreAppliesMetadata(c)
    PROVE  UNCHANGED spokenOf
<1>1. UNCHANGED pathVars
  BY DEF EventsStep, StoreAppliesEvents, MetadatasStep, StoreAppliesMetadata
<1>2. UNCHANGED eventsAccepted
  BY DEF EventsStep, StoreAppliesEvents, MetadatasStep, StoreAppliesMetadata,
         Ev!Answered, Ev!Resolve, Ev!Reject, Ev!Continue, Ev!StoreApplies, eventLine
<1>3. UNCHANGED metadatasAccepted
  BY DEF EventsStep, StoreAppliesEvents, MetadatasStep, StoreAppliesMetadata,
         Md!Answered, Md!Resolve, Md!Reject, Md!StoreApplies, metadataLine
<1> QED  BY <1>1, <1>2, <1>3 DEF pathVars, aggregateVars, contextVars, spokenOf
(* What a write of events does, copied before or now. *)
LEMMA WritesEventsDoes ==
    ASSUME TypesInv, NEW c \in Commits, WritesEvents(c)
    PROVE  /\ eventsAccepted' = Append(eventsAccepted, c)
           /\ c \notin ToSet(eventsAccepted)
           /\ ToSet(eventsAccepted') = ToSet(eventsAccepted) \cup {c}
           /\ copied' = [copied EXCEPT ![c] = TRUE]
           /\ batch' = [batch EXCEPT ![c] = Held(c)]
           /\ step' = [step EXCEPT ![c] = "events"]
           /\ UNCHANGED <<uncommitted, stage, applied, discarded, withMetadata,
                          metadatasAccepted>>
<1>1. eventsAccepted' = Append(eventsAccepted, c) /\ c \notin ToSet(eventsAccepted)
  BY EventsAccept DEF WritesEvents, TypesInv
<1>2. eventsAccepted \in Seq(Commits)
  BY EventsAre DEF TypesInv
<1>3. copied' = [copied EXCEPT ![c] = TRUE] /\ batch' = [batch EXCEPT ![c] = Held(c)]
  BY DEF WritesEvents, aggregateVars, Aggregate!Copies, Held, TypesInv, AgP!TypeOK
<1>4. UNCHANGED <<uncommitted, stage, applied, discarded>>
  BY DEF WritesEvents, aggregateVars, Aggregate!Copies
<1> QED
  BY <1>1, <1>2, <1>3, <1>4, InSeqAppend DEF WritesEvents, Goto, contextVars, metadataLine

LEMMA CommitWrites ==
    ASSUME TypesInv, CommitInv, NEW c \in Commits, WritesEvents(c),
           step[c] \in {"validating", "metadata"}, ToSet(Held(c)) \cap Invalid = {},
           c \in withMetadata => c \in ToSet(metadatasAccepted)
    PROVE  CommitInv'
<1> SUFFICES ASSUME NEW d \in Commits
             PROVE  /\ stage'[d] = "idle" => ~copied'[d]
                    /\ stage'[d] = "publishing" /\ copied'[d] =>
                        ToSet(uncommitted') \subseteq ToSet(batch'[d])
                    /\ step'[d] = "metadata" =>
                        ToSet(Held(d)') \cap Invalid = {} /\ d \in ToSet(metadatasAccepted')
                    /\ step'[d] = "events" => d \in ToSet(eventsAccepted')
                    /\ d \in ToSet(eventsAccepted') =>
                        /\ copied'[d] /\ step'[d] \in {"none", "events"}
                        /\ ToSet(batch'[d]) \cap Invalid = {}
                        /\ d \in withMetadata' => d \in ToSet(metadatasAccepted')
  BY DEF CommitInv
<1>1. /\ copied \in [Commits -> BOOLEAN] /\ batch \in [Commits -> Seq(Events)]
      /\ step \in [Commits -> Steps] /\ stage[c] = "publishing"
  BY DEF TypesInv, AgP!TypeOK, StepInv
<1>2. CASE d = c
  BY <1>1, <1>2, WritesEventsDoes DEF CommitInv, Held
<1>3. CASE d # c
  BY <1>1, <1>3, WritesEventsDoes DEF CommitInv, Held
<1> QED  BY <1>2, <1>3
(* While no commit is at work there is nothing to say of what it holds. *)
LEMMA ChangesKeep ==
    ASSUME TypesInv, CommitInv, AggregateChanges
    PROVE  CommitInv'
<1>1. /\ UNCHANGED <<stage, copied, batch, step, withMetadata, eventsAccepted,
                     metadatasAccepted>>
      /\ \A c \in Commits : stage[c] # "publishing"
  BY DEF AggregateChanges, Aggregate!Apply, Aggregate!Uncommit, Aggregate!MayApply,
         Aggregate!Committing, Aggregate!commitVars, contextVars, eventLine, metadataLine
<1>2. \A c \in Commits : step[c] = "none"
  BY <1>1 DEF TypesInv, StepInv
<1> QED  BY <1>1, <1>2 DEF CommitInv

LEMMA StartKeeps ==
    ASSUME TypesInv, CommitInv, NEW c \in Commits, Commit(c)
    PROVE  CommitInv'
<1>1. /\ stage[c] = "idle" /\ stage' = [stage EXCEPT ![c] = "publishing"]
      /\ step' = [step EXCEPT ![c] = "preparing"]
      /\ withMetadata' \in {withMetadata, withMetadata \cup {c}}
      /\ UNCHANGED <<uncommitted, copied, batch, eventsAccepted, metadatasAccepted>>
  BY DEF Commit, Goto, Aggregate!Commit, Aggregate!Starts, eventLine, metadataLine
<1>2. ~copied[c] /\ c \notin ToSet(eventsAccepted)
  BY <1>1 DEF CommitInv
<1>3. stage \in [Commits -> {"idle", "publishing", "done", "failed"}] /\ step \in [Commits -> Steps]
  BY DEF TypesInv, AgP!TypeOK, StepInv
<1>4. ASSUME NEW d \in Commits, d # c
      PROVE  /\ stage'[d] = stage[d] /\ step'[d] = step[d]
             /\ d \in withMetadata' => d \in withMetadata
  BY <1>1, <1>3, <1>4
<1>5. stage'[c] = "publishing" /\ step'[c] = "preparing"
  BY <1>1, <1>3
<1>6. \A d \in Commits : Held(d)' = Held(d)
  BY <1>1 DEF Held
<1> QED  BY <1>1, <1>2, <1>4, <1>5, <1>6 DEF CommitInv

LEMMA PreparedKeeps ==
    ASSUME TypesInv, CommitInv, NEW c \in Commits, Prepared(c)
    PROVE  CommitInv'
<1>1. /\ step[c] = "preparing" /\ step' = [step EXCEPT ![c] = "validating"]
      /\ \/ UNCHANGED <<copied, batch>>
         \/ /\ copied' = [copied EXCEPT ![c] = TRUE]
            /\ batch' = [batch EXCEPT ![c] = uncommitted]
      /\ UNCHANGED <<uncommitted, stage, withMetadata, eventsAccepted, metadatasAccepted>>
  BY DEF Prepared, Goto, aggregateVars, contextVars, Aggregate!Copies, eventLine, metadataLine
<1>2. /\ stage[c] = "publishing" /\ c \notin ToSet(eventsAccepted)
      /\ copied \in [Commits -> BOOLEAN] /\ batch \in [Commits -> Seq(Events)]
      /\ step \in [Commits -> Steps]
  BY <1>1 DEF TypesInv, AgP!TypeOK, StepInv, CommitInv
<1>3. ASSUME NEW d \in Commits, d # c
      PROVE  copied'[d] = copied[d] /\ batch'[d] = batch[d] /\ step'[d] = step[d]
  BY <1>1, <1>2, <1>3
<1>4. /\ step'[c] = "validating"
      /\ copied'[c] => ToSet(uncommitted) \subseteq ToSet(batch'[c])
  BY <1>1, <1>2 DEF CommitInv
<1>5. \A d \in Commits \ {c} : Held(d)' = Held(d)
  BY <1>1, <1>3 DEF Held
<1> QED  BY <1>1, <1>2, <1>3, <1>4, <1>5 DEF CommitInv

LEMMA MetadataWritesKeep ==
    ASSUME TypesInv, CommitInv, NEW c \in Commits, step[c] = "validating",
           ToSet(Held(c)) \cap Invalid = {},
           Md!Stack(c) \/ Md!StackAndDrain(c), Goto(c, "metadata"),
           UNCHANGED <<aggregateVars, contextVars, eventLine>>
    PROVE  CommitInv'
<1>1. metadatasAccepted' = Append(metadatasAccepted, c) /\ metadatasAccepted \in Seq(Commits)
  BY MetadatasAccept, MetadatasAre DEF TypesInv
<1>2. ToSet(metadatasAccepted') = ToSet(metadatasAccepted) \cup {c}
  BY <1>1, InSeqAppend
<1>3. /\ UNCHANGED <<uncommitted, stage, copied, batch, withMetadata, eventsAccepted>>
      /\ step' = [step EXCEPT ![c] = "metadata"] /\ step \in [Commits -> Steps]
  BY DEF Goto, aggregateVars, contextVars, eventLine, TypesInv, StepInv
<1>4. \A d \in Commits : Held(d)' = Held(d)
  BY <1>3 DEF Held
<1>5. \A d \in Commits : step'[d] = IF d = c THEN "metadata" ELSE step[d]
  BY <1>3
<1> QED  BY <1>2, <1>3, <1>4, <1>5 DEF CommitInv

LEMMA ThrowsKeeps ==
    ASSUME TypesInv, CommitInv, NEW c \in Commits, Throws(c)
    PROVE  CommitInv'
<1>1. /\ stage' = [stage EXCEPT ![c] = "failed"] /\ step' = [step EXCEPT ![c] = "none"]
      /\ UNCHANGED <<uncommitted, copied, batch, withMetadata, eventsAccepted, metadatasAccepted>>
  BY DEF Throws, Goto, Aggregate!Fail, Aggregate!Throws, contextVars, eventLine, metadataLine
<1>2. \A d \in Commits : /\ stage'[d] = IF d = c THEN "failed" ELSE stage[d]
                         /\ step'[d] = IF d = c THEN "none" ELSE step[d]
  BY <1>1 DEF TypesInv, AgP!TypeOK, StepInv
<1>3. \A d \in Commits : Held(d)' = Held(d)
  BY <1>1 DEF Held
<1> QED  BY <1>1, <1>2, <1>3 DEF CommitInv

LEMMA ReturnedKeeps ==
    ASSUME TypesInv, CommitInv, NEW c \in Commits, EventsReturned(c)
    PROVE  CommitInv'
<1>1. /\ stage' = [stage EXCEPT ![c] = "done"] /\ step' = [step EXCEPT ![c] = "none"]
      /\ uncommitted' = <<>>
      /\ UNCHANGED <<copied, batch, withMetadata, eventsAccepted, metadatasAccepted>>
  BY DEF EventsReturned, Goto, Aggregate!Finish, Aggregate!Returns, contextVars, eventLine,
         metadataLine
<1>2. \A d \in Commits : /\ stage'[d] = IF d = c THEN "done" ELSE stage[d]
                         /\ step'[d] = IF d = c THEN "none" ELSE step[d]
  BY <1>1 DEF TypesInv, AgP!TypeOK, StepInv
<1>3. ToSet(uncommitted') = {}
  BY <1>1 DEF ToSet
<1>4. \A d \in Commits : Held(d)' = Held(d) \/ ToSet(Held(d)') = {}
  BY <1>1, <1>3 DEF Held
<1> QED  BY <1>1, <1>2, <1>3, <1>4 DEF CommitInv

LEMMA CommitKeeps == TypesInv /\ CommitInv /\ [Next]_vars => CommitInv'
<1> SUFFICES ASSUME TypesInv, CommitInv, [Next]_vars PROVE CommitInv'
  OBVIOUS
<1>1. ASSUME UNCHANGED spokenOf PROVE CommitInv'
  BY <1>1 DEF spokenOf, CommitInv, Held
<1>2. ASSUME NEW c \in Commits, PublishingStep(c) PROVE CommitInv'
  <2>1. CASE Validated(c)
    BY <2>1, MetadataWritesKeep, CommitWrites DEF Validated
  <2>2. CASE MetadataReturned(c)
    BY <2>2, CommitWrites DEF MetadataReturned, CommitInv
  <2> QED
    BY <1>2, <2>1, <2>2, PreparedKeeps, ThrowsKeeps, ReturnedKeeps
    DEF PublishingStep, Refused, HookThrows
<1>3. ASSUME NEW c \in Commits,
             EventsStep(c) \/ StoreAppliesEvents(c) \/ MetadatasStep(c) \/ StoreAppliesMetadata(c)
      PROVE  CommitInv'
  BY <1>1, <1>3, LineStepsKeep
<1>4. CASE SetStreamMetadata \/ UNCHANGED vars
  BY <1>1, <1>4 DEF SetStreamMetadata, vars, pathVars, aggregateVars, contextVars, eventLine,
                    metadataLine, spokenOf
<1> QED  BY <1>2, <1>3, <1>4, ChangesKeep, StartKeeps DEF Next
-----------------------------------------------------------------------------
(* Where the events are that were applied. *)

(* What is discarded, or written by the first k writes. *)
Written(k) == discarded \cup UNION {ToSet(batch[eventsAccepted[i]]) : i \in 1 .. k}

(* T has all that was applied up to the last of S. *)
UpTo(S, T) ==
    \A j \in 1 .. Len(applied) : applied[j] \in S => \A i \in 1 .. j : applied[i] \in T

KeptInv ==
    /\ ToSet(applied) \subseteq ToSet(uncommitted) \cup Written(Len(eventsAccepted))
    /\ ToSet(uncommitted) \subseteq ToSet(applied)
    /\ \A c \in Commits : ToSet(batch[c]) \subseteq ToSet(applied)

(* A commit that copied the array and has not written yet will, then, have *)
(* written all that was applied before its events.                         *)
OrderInv ==
    /\ \A c \in Commits : stage[c] = "publishing" /\ copied[c] =>
        UpTo(ToSet(batch[c]), ToSet(batch[c]) \cup Written(Len(eventsAccepted)))
    /\ \A k \in 1 .. Len(eventsAccepted) : UpTo(ToSet(batch[eventsAccepted[k]]), Written(k))

LEMMA AcceptedAre ==
    ASSUME TypesInv
    PROVE  /\ eventsAccepted \in Seq(Commits) /\ Len(eventsAccepted) \in Nat
           /\ DOMAIN eventsAccepted = 1 .. Len(eventsAccepted)
           /\ \A k \in 1 .. Len(eventsAccepted) :
                eventsAccepted[k] \in Commits /\ eventsAccepted[k] \in ToSet(eventsAccepted)
<1>1. eventsAccepted \in Seq(Commits)
  BY EventsAre DEF TypesInv
<1>2. Len(eventsAccepted) \in Nat /\ DOMAIN eventsAccepted = 1 .. Len(eventsAccepted)
  BY <1>1, LenProperties
<1> QED  BY <1>1, <1>2 DEF ToSet

LEMMA AppliedAre ==
    ASSUME TypesInv
    PROVE  /\ applied \in Seq(Events) /\ uncommitted \in Seq(Events)
           /\ Len(applied) \in Nat /\ DOMAIN applied = 1 .. Len(applied)
           /\ \A j \in 1 .. Len(applied) : applied[j] \in ToSet(applied)
<1>1. applied \in Seq(Events) /\ uncommitted \in Seq(Events)
  BY DEF TypesInv, AgP!TypeOK
<1>2. Len(applied) \in Nat /\ DOMAIN applied = 1 .. Len(applied)
  BY <1>1, LenProperties
<1> QED  BY <1>1, <1>2 DEF ToSet

(* What is written stays written. *)
LEMMA WrittenGrows ==
    ASSUME TypesInv, TypesInv', discarded \subseteq discarded',
           Len(eventsAccepted) <= Len(eventsAccepted'),
           \A i \in 1 .. Len(eventsAccepted) :
               /\ eventsAccepted'[i] = eventsAccepted[i]
               /\ batch'[eventsAccepted[i]] = batch[eventsAccepted[i]]
    PROVE  /\ \A k \in 1 .. Len(eventsAccepted) : Written(k) \subseteq Written(k)'
           /\ Written(Len(eventsAccepted)) \subseteq Written(Len(eventsAccepted))'
<1>1. Len(eventsAccepted) \in Nat /\ Len(eventsAccepted') \in Nat
  BY AcceptedAre
<1>2. ASSUME NEW k \in Nat, NEW m \in Nat, k <= Len(eventsAccepted), k <= m,
             NEW x \in Written(k)
      PROVE  x \in discarded' \cup UNION {ToSet(batch'[eventsAccepted'[i]]) : i \in 1 .. m}
  <2>1. CASE x \in discarded
    BY <2>1
  <2>2. CASE x \notin discarded
    <3>1. PICK i \in 1 .. k : x \in ToSet(batch[eventsAccepted[i]])
      BY <1>2, <2>2 DEF Written
    <3>2. i \in 1 .. Len(eventsAccepted) /\ i \in 1 .. m
      BY <1>1, <1>2, <3>1
    <3>3. x \in ToSet(batch'[eventsAccepted'[i]])
      BY <3>1, <3>2
    <3> QED  BY <3>2, <3>3
  <2> QED  BY <2>1, <2>2
<1>3. \A k \in 1 .. Len(eventsAccepted) : Written(k) \subseteq Written(k)'
  BY <1>1, <1>2 DEF Written
<1>4. Written(Len(eventsAccepted)) \subseteq Written(Len(eventsAccepted))'
  BY <1>1, <1>2 DEF Written
<1> QED  BY <1>3, <1>4

LEMMA PathStart == Init => KeptInv /\ OrderInv
<1> SUFFICES ASSUME Init PROVE KeptInv /\ OrderInv
  OBVIOUS
<1>1. eventsAccepted = <<>> /\ applied = <<>> /\ uncommitted = <<>>
      /\ \A c \in Commits : batch[c] = <<>> /\ stage[c] = "idle"
  BY DEF Init, Ev!Init, Ev!LineInit, Aggregate!Init
<1> QED  BY <1>1 DEF KeptInv, OrderInv, ToSet
PathInv == TypesInv /\ CommitInv /\ KeptInv /\ OrderInv

(* The steps that neither move an event nor put a commit that has copied   *)
(* its events to work.                                                     *)
LEMMA OthersKeep ==
    ASSUME PathInv,
           UNCHANGED <<uncommitted, batch, applied, discarded, eventsAccepted>>,
           \A c \in Commits : stage'[c] = "publishing" /\ copied'[c] =>
               stage[c] = "publishing" /\ copied[c]
    PROVE  KeptInv' /\ OrderInv'
<1>1. KeptInv'
  BY DEF PathInv, KeptInv, Written
<1>2. OrderInv'
  BY DEF PathInv, OrderInv, UpTo, Written
<1> QED  BY <1>1, <1>2

(* The application applies an event: it is in nobody's hands. *)
LEMMA ApplyKeeps ==
    ASSUME PathInv, TypesInv', AggregateChanges, NEW e \in Events, Aggregate!Apply(e)
    PROVE  KeptInv' /\ OrderInv'
<1>1. /\ e \notin ToSet(applied) /\ applied' = Append(applied, e)
      /\ uncommitted' = Append(uncommitted, e)
      /\ UNCHANGED <<stage, batch, discarded, eventsAccepted>>
      /\ \A c \in Commits : stage[c] # "publishing"
  BY DEF AggregateChanges, Aggregate!Apply, Aggregate!Add, Aggregate!MayApply,
         Aggregate!Committing, Aggregate!commitVars, Aggregate!ToSet, ToSet, eventLine
<1>2. /\ ToSet(applied') = ToSet(applied) \cup {e}
      /\ ToSet(uncommitted') = ToSet(uncommitted) \cup {e}
  BY <1>1, AppliedAre, InSeqAppend DEF PathInv
<1>3. Written(Len(eventsAccepted))' = Written(Len(eventsAccepted))
  BY <1>1 DEF Written
<1>4. KeptInv'
  BY <1>1, <1>2, <1>3 DEF PathInv, KeptInv
<1>5. ASSUME NEW k \in 1 .. Len(eventsAccepted)
      PROVE  UpTo(ToSet(batch[eventsAccepted[k]]), Written(k))'
  <2> SUFFICES ASSUME NEW j \in 1 .. Len(applied'), NEW i \in 1 .. j,
                      applied'[j] \in ToSet(batch[eventsAccepted[k]])
               PROVE  applied'[i] \in Written(k)
    BY <1>1 DEF UpTo, Written
  <2>1. /\ Len(applied') = Len(applied) + 1 /\ applied'[Len(applied) + 1] = e
        /\ \A l \in 1 .. Len(applied) : applied'[l] = applied[l]
        /\ Len(applied) \in Nat
    BY <1>1, AppliedAre DEF PathInv
  <2>2. e \notin ToSet(batch[eventsAccepted[k]])
    BY <1>1, AcceptedAre DEF PathInv, KeptInv
  <2>3. j # Len(applied) + 1
    BY <2>1, <2>2
  <2>4. j \in 1 .. Len(applied) /\ i \in 1 .. Len(applied)
    BY <2>1, <2>3
  <2>5. applied[j] \in ToSet(batch[eventsAccepted[k]])
    BY <2>1, <2>4
  <2>6. applied[i] \in Written(k)
    BY <2>4, <2>5 DEF PathInv, OrderInv, UpTo
  <2> QED  BY <2>1, <2>4, <2>6
<1>6. OrderInv'
  BY <1>1, <1>5 DEF OrderInv
<1> QED  BY <1>4, <1>6

(* Writes of before are in order when more is written and nothing applied. *)
LEMMA OrderGrows ==
    ASSUME PathInv, TypesInv', discarded \subseteq discarded', UNCHANGED applied,
           Len(eventsAccepted) <= Len(eventsAccepted'),
           \A i \in 1 .. Len(eventsAccepted) :
               /\ eventsAccepted'[i] = eventsAccepted[i]
               /\ batch'[eventsAccepted[i]] = batch[eventsAccepted[i]]
    PROVE  \A k \in 1 .. Len(eventsAccepted) :
               UpTo(ToSet(batch[eventsAccepted[k]]), Written(k))'
<1> SUFFICES ASSUME NEW k \in 1 .. Len(eventsAccepted)
             PROVE  UpTo(ToSet(batch[eventsAccepted[k]]), Written(k))'
  OBVIOUS
<1>1. Written(k) \subseteq Written(k)'
  BY WrittenGrows DEF PathInv
<1>2. UpTo(ToSet(batch[eventsAccepted[k]]), Written(k))
  BY DEF PathInv, OrderInv
<1>3. ToSet(batch'[eventsAccepted'[k]]) = ToSet(batch[eventsAccepted[k]])
  OBVIOUS
<1> HIDE DEF Written
<1> QED  BY <1>1, <1>2, <1>3 DEF UpTo

(* The application discards what is in the array. *)
LEMMA UncommitKeeps ==
    ASSUME PathInv, TypesInv', AggregateChanges, Aggregate!Uncommit
    PROVE  KeptInv' /\ OrderInv'
<1>1. /\ uncommitted' = <<>> /\ discarded' = discarded \cup ToSet(uncommitted)
      /\ UNCHANGED <<stage, batch, applied, eventsAccepted>>
      /\ \A c \in Commits : stage[c] # "publishing"
  BY DEF AggregateChanges, Aggregate!Uncommit, Aggregate!MayApply,
         Aggregate!Committing, Aggregate!commitVars, Aggregate!ToSet, ToSet, eventLine
<1>2. ToSet(uncommitted') = {} /\ Len(eventsAccepted) <= Len(eventsAccepted')
  BY <1>1, AcceptedAre DEF ToSet, PathInv
<1>3. Written(Len(eventsAccepted)) \subseteq Written(Len(eventsAccepted))'
  BY <1>1, <1>2, WrittenGrows DEF PathInv
<1>4. ToSet(uncommitted) \subseteq Written(Len(eventsAccepted))'
  BY <1>1 DEF Written
<1>5. KeptInv'
  BY <1>1, <1>2, <1>3, <1>4 DEF PathInv, KeptInv
<1>6. OrderInv'
  BY <1>1, <1>2, OrderGrows DEF OrderInv
<1> QED  BY <1>5, <1>6
(* What a commit at work holds is what comes next. *)
LEMMA HeldIsNext ==
    ASSUME PathInv, NEW c \in Commits, stage[c] = "publishing"
    PROVE  /\ ToSet(Held(c)) \subseteq ToSet(applied)
           /\ UpTo(ToSet(Held(c)), ToSet(Held(c)) \cup Written(Len(eventsAccepted)))
<1>1. CASE copied[c]
  BY <1>1 DEF PathInv, KeptInv, OrderInv, Held
<1>2. CASE ~copied[c]
  <2>1. \A j \in 1 .. Len(applied) :
            applied[j] \in ToSet(uncommitted) \cup Written(Len(eventsAccepted))
    BY AppliedAre DEF PathInv, KeptInv
  <2>2. UpTo(ToSet(uncommitted), ToSet(uncommitted) \cup Written(Len(eventsAccepted)))
    <3> HIDE DEF Written
    <3> SUFFICES ASSUME NEW j \in 1 .. Len(applied), NEW i \in 1 .. j
                 PROVE  applied[i] \in ToSet(uncommitted) \cup Written(Len(eventsAccepted))
      BY DEF UpTo
    <3>1. i \in 1 .. Len(applied)
      BY AppliedAre DEF PathInv
    <3> QED  BY <2>1, <3>1
  <2> QED  BY <1>2, <2>2 DEF PathInv, KeptInv, Held
<1> QED  BY <1>1, <1>2

(* A provider copies the array. *)
LEMMA CopyKeeps ==
    ASSUME PathInv, TypesInv', NEW c \in Commits, Prepared(c)
    PROVE  KeptInv' /\ OrderInv'
<1>1. CASE UNCHANGED aggregateVars
  <2>1. UNCHANGED <<uncommitted, batch, applied, discarded, eventsAccepted, stage, copied>>
    BY <1>1 DEF Prepared, aggregateVars, eventLine
  <2> QED  BY <2>1, OthersKeep
<1>2. CASE Aggregate!Copies(c)
  <2>1. /\ stage[c] = "publishing" /\ ~copied[c]
        /\ copied' = [copied EXCEPT ![c] = TRUE]
        /\ batch' = [batch EXCEPT ![c] = Held(c)]
        /\ UNCHANGED <<uncommitted, stage, applied, discarded, eventsAccepted>>
    BY <1>2 DEF Prepared, Aggregate!Copies, Held, eventLine
  <2>2. c \notin ToSet(eventsAccepted)
    BY <2>1 DEF PathInv, CommitInv
  <2>3. \A d \in Commits : /\ batch'[d] = IF d = c THEN Held(c) ELSE batch[d]
                           /\ copied'[d] = IF d = c THEN TRUE ELSE copied[d]
    BY <2>1 DEF PathInv, TypesInv, AgP!TypeOK
  <2>4. \A i \in 1 .. Len(eventsAccepted) : batch'[eventsAccepted[i]] = batch[eventsAccepted[i]]
    BY <2>2, <2>3, AcceptedAre DEF PathInv
  <2>5. Len(eventsAccepted) <= Len(eventsAccepted')
    BY <2>1, AcceptedAre DEF PathInv
  <2>6. Written(Len(eventsAccepted)) \subseteq Written(Len(eventsAccepted))'
    BY <2>1, <2>4, <2>5, WrittenGrows DEF PathInv
  <2>7. KeptInv'
    <3> HIDE DEF Written
    <3> QED  BY <2>1, <2>3, <2>6, HeldIsNext DEF PathInv, KeptInv
  <2>8. ASSUME NEW d \in Commits, stage'[d] = "publishing", copied'[d]
        PROVE  UpTo(ToSet(batch[d]), ToSet(batch[d]) \cup Written(Len(eventsAccepted)))'
    <3> DEFINE S == IF d = c THEN ToSet(Held(c)) ELSE ToSet(batch[d])
    <3>1. UpTo(S, S \cup Written(Len(eventsAccepted))) /\ S = ToSet(batch'[d])
      BY <2>1, <2>3, <2>8, HeldIsNext DEF PathInv, OrderInv
    <3> HIDE DEF S, Written
    <3> QED  BY <2>1, <2>6, <3>1 DEF UpTo
  <2>9. \A k \in 1 .. Len(eventsAccepted) : UpTo(ToSet(batch[eventsAccepted[k]]), Written(k))'
    BY <2>1, <2>4, <2>5, OrderGrows
  <2> QED  BY <2>1, <2>7, <2>8, <2>9 DEF OrderInv
<1> QED  BY <1>1, <1>2 DEF Prepared

(* The publisher writes what a commit holds. *)
LEMMA WritesKeep ==
    ASSUME PathInv, TypesInv', NEW c \in Commits, WritesEvents(c), step[c] # "none"
    PROVE  KeptInv' /\ OrderInv'
<1> DEFINE n == Len(eventsAccepted)
<1>1. /\ stage[c] = "publishing" /\ c \notin ToSet(eventsAccepted)
      /\ eventsAccepted' = Append(eventsAccepted, c)
      /\ UNCHANGED <<uncommitted, stage, applied, discarded>>
  BY WritesEventsDoes DEF PathInv, TypesInv, StepInv
<1>2. \A d \in Commits : /\ batch'[d] = IF d = c THEN Held(c) ELSE batch[d]
                         /\ copied'[d] = IF d = c THEN TRUE ELSE copied[d]
  BY WritesEventsDoes DEF PathInv, TypesInv, AgP!TypeOK
<1>3. /\ n \in Nat /\ Len(eventsAccepted') = n + 1 /\ eventsAccepted'[n + 1] = c
      /\ \A i \in 1 .. n : eventsAccepted'[i] = eventsAccepted[i]
  BY <1>1, AcceptedAre DEF PathInv
<1>4. \A i \in 1 .. n : batch'[eventsAccepted[i]] = batch[eventsAccepted[i]]
  BY <1>1, <1>2, AcceptedAre DEF PathInv
<1>5. n <= Len(eventsAccepted')
  BY <1>3
<1>6. Written(n) \subseteq Written(Len(eventsAccepted))'
  BY <1>1, <1>3, <1>4, <1>5, WrittenGrows DEF PathInv
<1>7. ToSet(Held(c)) \subseteq Written(Len(eventsAccepted))'
  <2>1. Len(eventsAccepted') \in 1 .. Len(eventsAccepted')
    <3> HIDE DEF n
    <3> QED  BY <1>3
  <2>2. eventsAccepted'[Len(eventsAccepted')] = c
    BY <1>3
  <2>3. batch'[c] = Held(c)
    BY <1>2
  <2> QED  BY <2>1, <2>2, <2>3 DEF Written
<1>8. KeptInv'
  <2> HIDE DEF Written
  <2> QED  BY <1>1, <1>2, <1>6, HeldIsNext DEF PathInv, KeptInv
<1>9. ASSUME NEW d \in Commits, stage'[d] = "publishing", copied'[d]
      PROVE  UpTo(ToSet(batch[d]), ToSet(batch[d]) \cup Written(Len(eventsAccepted)))'
  <2> DEFINE S == IF d = c THEN ToSet(Held(c)) ELSE ToSet(batch[d])
  <2>1. UpTo(S, S \cup Written(n)) /\ S = ToSet(batch'[d])
    BY <1>1, <1>2, <1>9, HeldIsNext DEF PathInv, OrderInv
  <2> HIDE DEF S, Written
  <2> QED  BY <1>1, <1>6, <2>1 DEF UpTo
<1>10. ASSUME NEW k \in 1 .. Len(eventsAccepted')
       PROVE  UpTo(ToSet(batch[eventsAccepted[k]]), Written(k))'
  <2>1. CASE k \in 1 .. n
    BY <1>1, <1>3, <1>4, <1>5, <2>1, OrderGrows
  <2>2. CASE k \notin 1 .. n
    <3>1. k = Len(eventsAccepted') /\ batch'[eventsAccepted'[k]] = Held(c)
      <4>1. k = Len(eventsAccepted')
        <5> HIDE DEF n
        <5> QED  BY <1>3, <2>2
      <4>2. eventsAccepted'[k] = c
        BY <1>3, <4>1
      <4>3. batch'[c] = Held(c)
        BY <1>2
      <4> QED  BY <4>1, <4>2, <4>3
    <3>2. UpTo(ToSet(Held(c)), ToSet(Held(c)) \cup Written(n))
      BY <1>1, HeldIsNext
    <3>3. Written(k)' = Written(Len(eventsAccepted))'
      BY <3>1
    <3> HIDE DEF Written
    <3> QED  BY <1>1, <1>6, <1>7, <3>1, <3>2, <3>3 DEF UpTo
  <2> QED  BY <2>1, <2>2
<1> QED  BY <1>8, <1>9, <1>10 DEF OrderInv
(* commit() returns and clears what its own write has put in the line. *)
LEMMA ReturnKeeps ==
    ASSUME PathInv, TypesInv', NEW c \in Commits, EventsReturned(c)
    PROVE  KeptInv' /\ OrderInv'
<1>1. /\ step[c] = "events" /\ stage[c] = "publishing" /\ copied[c] /\ uncommitted' = <<>>
      /\ stage' = [stage EXCEPT ![c] = "done"]
      /\ UNCHANGED <<copied, batch, applied, discarded, eventsAccepted>>
  BY DEF EventsReturned, Aggregate!Finish, Aggregate!Returns, eventLine
<1>2. ToSet(uncommitted) \subseteq ToSet(batch[c]) /\ c \in ToSet(eventsAccepted)
  BY <1>1 DEF PathInv, CommitInv
<1>3. PICK k \in 1 .. Len(eventsAccepted) : eventsAccepted[k] = c
  BY <1>2, AcceptedAre DEF PathInv, ToSet
<1>4. ToSet(uncommitted) \subseteq Written(Len(eventsAccepted))
  BY <1>2, <1>3 DEF Written
<1>5. Written(Len(eventsAccepted))' = Written(Len(eventsAccepted))
  BY <1>1 DEF Written
<1>6. ToSet(uncommitted') = {}
  BY <1>1 DEF ToSet
<1>7. KeptInv'
  <2> HIDE DEF Written
  <2> QED  BY <1>1, <1>4, <1>5, <1>6 DEF PathInv, KeptInv
<1>8. \A d \in Commits : stage'[d] = "publishing" => stage[d] = "publishing"
  BY <1>1 DEF PathInv, TypesInv, AgP!TypeOK
<1>9. OrderInv'
  BY <1>1, <1>8 DEF PathInv, OrderInv, UpTo, Written
<1> QED  BY <1>7, <1>9

LEMMA ThrowKeeps ==
    ASSUME PathInv, NEW c \in Commits, Throws(c)
    PROVE  KeptInv' /\ OrderInv'
<1>1. /\ UNCHANGED <<uncommitted, batch, applied, discarded, eventsAccepted, copied>>
      /\ stage' = [stage EXCEPT ![c] = "failed"]
  BY DEF Throws, Aggregate!Fail, Aggregate!Throws, eventLine
<1>2. \A d \in Commits : stage'[d] = "publishing" => stage[d] = "publishing"
  BY <1>1 DEF PathInv, TypesInv, AgP!TypeOK
<1> QED  BY <1>1, <1>2, OthersKeep

LEMMA PathKeeps == PathInv /\ [Next]_vars => PathInv'
<1> SUFFICES ASSUME PathInv, [Next]_vars PROVE PathInv'
  OBVIOUS
<1>1. TypesInv' /\ CommitInv'
  BY TypesKeep, CommitKeeps DEF PathInv
<1> DEFINE Goal == KeptInv' /\ OrderInv'
<1>2. ASSUME UNCHANGED spokenOf PROVE Goal
  BY <1>2, OthersKeep DEF spokenOf
<1>3. ASSUME NEW c \in Commits, PublishingStep(c) PROVE Goal
  <2>1. CASE Validated(c)
    <3>1. CASE WritesEvents(c)
      BY <1>1, <2>1, <3>1, WritesKeep DEF Validated
    <3>2. CASE UNCHANGED <<aggregateVars, contextVars, eventLine>>
      BY <3>2, OthersKeep DEF aggregateVars, eventLine
    <3> QED  BY <2>1, <3>1, <3>2 DEF Validated
  <2>2. CASE MetadataReturned(c)
    BY <1>1, <2>2, WritesKeep DEF MetadataReturned
  <2> QED
    BY <1>1, <1>3, <2>1, <2>2, CopyKeeps, ReturnKeeps, ThrowKeeps
    DEF PublishingStep, Refused, HookThrows
<1>4. ASSUME NEW c \in Commits,
             EventsStep(c) \/ StoreAppliesEvents(c) \/ MetadatasStep(c) \/ StoreAppliesMetadata(c)
      PROVE  Goal
  BY <1>2, <1>4, LineStepsKeep
<1>5. ASSUME SetStreamMetadata \/ UNCHANGED vars PROVE Goal
  BY <1>2, <1>5 DEF SetStreamMetadata, vars, pathVars, aggregateVars, contextVars, eventLine,
                    metadataLine, spokenOf
<1>6. ASSUME AggregateChanges PROVE Goal
  BY <1>1, <1>6, ApplyKeeps, UncommitKeeps DEF AggregateChanges
<1>7. ASSUME NEW c \in Commits, Commit(c) PROVE Goal
  <2>1. /\ UNCHANGED <<uncommitted, batch, applied, discarded, eventsAccepted, copied>>
        /\ stage[c] = "idle" /\ stage' = [stage EXCEPT ![c] = "publishing"]
    BY <1>7 DEF Commit, Aggregate!Commit, Aggregate!Starts, eventLine
  <2>2. ~copied[c] /\ \A d \in Commits \ {c} : stage'[d] = stage[d]
    BY <2>1 DEF PathInv, CommitInv, TypesInv, AgP!TypeOK
  <2> QED  BY <2>1, <2>2, OthersKeep
<1>8. Goal
  BY <1>3, <1>4, <1>5, <1>6, <1>7 DEF Next
<1> QED  BY <1>1, <1>8 DEF PathInv

LEMMA PathHolds == Spec => []PathInv
<1>1. Init => PathInv
  BY TypesStart, CommitStart, PathStart DEF PathInv
<1> QED  BY <1>1, PathKeeps, PTL DEF Spec
-----------------------------------------------------------------------------
(* What follows. *)

(* Events that do not pass validation never get into the line, though the  *)
(* array that was validated is copied after the metadata is written.       *)
THEOREM ValidIsWritten == Spec => []OnlyValidWritten
<1>1. PathInv => OnlyValidWritten
  BY AcceptedAre DEF PathInv, CommitInv, OnlyValidWritten, InBatches, ToSet
<1> QED  BY <1>1, PathHolds, PTL

(* Events in the line or in the store were preceded by their metadata,     *)
(* which is in the store or still in its own line.                         *)
THEOREM MetadataIsFirst == Spec => []MetadataFirst
<1>1. ASSUME PathInv PROVE MetadataFirst
  <2>1. ToSet(metadatasAccepted) \subseteq ToSet(metadatasStored) \cup ToSet(metadatasFifo)
    BY <1>1, MetadatasAre DEF PathInv, TypesInv
  <2>2. \A c \in ToSet(eventsAccepted) : c \in Commits
    BY <1>1, AcceptedAre DEF PathInv, ToSet
  <2> QED  BY <1>1, <2>1, <2>2 DEF PathInv, CommitInv, MetadataFirst
<1> QED  BY <1>1, PathHolds, PTL

(* An event that was applied, and not discarded, is in the aggregate, in   *)
(* the line, or in the store.                                              *)
THEOREM AppliedStays == Spec => []AppliedIsKept
<1>1. ASSUME PathInv PROVE AppliedIsKept
  <2>1. ToSet(eventsAccepted) = ToSet(eventsStored) \cup ToSet(eventBatchesFifo)
    BY <1>1, EventsAre DEF PathInv, TypesInv
  <2>2. ASSUME NEW x \in Written(Len(eventsAccepted)), x \notin discarded
        PROVE  x \in InBatches(eventBatchesFifo) \cup InBatches(eventsStored)
    <3>1. PICK i \in 1 .. Len(eventsAccepted) : x \in ToSet(batch[eventsAccepted[i]])
      BY <2>2 DEF Written
    <3>2. eventsAccepted[i] \in ToSet(eventsStored) \cup ToSet(eventBatchesFifo)
      BY <1>1, <2>1, AcceptedAre DEF PathInv
    <3> HIDE DEF ToSet
    <3> QED  BY <3>1, <3>2 DEF InBatches
  <2> HIDE DEF Written, InBatches
  <2> QED  BY <1>1, <2>2 DEF PathInv, KeptInv, AppliedIsKept
<1> QED  BY <1>1, PathHolds, PTL

(* The store receives an event only together with or after all that were   *)
(* applied before it.                                                      *)
THEOREM StoredInOrder == Spec => []StoredAsApplied
<1>1. ASSUME PathInv PROVE StoredAsApplied
  <2>1. /\ eventsStored \in Seq(Commits) /\ Len(eventsStored) <= Len(eventsAccepted)
        /\ DOMAIN eventsStored = 1 .. Len(eventsStored) /\ Len(eventsStored) \in Nat
        /\ Len(eventsAccepted) \in Nat
        /\ \A k \in 1 .. Len(eventsStored) : eventsStored[k] = eventsAccepted[k]
    BY <1>1, EventsAre, AcceptedAre DEF PathInv, TypesInv
  <2>2. applied \in Seq(Events) /\ DOMAIN applied = 1 .. Len(applied) /\ Len(applied) \in Nat
    BY <1>1, AppliedAre DEF PathInv
  <2> SUFFICES ASSUME NEW k \in 1 .. Len(eventsStored), NEW j \in 1 .. Len(applied),
                      applied[j] \in ToSet(batch[eventsStored[k]]),
                      NEW x \in ToSet(SubSeq(applied, 1, j))
               PROVE  x \in discarded \cup InBatches(SubSeq(eventsStored, 1, k))
    BY <2>1, <2>2 DEF StoredAsApplied
  <2>3. PICK i \in 1 .. j : x = applied[i]
    BY <2>2, InSubSeq
  <2>4. k \in 1 .. Len(eventsAccepted)
    BY <2>1
  <2>5. x \in Written(k)
    BY <1>1, <2>1, <2>3, <2>4 DEF PathInv, OrderInv, UpTo
  <2>6. CASE x \in discarded
    BY <2>6
  <2>7. CASE x \notin discarded
    <3>1. PICK l \in 1 .. k : x \in ToSet(batch[eventsAccepted[l]])
      BY <2>5, <2>7 DEF Written
    <3>2. eventsStored[l] = eventsAccepted[l]
      BY <2>1
    <3>3. eventsStored[l] \in ToSet(SubSeq(eventsStored, 1, k))
      BY <2>1, InSubSeq
    <3> QED  BY <3>1, <3>2, <3>3 DEF InBatches
  <2> QED  BY <2>6, <2>7
<1> QED  BY <1>1, PathHolds, PTL
-----------------------------------------------------------------------------
(* The parts, put together, are still what they are alone: what is proved  *)
(* of an aggregate and of a line holds of them in the path.                *)

LEMMA AggregateNexts == [AgP!Next]_(AgP!vars) => [Aggregate!Next]_(Aggregate!vars)
<1>1. UNCHANGED AgP!vars => UNCHANGED Aggregate!vars
  BY DEF Aggregate!vars, Aggregate!commitVars, Aggregate!publisherVars,
         AgP!vars, AgP!commitVars, AgP!publisherVars
<1>2. ASSUME NEW e \in Events, AgP!Apply(e) PROVE Aggregate!Apply(e)
  BY <1>2 DEF AgP!Apply, AgP!Add, AgP!MayApply, AgP!Committing, AgP!ToSet,
              AgP!commitVars, AgP!publisherVars,
              Aggregate!Apply, Aggregate!Add, Aggregate!MayApply, Aggregate!Committing,
              Aggregate!ToSet, Aggregate!commitVars, Aggregate!publisherVars
<1>3. ASSUME NEW e \in Events, NEW c \in Commits, AgP!ApplyAndCommit(e, c)
      PROVE  Aggregate!ApplyAndCommit(e, c)
  BY <1>3 DEF AgP!ApplyAndCommit, AgP!Add, AgP!Starts, AgP!MayApply, AgP!MayCommit,
              AgP!Committing, AgP!ToSet, AgP!publisherVars,
              Aggregate!ApplyAndCommit, Aggregate!Add, Aggregate!Starts, Aggregate!MayApply,
              Aggregate!MayCommit, Aggregate!Committing, Aggregate!ToSet,
              Aggregate!publisherVars
<1>4. ASSUME AgP!Uncommit \/ AgP!SetAutoCommit PROVE Aggregate!Uncommit \/ Aggregate!SetAutoCommit
  BY <1>4 DEF AgP!Uncommit, AgP!SetAutoCommit, AgP!MayApply, AgP!Committing, AgP!ToSet,
              AgP!commitVars, AgP!publisherVars,
              Aggregate!Uncommit, Aggregate!SetAutoCommit, Aggregate!MayApply,
              Aggregate!Committing, Aggregate!ToSet, Aggregate!commitVars,
              Aggregate!publisherVars
<1>5. ASSUME NEW c \in Commits, AgP!Commit(c) \/ AgP!Fail(c)
      PROVE  Aggregate!Commit(c) \/ Aggregate!Fail(c)
  BY <1>5 DEF AgP!Commit, AgP!Starts, AgP!Fail, AgP!Throws, AgP!MayCommit, AgP!Committing,
              AgP!publisherVars,
              Aggregate!Commit, Aggregate!Starts, Aggregate!Fail, Aggregate!Throws,
              Aggregate!MayCommit, Aggregate!Committing, Aggregate!publisherVars
<1>6. ASSUME NEW c \in Commits, AgP!Copies(c) \/ AgP!CallsNext(c) \/ AgP!Finish(c)
      PROVE  Aggregate!Copies(c) \/ Aggregate!CallsNext(c) \/ Aggregate!Finish(c)
  BY <1>6 DEF AgP!Copies, AgP!CallsNext, AgP!Finish, AgP!Returns, AgP!Publisher, AgP!ToSet,
              Aggregate!Copies, Aggregate!CallsNext, Aggregate!Finish, Aggregate!Returns,
              Aggregate!Publisher, Aggregate!ToSet
<1>7. AgP!Next => Aggregate!Next
  BY <1>2, <1>3, <1>4, <1>5, <1>6 DEF AgP!Next, Aggregate!Next
<1> QED
  BY <1>1, <1>7

(* The aggregate of the path is an event store aggregate root with the     *)
(* write event bus for its publisher, however the writes fare.             *)
THEOREM PathIsAnAggregate == Spec => Aggregate!Spec
<1>1. Init => Aggregate!Init
  BY DEF Init
<1>2. [Next]_vars => [Aggregate!Next]_(Aggregate!vars)
  BY AggregateMoves, AggregateNexts
<1> QED
  BY <1>1, <1>2, PTL DEF Spec, Aggregate!Spec

LEMMA PathStepsAggregate == Spec => AgP!Spec
<1>1. Init => AgP!Init
  BY DEF Init, Aggregate!Init, Aggregate!ToSet, AgP!Init, AgP!ToSet
<1>2. [Next]_vars => [AgP!Next]_(AgP!vars)
  BY AggregateMoves
<1> QED
  BY <1>1, <1>2, PTL DEF Spec, AgP!Spec

(* So commit() clears only what the bus has published, the bus gets the    *)
(* events as they were applied, and what a commit that returned gave it is *)
(* not published again.                                                    *)
THEOREM PathPublishes ==
    Spec => /\ []Aggregate!ClearedMeansPublished
            /\ []Aggregate!ReceivedInOrder
            /\ Aggregate!ReturnedForGood
<1>1. AgP!Spec => []AgP!ClearedMeansPublished /\ []AgP!ReceivedInOrder
  BY AggregateAssumed, AgP!ClearedIsPublished, AgP!PublishersReceiveInOrder
<1>2. AgP!Spec => AgP!ReturnedForGood
  BY AggregateAssumed, AgP!ReturnedStays
<1>3. AgP!ClearedMeansPublished => Aggregate!ClearedMeansPublished
  BY DEF AgP!ClearedMeansPublished, AgP!ToSet, Aggregate!ClearedMeansPublished,
         Aggregate!ToSet
<1>4. AgP!ReceivedInOrder => Aggregate!ReceivedInOrder
  BY DEF AgP!ReceivedInOrder, AgP!ToSet, Aggregate!ReceivedInOrder, Aggregate!ToSet
<1>5. [\A c, d \in Commits : stage[c] = "done" /\ ~copied[d] /\ copied'[d] =>
          AgP!ToSet(batch'[d]) \cap AgP!ToSet(batch[c]) = {}]_(AgP!vars)
        => [\A c, d \in Commits : stage[c] = "done" /\ ~copied[d] /\ copied'[d] =>
               Aggregate!ToSet(batch'[d]) \cap Aggregate!ToSet(batch[c]) = {}]_(Aggregate!vars)
  BY DEF AgP!ToSet, Aggregate!ToSet, AgP!vars, AgP!commitVars, AgP!publisherVars,
         Aggregate!vars, Aggregate!commitVars, Aggregate!publisherVars
<1> QED
  BY <1>1, <1>2, <1>3, <1>4, <1>5, PathStepsAggregate, PTL
  DEF AgP!ReturnedForGood, Aggregate!ReturnedForGood

(* A step of the path is one of the outbox of its events, and one of that  *)
(* of its metadata, or none of the outbox.                                 *)
LEMMA EventsLineRefines ==
    ASSUME EventsInv, [Next]_vars
    PROVE  [Ev!Promise!Next]_(Ev!Promise!outboxVars)
<1>1. CASE EvP!Next
  <2>1. [EvP!Promise!Next]_(EvP!Promise!outboxVars)
    BY <1>1, LineAssumptions, EvP!NextIsLineStep, EvP!StepRefines DEF EventsInv, EvP!TypeOK, EvP!WriteOnlyInv
  <2> QED
    BY <2>1 DEF EvP!Promise!Next, EvP!Promise!Accept, EvP!Promise!Deliver,
                EvP!Promise!outboxVars, EvP!Promise!ToSet,
                Ev!Promise!Next, Ev!Promise!Accept, Ev!Promise!Deliver,
                Ev!Promise!outboxVars, Ev!Promise!ToSet
<1>2. CASE UNCHANGED eventLine
  BY <1>2 DEF eventLine, Ev!Promise!outboxVars
<1> QED
  BY <1>1, <1>2, EventsLineCases, EventsLineMoves

LEMMA MetadatasLineRefines ==
    ASSUME MetadatasInv, [Next]_vars
    PROVE  [Md!Promise!Next]_(Md!Promise!outboxVars)
<1>1. CASE MdP!Next
  <2>1. [MdP!Promise!Next]_(MdP!Promise!outboxVars)
    BY <1>1, LineAssumptions, MdP!NextIsLineStep, MdP!StepRefines DEF MetadatasInv, MdP!TypeOK, MdP!WriteOnlyInv
  <2> QED
    BY <2>1 DEF MdP!Promise!Next, MdP!Promise!Accept, MdP!Promise!Deliver,
                MdP!Promise!outboxVars, MdP!Promise!ToSet,
                Md!Promise!Next, Md!Promise!Accept, Md!Promise!Deliver,
                Md!Promise!outboxVars, Md!Promise!ToSet
<1>2. CASE UNCHANGED metadataLine
  BY <1>2 DEF metadataLine, Md!Promise!outboxVars
<1> QED
  BY <1>1, <1>2, MetadatasLineCases, MetadatasLineMoves

(* Each of the two lines of the path implements the outbox, though they    *)
(* share the connection and a failure of one is one of the other: the      *)
(* store gets the batches, and the metadata, in the order in which the     *)
(* commits came to write them, none skipped and none twice.                *)
THEOREM PathKeepsOutboxes == Spec => Ev!OutboxSpec /\ Md!OutboxSpec
<1>1. Init => Ev!Promise!Init /\ Md!Promise!Init
  BY DEF Init, Ev!Init, Ev!LineInit, Md!LineInit, Ev!Promise!Init, Md!Promise!Init
<1>2. TypesInv /\ [Next]_vars =>
          /\ [Ev!Promise!Next]_(Ev!Promise!outboxVars)
          /\ [Md!Promise!Next]_(Md!Promise!outboxVars)
  BY EventsLineRefines, MetadatasLineRefines DEF TypesInv
<1> QED
  BY <1>1, <1>2, TypesStart, TypesKeep, PTL
  DEF Spec, Ev!OutboxSpec, Md!OutboxSpec, Ev!Promise!Spec, Md!Promise!Spec
=============================================================================
