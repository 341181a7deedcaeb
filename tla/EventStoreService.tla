-------------------------- MODULE EventStoreService --------------------------
(***************************************************************************)
(* The connection of the event store service (event-store.service.ts) and  *)
(* what it drives: persistent subscriptions and projections asserted at    *)
(* the store, the health indicator, the retry timer, and the two waiting   *)
(* lines (WaitingLine.tla), that connect() drains and that the             *)
(* application writes to.                                                  *)
(*                                                                         *)
(* connect() is asynchronous and nothing keeps two runs of it apart: each  *)
(* error of a subscription and each retry timer starts one.  A run is a    *)
(* member of Runs, free again once it has returned.                        *)
(***************************************************************************)
EXTENDS Naturals, Sequences, SequencesExt

CONSTANTS
    Subscriptions,   \* subsystems.subscriptions.persistent, a sequence
    Projections,     \* subsystems.projections, a sequence
    Refused,         \* projections and writes the store always refuses
    Configs,         \* how the optional members may be configured
    Runs,            \* bound: runs of connect() in progress at once
    EventItems,      \* the calls of writeEvents
    MetadataItems,   \* the calls of writeMetadata
    None

Subs == ToSet(Subscriptions)

(* What the configuration interfaces make optional: the subscriptions that *)
(* have settingsForCreation, those that have onError, and whether there is *)
(* an onConnectionFail hook.                                               *)
Config == [settings : SUBSET Subs, onError : SUBSET Subs, hook : BOOLEAN]

ASSUME ServiceAssumption ==
    /\ Subscriptions \in Seq(Subs)
    /\ Projections \in Seq(ToSet(Projections))
    /\ IsInjective(Subscriptions)
    /\ IsInjective(Projections)
    /\ Configs \subseteq Config
    /\ Runs # {}
    /\ None \notin Runs \cup EventItems \cup MetadataItems
    /\ Runs \cap (EventItems \cup MetadataItems) = {}

VARIABLES
    stage,           \* stage[r]: where the run r of connect() is
    cursor,          \* cursor[r]: the subscription or projection it is at
    connectionRetryFallback,   \* the run its timer will start, or None
    isTryingToConnect,
    connection,      \* health indicator: connection
    subscriptions,   \* health indicator: subscriptions
    instance,        \* instance[s]: state of the stream of s that
                     \* getPersistentSubscriptions() returns
    leaked,          \* leaked[s]: another stream of s is still listened to
    unheard,         \* unheard[s]: a stream of s is open without a listener
                     \* for its errors
    started,         \* onModuleInit has returned: the application is up
    destroyed,       \* onModuleDestroy was called
    config           \* the configuration, which never changes

serviceVars == <<stage, cursor, connectionRetryFallback, isTryingToConnect,
                 subscriptions, instance, leaked, unheard, started, destroyed,
                 config>>

status == <<connectionRetryFallback, isTryingToConnect, connection, subscriptions>>
streams == <<instance, leaked, unheard>>
life == <<started, destroyed, config>>

(* The event store. *)
VARIABLES
    storeUp,         \* the store can be reached
    groups,          \* the subscription groups it holds
    projections      \* the projections it holds
storeVars == <<storeUp, groups, projections>>

(* The waiting line of event batches. *)
VARIABLES
    eventBatchesFifo, isTryingToWriteEvents, eventPhase, eventCurrent,
    eventResult, eventsSent, eventsStored, eventsAccepted
eventLine == <<eventBatchesFifo, isTryingToWriteEvents, eventPhase, eventCurrent,
               eventResult, eventsSent, eventsStored, eventsAccepted>>

(* The waiting line of metadata. *)
VARIABLES
    metadatasFifo, isTryingToWriteMetadatas, metadataPhase, metadataCurrent,
    metadataResult, metadatasSent, metadatasStored, metadatasAccepted
metadataLine == <<metadatasFifo, isTryingToWriteMetadatas, metadataPhase, metadataCurrent,
                  metadataResult, metadatasSent, metadatasStored, metadatasAccepted>>

Ev == INSTANCE WaitingLine WITH
    Items <- EventItems, YieldsAfterShift <- TRUE,
    fifo <- eventBatchesFifo, isTrying <- isTryingToWriteEvents,
    phase <- eventPhase, current <- eventCurrent, result <- eventResult,
    sent <- eventsSent, stored <- eventsStored, accepted <- eventsAccepted

Md == INSTANCE WaitingLine WITH
    Items <- MetadataItems, YieldsAfterShift <- FALSE,
    fifo <- metadatasFifo, isTrying <- isTryingToWriteMetadatas,
    phase <- metadataPhase, current <- metadataCurrent, result <- metadataResult,
    sent <- metadatasSent, stored <- metadatasStored, accepted <- metadatasAccepted

vars == <<serviceVars, connection, storeVars, eventLine, metadataLine>>

(* Stages of a run: "idle" not running, "create" and "update" awaiting the  *)
(* store for subscription number cursor, "createProjection" and            *)
(* "updateProjection" for projection number cursor, "events" and           *)
(* "metadatas" awaiting a drain, "waiting" for its retry timer.            *)
Asserting == {"create", "update", "createProjection", "updateProjection"}
Stages == {"idle", "events", "metadatas", "waiting"} \cup Asserting

(* A run that has yet to assert subscriptions or projections, or waits for *)
(* the timer that starts it again.                                         *)
WillConnect(r) == stage[r] \in Asserting \cup {"waiting"}

(* One that opens the streams once it has asserted the subscriptions, now  *)
(* or when its timer fires.                                                *)
WillReopen(r) == stage[r] \in {"create", "update", "waiting"}

(* The store may hold groups and projections of an earlier execution.      *)
Init ==
    /\ stage = [r \in Runs |-> "idle"]
    /\ cursor = [r \in Runs |-> 1]
    /\ connectionRetryFallback = None
    /\ isTryingToConnect = TRUE
    /\ connection = "unset"
    /\ subscriptions = "unset"
    /\ instance = [s \in Subs |-> "none"]
    /\ leaked = [s \in Subs |-> FALSE]
    /\ unheard = [s \in Subs |-> FALSE]
    /\ started = FALSE
    /\ destroyed = FALSE
    /\ config \in Configs
    /\ storeUp \in BOOLEAN
    /\ groups \in SUBSET Subs
    /\ projections \in SUBSET (ToSet(Projections) \ Refused)
    /\ Ev!LineInit
    /\ Md!LineInit
-----------------------------------------------------------------------------
(* The parts connect() is made of. *)

Goto(r, st, k) ==
    /\ stage' = [stage EXCEPT ![r] = st]
    /\ cursor' = [cursor EXCEPT ![r] = k]

ReportDown ==
    /\ isTryingToConnect' = TRUE
    /\ connection' = "down" /\ subscriptions' = "down"
    /\ started' = TRUE
    /\ UNCHANGED <<destroyed, config>>

(* Bug: no timer is set. *)
FailsUntimed(r) == Goto(r, "idle", 1) /\ ReportDown /\ UNCHANGED connectionRetryFallback

(* Bug: the handle of the timer is not kept. *)
FailsForgettingTimer(r) ==
    Goto(r, "waiting", 1) /\ ReportDown /\ UNCHANGED connectionRetryFallback

(* The catch of connect(): report all down and set the retry timer, whose  *)
(* handle replaces the one of a timer that may be pending.                 *)
Fails(r) == Goto(r, "waiting", 1) /\ ReportDown /\ connectionRetryFallback' = r

ReportUp ==
    /\ connection' = "up" /\ subscriptions' = "up"
    /\ UNCHANGED <<connectionRetryFallback, life>>

(* Bug: the event line is not drained. *)
ConnectedUndrained(r) ==
    Goto(r, "events", 1) /\ ReportUp /\ isTryingToConnect' = FALSE /\ UNCHANGED eventLine

(* Bug: the flag is not lowered. *)
ConnectedKeepingFlag(r) ==
    Goto(r, "events", 1) /\ ReportUp /\ Ev!Drain(r) /\ UNCHANGED isTryingToConnect

(* Subscriptions and projections are done with: report all up, drain.      *)
Connected(r) ==
    Goto(r, "events", 1) /\ ReportUp /\ isTryingToConnect' = FALSE /\ Ev!Drain(r)

(* connect() up to its first request, of which nothing is written but the  *)
(* run's own stage when there is something to assert.                      *)
Begins(r, st, k) ==
    /\ Goto(r, st, k)
    /\ UNCHANGED <<connectionRetryFallback, isTryingToConnect, connection, life, eventLine>>

(* upsertProjections from projection number k on, then the rest. *)
GoesOnWithProjections(r, k) ==
    \/ k <= Len(Projections) /\ Begins(r, "createProjection", k) /\ UNCHANGED subscriptions
    \/ k > Len(Projections) /\ Connected(r)

(* The start of connect(). *)
Connects(r) ==
    \/ Subscriptions # <<>> /\ Begins(r, "create", 1) /\ UNCHANGED subscriptions
    \/ Subscriptions = <<>> /\ GoesOnWithProjections(r, 1)

(* Bug: the new streams are not kept. *)
SubscribesAllKeepingOld ==
    /\ instance' = instance
    /\ leaked' = [s \in Subs |-> TRUE]

(* subscribeToPersistentSubscriptions opens a stream for every             *)
(* subscription, and forgets those it had.                                 *)
SubscribesAll ==
    /\ instance' = [s \in Subs |-> "live"]
    /\ leaked' = [s \in Subs |-> leaked[s] \/ instance[s] = "live"]
    /\ UNCHANGED unheard

(* The subscriptions of which it opens a stream, in their order, up to and *)
(* with the first one without onError: .on('error', undefined) throws, and *)
(* its stream is left with a listener for data and none for errors.  (An   *)
(* error of that stream ends the process.)                                 *)
BeforeThrow ==
    {s \in Subs : \E k \in 1..Len(Subscriptions) :
        /\ Subscriptions[k] = s
        /\ \A j \in 1..(k - 1) : Subscriptions[j] \in config.onError}

Throws ==
    /\ leaked' = [s \in Subs |-> leaked[s] \/ s \in BeforeThrow \cap config.onError]
    /\ unheard' = [s \in Subs |-> unheard[s] \/ s \in BeforeThrow \ config.onError]
    /\ UNCHANGED instance

(* Bug: the throw is caught where it is thrown, and connect() goes on. *)
AfterUpsertCaught(r, k) ==
    \/ /\ k < Len(Subscriptions)
       /\ Begins(r, "create", k + 1)
       /\ UNCHANGED <<subscriptions, streams>>
    \/ /\ k = Len(Subscriptions)
       /\ IF config.onError = Subs THEN SubscribesAll ELSE Throws
       /\ GoesOnWithProjections(r, 1)

(* All subscriptions up to number k are upserted.  The streams are opened, *)
(* and connect() goes on, in the run of code that takes the last answer.   *)
AfterUpsert(r, k) ==
    \/ /\ k < Len(Subscriptions)
       /\ Begins(r, "create", k + 1)
       /\ UNCHANGED <<subscriptions, streams>>
    \/ /\ k = Len(Subscriptions)
       /\ config.onError = Subs
       /\ SubscribesAll
       /\ GoesOnWithProjections(r, 1)
    \/ /\ k = Len(Subscriptions)
       /\ config.onError # Subs
       /\ Throws
       /\ Fails(r)
       /\ UNCHANGED eventLine
-----------------------------------------------------------------------------
(* Starts of connect(). *)

OnModuleInit(r) ==
    /\ connection = "unset"
    /\ \A q \in Runs : stage[q] = "idle"
    /\ Connects(r)
    /\ UNCHANGED <<streams, storeVars, metadataLine>>

TimerFires(r) ==
    /\ stage[r] = "waiting"
    /\ Connects(r)
    /\ UNCHANGED <<streams, storeVars, metadataLine>>

(* The handler of the 'error' event: report, and connect unless a run that *)
(* failed is being retried.                                                *)
OnSubscriptionError ==
    /\ subscriptions' = "down"
    /\ \/ isTryingToConnect /\ UNCHANGED <<stage, cursor>>
       \/ ~isTryingToConnect /\ \E r \in Runs : stage[r] = "idle" /\ Goto(r, "create", 1)
    /\ UNCHANGED <<connectionRetryFallback, isTryingToConnect, connection, life,
                   storeVars, eventLine, metadataLine>>

(* A stream ends with an error, the store reachable or not. *)
SubscriptionError(s) ==
    /\ instance[s] = "live"
    /\ instance' = [instance EXCEPT ![s] = "dead"]
    /\ OnSubscriptionError
    /\ UNCHANGED <<leaked, unheard>>

(* The same of a stream that was forgotten; others may be left. *)
LeakedSubscriptionError(s) ==
    /\ leaked[s]
    /\ \E left \in BOOLEAN : leaked' = [leaked EXCEPT ![s] = left]
    /\ OnSubscriptionError
    /\ UNCHANGED <<instance, unheard>>
-----------------------------------------------------------------------------
(* Answers to the requests of connect(): the persistent subscriptions. *)

CreateSubscription(r) ==
    /\ stage[r] = "create"
    /\ storeUp
    /\ Subscriptions[cursor[r]] \notin groups
    /\ groups' = groups \cup {Subscriptions[cursor[r]]}
    /\ AfterUpsert(r, cursor[r])
    /\ UNCHANGED <<storeUp, projections, metadataLine>>

(* It exists: update it.  Reading the settings to send throws when there   *)
(* are none.                                                               *)
SubscriptionExists(r) ==
    LET s == Subscriptions[cursor[r]]
    IN  /\ stage[r] = "create"
        /\ storeUp
        /\ s \in groups
        /\ \/ s \in config.settings /\ Begins(r, "update", cursor[r]) /\ UNCHANGED subscriptions
           \/ s \notin config.settings /\ Fails(r) /\ UNCHANGED eventLine
        /\ UNCHANGED <<streams, storeVars, metadataLine>>

UpdateSubscription(r) ==
    /\ stage[r] = "update"
    /\ storeUp
    /\ AfterUpsert(r, cursor[r])
    /\ UNCHANGED <<storeVars, metadataLine>>

(* Bug: the failure is logged and the loop goes on. *)
SubscriptionFailsLogged(r) ==
    /\ stage[r] \in {"create", "update"}
    /\ ~storeUp
    /\ AfterUpsert(r, cursor[r])
    /\ UNCHANGED <<storeVars, metadataLine>>

(* The request failed, the store having seen it or not. *)
SubscriptionFails(r) ==
    /\ stage[r] \in {"create", "update"}
    /\ ~storeUp
    /\ Fails(r)
    /\ groups' \in {groups, groups \cup {Subscriptions[cursor[r]]}}
    /\ UNCHANGED <<streams, storeUp, projections, eventLine, metadataLine>>
-----------------------------------------------------------------------------
(* The projections. *)

CreateProjection(r) ==
    LET p == Projections[cursor[r]]
    IN  /\ stage[r] = "createProjection"
        /\ storeUp
        /\ p \notin projections \cup Refused
        /\ projections' = projections \cup {p}
        /\ GoesOnWithProjections(r, cursor[r] + 1)
        /\ UNCHANGED <<streams, storeUp, groups, metadataLine>>

ProjectionExists(r) ==
    /\ stage[r] = "createProjection"
    /\ storeUp
    /\ Projections[cursor[r]] \in projections
    /\ Begins(r, "updateProjection", cursor[r])
    /\ UNCHANGED <<subscriptions, streams, storeVars, metadataLine>>

UpdateProjection(r) ==
    /\ stage[r] = "updateProjection"
    /\ storeUp
    /\ GoesOnWithProjections(r, cursor[r] + 1)
    /\ UNCHANGED <<streams, storeVars, metadataLine>>

(* The failure is logged, the projections left are skipped, and connect()  *)
(* goes on as if all were there.                                           *)
ProjectionFails(r) ==
    /\ stage[r] \in {"createProjection", "updateProjection"}
    /\ ~storeUp \/ Projections[cursor[r]] \in Refused
    /\ Connected(r)
    /\ UNCHANGED <<streams, storeVars, metadataLine>>
-----------------------------------------------------------------------------
(* The drains of connect(). *)

(* Bug: the metadata line is not drained. *)
EventsDrainedOnly(r) ==
    /\ stage[r] = "events"
    /\ ~Ev!Active(r)
    /\ Goto(r, "metadatas", 1)
    /\ UNCHANGED <<status, streams, life, storeVars, eventLine, metadataLine>>

EventsDrained(r) ==
    /\ stage[r] = "events"
    /\ ~Ev!Active(r)
    /\ Goto(r, "metadatas", 1)
    /\ Md!Drain(r)
    /\ UNCHANGED <<status, streams, life, storeVars, eventLine>>

(* connect() returns. *)
MetadatasDrained(r) ==
    /\ stage[r] = "metadatas"
    /\ ~Md!Active(r)
    /\ Goto(r, "idle", 1)
    /\ started' = TRUE
    /\ UNCHANGED <<status, streams, destroyed, config, storeVars, eventLine, metadataLine>>

(* A failed drain calls onConnectionFail; if there is none, that throws,   *)
(* and a run of connect() that was draining ends in its catch.             *)
AfterRejection(d) ==
    \/ /\ ~config.hook /\ d \in Runs
       /\ Fails(d)
    \/ /\ config.hook \/ d \notin Runs
       /\ UNCHANGED <<stage, cursor, connectionRetryFallback, isTryingToConnect,
                      subscriptions, life>>

EventsRejected(d) ==
    /\ ~storeUp \/ eventCurrent[d] \in Refused
    /\ Ev!Reject(d)
    /\ AfterRejection(d)
    /\ UNCHANGED <<streams, storeVars, metadataLine>>

MetadatasRejected(d) ==
    /\ ~storeUp \/ metadataCurrent[d] \in Refused
    /\ Md!Reject(d)
    /\ AfterRejection(d)
    /\ UNCHANGED <<streams, storeVars, eventLine>>

EventsAnswered(d) ==
    /\ Ev!Resolve(d) \/ Ev!Continue(d)
    /\ UNCHANGED <<serviceVars, storeVars, metadataLine>>

MetadatasAnswered(d) ==
    /\ Md!Resolve(d) \/ Md!Continue(d)
    /\ UNCHANGED <<serviceVars, storeVars, eventLine>>
-----------------------------------------------------------------------------
(* The application, the store and the end of the program. *)

WriteEvents(i) ==
    /\ started
    /\ Ev!Stack(i) \/ Ev!StackAndDrain(i)
    /\ UNCHANGED <<serviceVars, storeVars, metadataLine>>

WriteMetadata(i) ==
    /\ started
    /\ Md!Stack(i) \/ Md!StackAndDrain(i)
    /\ UNCHANGED <<serviceVars, storeVars, eventLine>>

StoreAppliesEvents(i) ==
    /\ storeUp /\ i \notin Refused
    /\ Ev!StoreApplies(i)
    /\ UNCHANGED <<serviceVars, storeVars, metadataLine>>

StoreAppliesMetadata(i) ==
    /\ storeUp /\ i \notin Refused
    /\ Md!StoreApplies(i)
    /\ UNCHANGED <<serviceVars, storeVars, eventLine>>

StoreGoesDownOrUp ==
    /\ storeUp' = ~storeUp
    /\ UNCHANGED <<serviceVars, connection, groups, projections, eventLine, metadataLine>>

(* clearTimeout of the last timer set, if it is still pending. *)
OnModuleDestroy ==
    /\ started /\ ~destroyed
    /\ destroyed' = TRUE
    /\ stage' = [r \in Runs |->
                    IF r = connectionRetryFallback /\ stage[r] = "waiting"
                    THEN "idle" ELSE stage[r]]
    /\ UNCHANGED <<cursor, status, streams, started, config, storeVars, eventLine, metadataLine>>
-----------------------------------------------------------------------------
(* A step of a run of connect() that the store or a promise answers. *)
RunStep(r) ==
    \/ CreateSubscription(r) \/ SubscriptionExists(r)
    \/ UpdateSubscription(r) \/ SubscriptionFails(r)
    \/ CreateProjection(r) \/ ProjectionExists(r)
    \/ UpdateProjection(r) \/ ProjectionFails(r)
    \/ EventsDrained(r) \/ MetadatasDrained(r)

EventsStep(d) == EventsAnswered(d) \/ EventsRejected(d)
MetadatasStep(d) == MetadatasAnswered(d) \/ MetadatasRejected(d)

Next ==
    \/ \E r \in Runs : OnModuleInit(r) \/ TimerFires(r) \/ RunStep(r)
    \/ \E s \in Subs : SubscriptionError(s) \/ LeakedSubscriptionError(s)
    \/ \E i \in EventItems : WriteEvents(i) \/ StoreAppliesEvents(i)
    \/ \E i \in MetadataItems : WriteMetadata(i) \/ StoreAppliesMetadata(i)
    \/ \E d \in Runs \cup EventItems : EventsStep(d)
    \/ \E d \in Runs \cup MetadataItems : MetadatasStep(d)
    \/ StoreGoesDownOrUp
    \/ OnModuleDestroy

Spec == Init /\ [][Next]_vars

Awaits(phase, current, i) == \E d \in DOMAIN phase : phase[d] = "sent" /\ current[d] = i

(* Timers fire, requests are answered, by the store if it can be reached   *)
(* and by a failure otherwise, and promises resume their callers.  A       *)
(* request that nobody awaits any more may never be applied.               *)
LiveSpec ==
    /\ Spec
    /\ \A r \in Runs : WF_vars(OnModuleInit(r)) /\ WF_vars(TimerFires(r)) /\ WF_vars(RunStep(r))
    /\ \A d \in Runs \cup EventItems : WF_vars(EventsStep(d))
    /\ \A d \in Runs \cup MetadataItems : WF_vars(MetadatasStep(d))
    /\ \A i \in EventItems :
          WF_vars(Awaits(eventPhase, eventCurrent, i) /\ StoreAppliesEvents(i))
    /\ \A i \in MetadataItems :
          WF_vars(Awaits(metadataPhase, metadataCurrent, i) /\ StoreAppliesMetadata(i))
-----------------------------------------------------------------------------
TypeOK ==
    /\ stage \in [Runs -> Stages]
    /\ cursor \in [Runs -> Nat]
    /\ \A r \in Runs :
        /\ stage[r] \in {"create", "update"} => cursor[r] \in DOMAIN Subscriptions
        /\ stage[r] \in {"createProjection", "updateProjection"}
              => cursor[r] \in DOMAIN Projections
    /\ connectionRetryFallback \in Runs \cup {None}
    /\ isTryingToConnect \in BOOLEAN
    /\ connection \in {"unset", "up", "down"}
    /\ subscriptions \in {"unset", "up", "down"}
    /\ instance \in [Subs -> {"none", "live", "dead"}]
    /\ leaked \in [Subs -> BOOLEAN]
    /\ unheard \in [Subs -> BOOLEAN]
    /\ started \in BOOLEAN
    /\ destroyed \in BOOLEAN
    /\ config \in Configs
    /\ storeUp \in BOOLEAN
    /\ groups \subseteq Subs
    /\ projections \subseteq ToSet(Projections) \ Refused

(* The flag that silences subscription errors is never left raised with    *)
(* nobody to lower it: some run of connect() is under way, or has a timer. *)
ConnectingIsRetried ==
    started /\ isTryingToConnect /\ ~destroyed => \E r \in Runs : WillConnect(r)

(* A subscription failure that the health indicator shows is being dealt   *)
(* with, though most errors start no run of their own: some run opens the  *)
(* streams again (services with no projections, see the README).           *)
DownIsTransient ==
    subscriptions = "down" /\ ~destroyed => \E r \in Runs : WillReopen(r)

(* The health indicator never says that the subscriptions are up while one *)
(* of the streams the service returns is dead, or one that it returned to  *)
(* nobody has no listener for its errors (services with no projections).   *)
HealthTellsTruth ==
    subscriptions = "up" => \A s \in Subs : instance[s] = "live" /\ ~unheard[s]

(* A service that is connected has all its subscription groups at the store. *)
SubscriptionsAsserted == ~isTryingToConnect => groups = Subs

(* Writes that wait for nobody are reported (see StallReported): events at *)
(* once, metadata unless a run has its events to drain first.              *)
EventStallReported == Ev!StallReported
MetadataStallReported ==
    Md!Stalled => connection = "down" \/ \E r \in Runs : stage[r] = "events"

(* With one subscription and onConnectionFail configured, connect() has    *)
(* one run at a time before its drains, no stream is forgotten, and the    *)
(* timer that onModuleDestroy clears is the one that is pending.           *)
SingleChain ==
    config.hook =>
        /\ \A r, q \in Runs : WillConnect(r) /\ WillConnect(q) => r = q
        /\ \A r \in Runs : stage[r] = "waiting" => connectionRetryFallback = r
        /\ \A s \in Subs : ~leaked[s]

(* Once the store can be reached and stays so, the service ends connected. *)
Reconnects ==
    <>[]storeUp => <>[](~isTryingToConnect \/ destroyed)

(* A service that retries its connection to a store that stays up empties  *)
(* the line of what waited meanwhile (if the store refuses none of it).    *)
RetryEmptiesLine ==
    (isTryingToConnect /\ []storeUp) ~> (eventBatchesFifo = <<>> \/ destroyed)
=============================================================================
