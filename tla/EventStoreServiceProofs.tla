----------------------- MODULE EventStoreServiceProofs -----------------------
(***************************************************************************)
(* The connection of EventStoreService.tla, for any number of overlapping  *)
(* runs of connect(), any subscriptions, projections, configurations and   *)
(* writes.  What a line keeps by itself is proved in WaitingLineProofs.tla *)
(* and carried over in the last two sections.                              *)
(***************************************************************************)
EXTENDS EventStoreService, SequenceTheorems, TLAPS

(* The first connect() has been called. *)
Begun == started \/ \E r \in Runs : stage[r] # "idle"

SomebodyConnects == \E r \in Runs : WillConnect(r)

(* ConnectingIsRetried, from the first connect() on. *)
RetryInv == isTryingToConnect /\ ~destroyed /\ Begun => SomebodyConnects

(* Whoever opened a stream was a run of connect(). *)
OpenedInv == (\E s \in Subs : instance[s] # "none" \/ leaked[s]) => Begun

(* What a run has asserted is at the store. *)
AssertedBy(r) ==
    /\ stage[r] = "create" =>
        \A j \in DOMAIN Subscriptions : j < cursor[r] => Subscriptions[j] \in groups
    /\ stage[r] = "update" =>
        \A j \in DOMAIN Subscriptions : j <= cursor[r] => Subscriptions[j] \in groups
    /\ stage[r] \in {"createProjection", "updateProjection"} => groups = Subs

AssertedInv == SubscriptionsAsserted /\ \A r \in Runs : AssertedBy(r)

RunTypes ==
    /\ stage \in [Runs -> Stages]
    /\ cursor \in [Runs -> Nat]
    /\ \A r \in Runs :
        /\ stage[r] \in {"create", "update"} => cursor[r] \in DOMAIN Subscriptions
        /\ stage[r] \in {"createProjection", "updateProjection"}
              => cursor[r] \in DOMAIN Projections
    /\ connectionRetryFallback \in Runs \cup {None}
    /\ isTryingToConnect \in BOOLEAN
    /\ connection \in {"unset", "up", "down"}
    /\ subscriptions \in {"unset", "up", "down"}
    /\ started \in BOOLEAN
    /\ destroyed \in BOOLEAN
    /\ config \in Configs

StreamTypes ==
    /\ instance \in [Subs -> {"none", "live", "dead"}]
    /\ leaked \in [Subs -> BOOLEAN]
    /\ unheard \in [Subs -> BOOLEAN]

StoreTypes ==
    /\ storeUp \in BOOLEAN
    /\ groups \subseteq Subs
    /\ projections \subseteq ToSet(Projections) \ Refused

(* A stream failure in the health status has a run of connect() under way. *)
DownInv == subscriptions = "down" /\ ~destroyed => SomebodyConnects

RunInv == RunTypes /\ RetryInv /\ DownInv
StreamInv == StreamTypes /\ OpenedInv
Inv == RunInv /\ StreamInv /\ StoreTypes /\ AssertedInv

LEMMA TypesAreAll == TypeOK <=> RunTypes /\ StreamTypes /\ StoreTypes
BY DEF TypeOK, RunTypes, StreamTypes, StoreTypes
-----------------------------------------------------------------------------
(* The configured subscriptions. *)
LEMMA SubsOfDomain ==
    /\ Subscriptions \in Seq(Subs) /\ Projections \in Seq(ToSet(Projections))
    /\ DOMAIN Subscriptions = 1 .. Len(Subscriptions) /\ Len(Subscriptions) \in Nat
    /\ DOMAIN Projections = 1 .. Len(Projections) /\ Len(Projections) \in Nat
    /\ \A k \in DOMAIN Subscriptions : Subscriptions[k] \in Subs
    /\ \A s \in Subs : \E k \in DOMAIN Subscriptions : Subscriptions[k] = s
    /\ \A k \in DOMAIN Projections : Projections[k] \in ToSet(Projections)
BY ServiceAssumption DEF Subs, ToSet

(* The three ways a part of connect() can end: a request, the drain of the *)
(* events, or the catch.                                                   *)
Asks(r, st, k) ==
    /\ Goto(r, st, k)
    /\ UNCHANGED <<connectionRetryFallback, isTryingToConnect, connection, subscriptions, life>>

Ends(r) == Goto(r, "events", 1) /\ ReportUp /\ isTryingToConnect' = FALSE

AsksProjection(r, k) == k \in DOMAIN Projections /\ Asks(r, "createProjection", k)

LEMMA ProjectionsOutcome ==
    ASSUME NEW r \in Runs, NEW k \in Nat \ {0}, GoesOnWithProjections(r, k)
    PROVE  AsksProjection(r, k) \/ (Ends(r) /\ (k = 1 => Projections = <<>>))
<1>1. CASE k <= Len(Projections) /\ Begins(r, "createProjection", k) /\ UNCHANGED subscriptions
  BY <1>1, SubsOfDomain DEF AsksProjection, Asks, Begins
<1>2. CASE k > Len(Projections) /\ Connected(r)
  <2>1. k = 1 => Projections = <<>>
    BY <1>2, SubsOfDomain
  <2> QED  BY <1>2, <2>1 DEF Ends, Connected
<1> QED  BY <1>1, <1>2 DEF GoesOnWithProjections

LEMMA ConnectsOutcome ==
    ASSUME NEW r \in Runs, Connects(r)
    PROVE  \/ 1 \in DOMAIN Subscriptions /\ Asks(r, "create", 1)
           \/ /\ Subs = {}
              /\ AsksProjection(r, 1) \/ (Ends(r) /\ Projections = <<>>)
<1>1. CASE Subscriptions # <<>> /\ Begins(r, "create", 1) /\ UNCHANGED subscriptions
  <2>1. 1 \in DOMAIN Subscriptions
    BY <1>1, SubsOfDomain
  <2> QED  BY <1>1, <2>1 DEF Asks, Begins
<1>2. CASE Subscriptions = <<>> /\ GoesOnWithProjections(r, 1)
  <2>1. Subs = {}
    BY <1>2 DEF Subs, ToSet
  <2> QED  BY <1>2, <2>1, ProjectionsOutcome
<1> QED  BY <1>1, <1>2 DEF Connects

LEMMA UpsertOutcome ==
    ASSUME NEW r \in Runs, NEW k \in DOMAIN Subscriptions, AfterUpsert(r, k)
    PROVE  \/ /\ k + 1 \in DOMAIN Subscriptions /\ Asks(r, "create", k + 1)
              /\ UNCHANGED streams
           \/ /\ k = Len(Subscriptions) /\ config.onError = Subs /\ SubscribesAll
              /\ AsksProjection(r, 1) \/ (Ends(r) /\ Projections = <<>>)
           \/ config.onError # Subs /\ Fails(r) /\ Throws
<1>1. CASE /\ k < Len(Subscriptions) /\ Begins(r, "create", k + 1)
           /\ UNCHANGED <<subscriptions, streams>>
  <2>1. k + 1 \in DOMAIN Subscriptions
    BY <1>1, SubsOfDomain
  <2> QED  BY <1>1, <2>1 DEF Asks, Begins
<1>2. CASE /\ k = Len(Subscriptions) /\ config.onError = Subs
           /\ SubscribesAll /\ GoesOnWithProjections(r, 1)
  BY <1>2, ProjectionsOutcome
<1>3. CASE config.onError # Subs /\ Throws /\ Fails(r) /\ UNCHANGED eventLine
  BY <1>3
<1> QED  BY <1>1, <1>2, <1>3 DEF AfterUpsert
-----------------------------------------------------------------------------
(* What these ends keep. *)
LEMMA GotoMoves ==
    ASSUME RunTypes, NEW r \in Runs, NEW st \in Stages, NEW k \in Nat, Goto(r, st, k)
    PROVE  /\ stage' \in [Runs -> Stages] /\ cursor' \in [Runs -> Nat]
           /\ stage'[r] = st /\ cursor'[r] = k
           /\ \A q \in Runs : q # r => stage'[q] = stage[q] /\ cursor'[q] = cursor[q]
BY DEF RunTypes, Goto

(* A run that asks the store is one that connects. *)
LEMMA AsksKeeps ==
    ASSUME RunInv, NEW r \in Runs, NEW st \in {"create", "update", "createProjection", "updateProjection"},
           NEW k \in Nat, Goto(r, st, k),
           subscriptions' \in {"unset", "up", "down"},
           st \in {"create", "update"} => k \in DOMAIN Subscriptions,
           st \in {"createProjection", "updateProjection"} => k \in DOMAIN Projections,
           UNCHANGED <<connectionRetryFallback, isTryingToConnect, connection, life>>
    PROVE  RunInv' /\ Begun'
<1>1. st \in Stages /\ st \in Asserting /\ st # "idle"
  BY DEF Stages, Asserting
<1>2. /\ stage' \in [Runs -> Stages] /\ cursor' \in [Runs -> Nat]
      /\ stage'[r] = st /\ cursor'[r] = k
      /\ \A q \in Runs : q # r => stage'[q] = stage[q] /\ cursor'[q] = cursor[q]
  BY <1>1, GotoMoves DEF RunInv
<1>3. RunTypes'
  BY <1>2 DEF RunInv, RunTypes, life
<1>4. SomebodyConnects' /\ Begun'
  BY <1>1, <1>2 DEF SomebodyConnects, WillConnect, Begun
<1> QED  BY <1>3, <1>4 DEF RunInv, RetryInv, DownInv, SomebodyConnects

LEMMA EndsKeeps ==
    ASSUME RunInv, NEW r \in Runs, Ends(r)
    PROVE  RunInv' /\ Begun'
<1>1. /\ stage' \in [Runs -> Stages] /\ cursor' \in [Runs -> Nat]
      /\ stage'[r] = "events"
      /\ \A q \in Runs : q # r => stage'[q] = stage[q] /\ cursor'[q] = cursor[q]
  BY GotoMoves DEF RunInv, Ends, Stages
<1>2. RunTypes'
  BY <1>1 DEF RunInv, RunTypes, Ends, ReportUp, life
<1>3. Begun'
  BY <1>1 DEF Begun
<1> QED  BY <1>2, <1>3 DEF RunInv, RetryInv, DownInv, Ends, ReportUp

LEMMA FailsKeeps ==
    ASSUME RunInv, NEW r \in Runs, Fails(r)
    PROVE  RunInv' /\ Begun'
<1>1. /\ stage' \in [Runs -> Stages] /\ cursor' \in [Runs -> Nat]
      /\ stage'[r] = "waiting"
      /\ \A q \in Runs : q # r => stage'[q] = stage[q] /\ cursor'[q] = cursor[q]
  BY GotoMoves DEF RunInv, Fails, Stages
<1>2. RunTypes'
  BY <1>1 DEF RunInv, RunTypes, Fails, ReportDown
<1>3. SomebodyConnects' /\ Begun'
  BY <1>1 DEF SomebodyConnects, WillConnect, Begun
<1> QED  BY <1>2, <1>3 DEF RunInv, RetryInv, DownInv, SomebodyConnects

(* Steps that are no business of the connection. *)
LEMMA OthersKeep ==
    ASSUME Inv, UNCHANGED <<serviceVars, groups, projections>>, storeUp' \in BOOLEAN,
           connection' \in {"unset", "up", "down"}
    PROVE  Inv'
BY DEF Inv, RunInv, RunTypes, RetryInv, DownInv, SomebodyConnects, WillConnect,
       Begun, StreamInv, StreamTypes, OpenedInv, StoreTypes, AssertedInv,
       SubscriptionsAsserted, AssertedBy, serviceVars
-----------------------------------------------------------------------------
(* The streams, and what is asserted. *)
LEMMA StreamsStay ==
    ASSUME StreamInv, UNCHANGED streams, Begun => Begun'
    PROVE  StreamInv'
BY DEF StreamInv, StreamTypes, OpenedInv, streams

LEMMA SubscribesAllTypes ==
    ASSUME StreamTypes, SubscribesAll
    PROVE  StreamTypes'
BY DEF StreamTypes, SubscribesAll

LEMMA AssertedStays ==
    ASSUME RunTypes, AssertedInv, NEW r \in Runs,
           \A q \in Runs : q # r => stage'[q] = stage[q] /\ cursor'[q] = cursor[q],
           groups \subseteq groups', groups' \subseteq Subs,
           AssertedBy(r)', SubscriptionsAsserted'
    PROVE  AssertedInv'
<1> SUFFICES ASSUME NEW q \in Runs, q # r PROVE AssertedBy(q)'
  BY DEF AssertedInv
<1> QED  BY DEF AssertedInv, AssertedBy

LEMMA AssertedFails ==
    ASSUME RunTypes, AssertedInv, NEW r \in Runs, Fails(r),
           groups \subseteq groups', groups' \subseteq Subs
    PROVE  AssertedInv'
<1>1. /\ stage'[r] = "waiting"
      /\ \A q \in Runs : q # r => stage'[q] = stage[q] /\ cursor'[q] = cursor[q]
  BY GotoMoves DEF Fails, Stages
<1>2. AssertedBy(r)' /\ SubscriptionsAsserted'
  BY <1>1 DEF AssertedBy, SubscriptionsAsserted, Fails, ReportDown
<1> QED  BY <1>1, <1>2, AssertedStays

LEMMA AssertedEnds ==
    ASSUME RunTypes, AssertedInv, NEW r \in Runs, Ends(r),
           groups \subseteq groups', groups' = Subs
    PROVE  AssertedInv'
<1>1. /\ stage'[r] = "events"
      /\ \A q \in Runs : q # r => stage'[q] = stage[q] /\ cursor'[q] = cursor[q]
  BY GotoMoves DEF Ends, Stages
<1>2. AssertedBy(r)' /\ SubscriptionsAsserted'
  BY <1>1 DEF AssertedBy, SubscriptionsAsserted
<1> QED  BY <1>1, <1>2, AssertedStays

(* Once a request is answered, a run asks for what follows. *)
LEMMA AssertedAsks ==
    ASSUME RunTypes, AssertedInv, NEW r \in Runs,
           NEW st \in Asserting, NEW k \in Nat, Goto(r, st, k),
           groups \subseteq groups', groups' \subseteq Subs, UNCHANGED isTryingToConnect,
           st = "create" =>
                \A j \in DOMAIN Subscriptions : j < k => Subscriptions[j] \in groups',
           st = "update" =>
                \A j \in DOMAIN Subscriptions : j <= k => Subscriptions[j] \in groups',
           st \in {"createProjection", "updateProjection"} => groups' = Subs
    PROVE  AssertedInv'
<1>1. /\ stage'[r] = st /\ cursor'[r] = k
      /\ \A q \in Runs : q # r => stage'[q] = stage[q] /\ cursor'[q] = cursor[q]
  BY GotoMoves DEF Stages
<1>2. AssertedBy(r)' /\ SubscriptionsAsserted'
  BY <1>1 DEF AssertedBy, AssertedInv, SubscriptionsAsserted
<1> QED  BY <1>1, <1>2, AssertedStays
-----------------------------------------------------------------------------
(* The steps of a run. *)

(* Going on to the projections, with all groups there. *)
LEMMA ProjectionsKeep ==
    ASSUME Inv, NEW r \in Runs, NEW k \in Nat \ {0},
           AsksProjection(r, k) \/ Ends(r),
           groups \subseteq groups', groups' = Subs
    PROVE  RunInv' /\ Begun' /\ AssertedInv'
<1>1. CASE AsksProjection(r, k)
  <2>1. RunInv' /\ Begun'
    BY <1>1, AsksKeeps DEF AsksProjection, Asks, Inv, RunInv, RunTypes
  <2>2. AssertedInv'
    BY <1>1, AssertedAsks DEF AsksProjection, Asks, Inv, RunInv, Asserting
  <2> QED  BY <2>1, <2>2
<1>2. CASE Ends(r)
  BY <1>2, EndsKeeps, AssertedEnds DEF Inv, RunInv
<1> QED  BY <1>1, <1>2

LEMMA ConnectsKeeps ==
    ASSUME Inv, NEW r \in Runs, Connects(r), UNCHANGED <<streams, storeVars>>
    PROVE  Inv'
<1>1. CASE 1 \in DOMAIN Subscriptions /\ Asks(r, "create", 1)
  <2>1. RunInv' /\ Begun'
    BY <1>1, AsksKeeps DEF Asks, Inv, RunInv, RunTypes
  <2>2. AssertedInv'
    BY <1>1, AssertedAsks, SubsOfDomain DEF Asks, Inv, RunInv, Asserting, StoreTypes, storeVars
  <2> QED  BY <2>1, <2>2, StreamsStay DEF Inv, StoreTypes, storeVars
<1>2. CASE Subs = {} /\ (AsksProjection(r, 1) \/ Ends(r))
  <2>1. groups' = Subs /\ groups \subseteq groups'
    BY <1>2 DEF Inv, StoreTypes, storeVars
  <2>2. RunInv' /\ Begun' /\ AssertedInv'
    BY <1>2, <2>1, ProjectionsKeep
  <2> QED  BY <2>2, StreamsStay DEF Inv, StoreTypes, storeVars
<1> QED  BY <1>1, <1>2, ConnectsOutcome

LEMMA UpsertKeeps ==
    ASSUME Inv, NEW r \in Runs, NEW k \in DOMAIN Subscriptions, AfterUpsert(r, k),
           groups \subseteq groups', groups' \subseteq Subs,
           \A j \in DOMAIN Subscriptions : j <= k => Subscriptions[j] \in groups',
           UNCHANGED <<storeUp, projections>>
    PROVE  Inv'
<1>1. CASE /\ k + 1 \in DOMAIN Subscriptions /\ Asks(r, "create", k + 1)
           /\ UNCHANGED streams
  <2>0. k \in Nat /\ k + 1 \in Nat
    BY SubsOfDomain
  <2>1. RunInv' /\ Begun'
    BY <1>1, <2>0, AsksKeeps DEF Asks, Inv, RunInv, RunTypes
  <2>2. \A j \in DOMAIN Subscriptions : j < k + 1 => Subscriptions[j] \in groups'
    BY <2>0, SubsOfDomain
  <2>3. AssertedInv'
    BY <1>1, <2>0, <2>2, AssertedAsks DEF Asks, Inv, RunInv, Asserting
  <2> QED  BY <1>1, <2>1, <2>3, StreamsStay DEF Inv, StoreTypes
<1>2. CASE /\ k = Len(Subscriptions) /\ SubscribesAll
           /\ AsksProjection(r, 1) \/ Ends(r)
  <2>1. groups' = Subs
    <3>1. \A j \in DOMAIN Subscriptions : j <= k
      BY <1>2, SubsOfDomain
    <3>2. \A j \in DOMAIN Subscriptions : Subscriptions[j] \in groups'
      BY <3>1
    <3>3. Subs \subseteq groups'
      BY <3>2, SubsOfDomain
    <3> QED  BY <3>3
  <2>2. RunInv' /\ Begun' /\ AssertedInv'
    BY <1>2, <2>1, ProjectionsKeep
  <2>3. StreamInv'
    BY <1>2, <2>2, SubscribesAllTypes DEF Inv, StreamInv, OpenedInv
  <2> QED  BY <2>2, <2>3 DEF Inv, StoreTypes
<1>3. CASE Fails(r) /\ Throws
  <2>1. RunInv' /\ Begun' /\ AssertedInv'
    BY <1>3, FailsKeeps, AssertedFails DEF Inv, RunInv
  <2>2. StreamTypes'
    BY <1>3 DEF Inv, StreamInv, StreamTypes, Throws
  <2> QED  BY <2>1, <2>2 DEF Inv, StreamInv, OpenedInv, StoreTypes
<1> QED  BY <1>1, <1>2, <1>3, UpsertOutcome

LEMMA FailsKeepsAll ==
    ASSUME Inv, NEW r \in Runs, Fails(r), UNCHANGED <<streams, storeUp, projections>>,
           groups \subseteq groups', groups' \subseteq Subs
    PROVE  Inv'
<1>1. RunInv' /\ Begun' /\ AssertedInv'
  BY FailsKeeps, AssertedFails DEF Inv, RunInv
<1> QED  BY <1>1, StreamsStay DEF Inv, StoreTypes
-----------------------------------------------------------------------------
(* The actions, one by one. *)

LEMMA CreateSubscriptionKeeps ==
    ASSUME Inv, NEW r \in Runs, CreateSubscription(r)
    PROVE  Inv'
<1>1. cursor[r] \in DOMAIN Subscriptions /\ AssertedBy(r) /\ stage[r] = "create"
  BY DEF CreateSubscription, Inv, RunInv, RunTypes, AssertedInv
<1>2. /\ groups' = groups \cup {Subscriptions[cursor[r]]}
      /\ groups \subseteq groups' /\ groups' \subseteq Subs
  BY <1>1, SubsOfDomain DEF CreateSubscription, Inv, StoreTypes
<1>3. \A j \in DOMAIN Subscriptions : j <= cursor[r] => Subscriptions[j] \in groups'
  BY <1>1, <1>2, SubsOfDomain DEF AssertedBy
<1> QED  BY <1>1, <1>2, <1>3, UpsertKeeps DEF CreateSubscription

LEMMA SubscriptionExistsKeeps ==
    ASSUME Inv, NEW r \in Runs, SubscriptionExists(r)
    PROVE  Inv'
<1>1. /\ cursor[r] \in DOMAIN Subscriptions /\ cursor[r] \in Nat
      /\ AssertedBy(r) /\ stage[r] = "create"
      /\ Subscriptions[cursor[r]] \in groups
      /\ UNCHANGED <<streams, storeVars>>
  BY DEF SubscriptionExists, Inv, RunInv, RunTypes, AssertedInv
<1>2. CASE Begins(r, "update", cursor[r]) /\ UNCHANGED subscriptions
  <2>1. RunInv' /\ Begun'
    BY <1>1, <1>2, AsksKeeps DEF Begins, Inv, RunInv, RunTypes
  <2>2. \A j \in DOMAIN Subscriptions : j <= cursor[r] => Subscriptions[j] \in groups'
    BY <1>1, SubsOfDomain DEF AssertedBy, storeVars
  <2>3. AssertedInv'
    BY <1>1, <1>2, <2>2, AssertedAsks DEF Begins, Inv, RunInv, Asserting, StoreTypes, storeVars
  <2> QED  BY <1>1, <2>1, <2>3, StreamsStay DEF Inv, StoreTypes, storeVars
<1>3. CASE Fails(r)
  BY <1>1, <1>3, FailsKeepsAll DEF storeVars, Inv, StoreTypes
<1> QED  BY <1>2, <1>3 DEF SubscriptionExists

LEMMA UpdateSubscriptionKeeps ==
    ASSUME Inv, NEW r \in Runs, UpdateSubscription(r)
    PROVE  Inv'
<1>1. cursor[r] \in DOMAIN Subscriptions /\ AssertedBy(r) /\ stage[r] = "update"
  BY DEF UpdateSubscription, Inv, RunInv, RunTypes, AssertedInv
<1>2. \A j \in DOMAIN Subscriptions : j <= cursor[r] => Subscriptions[j] \in groups'
  BY <1>1 DEF AssertedBy, UpdateSubscription, storeVars
<1> QED  BY <1>1, <1>2, UpsertKeeps DEF UpdateSubscription, storeVars, Inv, StoreTypes

LEMMA SubscriptionFailsKeeps ==
    ASSUME Inv, NEW r \in Runs, SubscriptionFails(r)
    PROVE  Inv'
<1>1. Subscriptions[cursor[r]] \in Subs
  BY SubsOfDomain DEF SubscriptionFails, Inv, RunInv, RunTypes
<1> QED  BY <1>1, FailsKeepsAll DEF SubscriptionFails, Inv, StoreTypes

LEMMA ProjectionStepKeeps ==
    ASSUME Inv, NEW r \in Runs,
           \/ CreateProjection(r) \/ ProjectionExists(r)
           \/ UpdateProjection(r) \/ ProjectionFails(r)
    PROVE  Inv'
<1>1. /\ stage[r] \in {"createProjection", "updateProjection"}
      /\ cursor[r] \in DOMAIN Projections /\ cursor[r] \in Nat
      /\ cursor[r] + 1 \in Nat \ {0} /\ groups = Subs
      /\ UNCHANGED <<streams, storeUp, groups>>
  BY DEF CreateProjection, ProjectionExists, UpdateProjection, ProjectionFails, storeVars,
         Inv, RunInv, RunTypes, AssertedInv, AssertedBy
<1>2. StoreTypes'
  BY <1>1, SubsOfDomain DEF CreateProjection, ProjectionExists, UpdateProjection,
     ProjectionFails, storeVars, Inv, StoreTypes
<1>3. RunInv' /\ Begun' /\ AssertedInv'
  <2>1. CASE CreateProjection(r) \/ UpdateProjection(r)
    <3>1. GoesOnWithProjections(r, cursor[r] + 1)
      BY <2>1 DEF CreateProjection, UpdateProjection
    <3> QED  BY <1>1, <3>1, ProjectionsOutcome, ProjectionsKeep
  <2>2. CASE ProjectionExists(r)
    <3>1. Goto(r, "updateProjection", cursor[r])
      BY <2>2 DEF ProjectionExists, Begins
    <3>2. RunInv' /\ Begun'
      BY <1>1, <2>2, <3>1, AsksKeeps DEF ProjectionExists, Begins, Inv, RunInv, RunTypes
    <3>3. AssertedInv'
      BY <1>1, <2>2, <3>1, AssertedAsks DEF ProjectionExists, Begins, Inv, RunInv, Asserting
    <3> QED  BY <3>2, <3>3
  <2>3. CASE ProjectionFails(r)
    <3>1. Ends(r)
      BY <2>3 DEF ProjectionFails, Connected, Ends
    <3> QED  BY <1>1, <3>1, ProjectionsKeep
  <2> QED  BY <2>1, <2>2, <2>3
<1> QED  BY <1>1, <1>2, <1>3, StreamsStay DEF Inv

LEMMA DrainedKeeps ==
    ASSUME Inv, NEW r \in Runs, EventsDrained(r) \/ MetadatasDrained(r)
    PROVE  Inv'
<1>1. PICK st \in {"metadatas", "idle"} :
        /\ stage[r] \in {"events", "metadatas"} /\ Goto(r, st, 1)
        /\ st = "idle" => started' = TRUE
        /\ started => started'
        /\ started' \in BOOLEAN
        /\ UNCHANGED <<status, streams, destroyed, config, storeVars>>
  BY DEF EventsDrained, MetadatasDrained, life, Inv, RunInv, RunTypes
<1>2. /\ stage' \in [Runs -> Stages] /\ cursor' \in [Runs -> Nat]
      /\ stage'[r] = st
      /\ \A q \in Runs : q # r => stage'[q] = stage[q] /\ cursor'[q] = cursor[q]
  BY <1>1, GotoMoves DEF Inv, RunInv, Stages
<1>3. RunTypes'
  BY <1>1, <1>2 DEF Inv, RunInv, RunTypes, status
<1>4. Begun /\ Begun'
  BY <1>1, <1>2 DEF Begun
<1>5. SomebodyConnects => SomebodyConnects'
  BY <1>1, <1>2 DEF SomebodyConnects, WillConnect, Asserting
<1>6. RunInv'
  BY <1>1, <1>3, <1>4, <1>5 DEF Inv, RunInv, RetryInv, DownInv, SomebodyConnects, status
<1>7. AssertedInv'
  <2>1. AssertedBy(r)' /\ SubscriptionsAsserted'
    BY <1>1, <1>2 DEF AssertedBy, Inv, AssertedInv, SubscriptionsAsserted, status, storeVars
  <2> QED  BY <1>1, <1>2, <2>1, AssertedStays DEF Inv, RunInv, StoreTypes, storeVars
<1> QED  BY <1>1, <1>4, <1>6, <1>7, StreamsStay DEF Inv, StoreTypes, storeVars

LEMMA SubscriptionErrorKeeps ==
    ASSUME Inv, NEW s \in Subs, SubscriptionError(s) \/ LeakedSubscriptionError(s)
    PROVE  Inv'
<1>1. OnSubscriptionError
  BY DEF SubscriptionError, LeakedSubscriptionError
<1>2. Begun
  BY DEF SubscriptionError, LeakedSubscriptionError, Inv, StreamInv, OpenedInv
<1>3. StreamTypes'
  BY DEF SubscriptionError, LeakedSubscriptionError, Inv, StreamInv, StreamTypes
<1>4. subscriptions' = "down" /\ UNCHANGED <<connectionRetryFallback, isTryingToConnect,
        connection, started, destroyed, config, storeUp, groups, projections>>
  BY <1>1 DEF OnSubscriptionError, life, storeVars
<1>5. CASE isTryingToConnect /\ UNCHANGED <<stage, cursor>>
  <2>1. Begun' /\ (SomebodyConnects <=> SomebodyConnects')
    BY <1>2, <1>4, <1>5 DEF Begun, SomebodyConnects, WillConnect
  <2>2. ~destroyed => SomebodyConnects
    BY <1>2, <1>5 DEF Inv, RunInv, RetryInv
  <2>3. RunInv'
    BY <1>4, <1>5, <2>1, <2>2
       DEF Inv, RunInv, RunTypes, RetryInv, DownInv, SomebodyConnects
  <2>4. AssertedInv'
    BY <1>4, <1>5 DEF Inv, AssertedInv, AssertedBy, SubscriptionsAsserted
  <2> QED  BY <1>3, <1>4, <2>1, <2>3, <2>4 DEF Inv, StreamInv, OpenedInv, StoreTypes
<1>6. ASSUME ~isTryingToConnect, NEW r \in Runs, stage[r] = "idle", Goto(r, "create", 1)
      PROVE  Inv'
  <2>1. 1 \in DOMAIN Subscriptions
    BY SubsOfDomain
  <2>2. RunInv' /\ Begun'
    BY <1>4, <1>6, <2>1, AsksKeeps DEF Inv, life
  <2>3. \A j \in DOMAIN Subscriptions : ~(j < 1)
    BY SubsOfDomain
  <2>4. AssertedInv'
    BY <1>4, <1>6, <2>3, AssertedAsks DEF Inv, RunInv, Asserting, StoreTypes
  <2> QED  BY <1>3, <1>4, <2>2, <2>4 DEF Inv, StreamInv, OpenedInv, StoreTypes
<1> QED  BY <1>1, <1>5, <1>6 DEF OnSubscriptionError

LEMMA RejectedKeeps ==
    ASSUME Inv, NEW d, EventsRejected(d) \/ MetadatasRejected(d)
    PROVE  Inv'
<1>1. connection' = "down" /\ AfterRejection(d) /\ UNCHANGED <<streams, storeVars>>
  BY DEF EventsRejected, MetadatasRejected, Ev!Reject, Md!Reject
<1>2. CASE d \in Runs /\ Fails(d)
  BY <1>1, <1>2, FailsKeepsAll DEF storeVars, Inv, StoreTypes
<1>3. CASE UNCHANGED <<stage, cursor, connectionRetryFallback, isTryingToConnect,
                       subscriptions, life>>
  BY <1>1, <1>3, OthersKeep DEF serviceVars, streams, life, storeVars, Inv, StoreTypes
<1> QED  BY <1>1, <1>2, <1>3 DEF AfterRejection

LEMMA DestroyKeeps ==
    ASSUME Inv, OnModuleDestroy
    PROVE  Inv'
<1>1. /\ stage' \in [Runs -> Stages]
      /\ \A r \in Runs : stage'[r] = stage[r] \/ stage'[r] = "idle"
      /\ destroyed' = TRUE /\ started' = TRUE
      /\ UNCHANGED <<cursor, status, streams, config, storeVars>>
  BY DEF OnModuleDestroy, Inv, RunInv, RunTypes, Stages
<1>2. RunTypes'
  BY <1>1 DEF Inv, RunInv, RunTypes, status
<1>3. RunInv' /\ Begun'
  BY <1>1, <1>2 DEF RunInv, RetryInv, DownInv, Begun
<1>4. AssertedInv'
  BY <1>1 DEF Inv, AssertedInv, AssertedBy, SubscriptionsAsserted, status, storeVars
<1> QED  BY <1>1, <1>3, <1>4, StreamsStay DEF Inv, StoreTypes, storeVars
-----------------------------------------------------------------------------
LEMMA InvStart == Init => Inv
<1> SUFFICES ASSUME Init PROVE Inv
  OBVIOUS
<1>1. RunTypes /\ StreamTypes /\ StoreTypes
  BY DEF Init, RunTypes, StreamTypes, StoreTypes, Stages
<1>2. ~Begun
  BY DEF Init, Begun
<1>3. RetryInv /\ DownInv /\ OpenedInv /\ AssertedInv
  BY <1>2 DEF Init, RetryInv, DownInv, OpenedInv, AssertedInv,
              SubscriptionsAsserted, AssertedBy
<1> QED  BY <1>1, <1>3 DEF Inv, RunInv, StreamInv

LEMMA InvStep == Inv /\ [Next]_vars => Inv'
<1> SUFFICES ASSUME Inv, [Next]_vars PROVE Inv'
  OBVIOUS
<1>0. storeUp \in BOOLEAN /\ connection \in {"unset", "up", "down"}
  BY DEF Inv, RunInv, RunTypes, StoreTypes
<1>1. ASSUME NEW r \in Runs, OnModuleInit(r) \/ TimerFires(r) PROVE Inv'
  BY <1>1, ConnectsKeeps DEF OnModuleInit, TimerFires
<1>2. ASSUME NEW r \in Runs, RunStep(r) PROVE Inv'
  BY <1>2, CreateSubscriptionKeeps, SubscriptionExistsKeeps, UpdateSubscriptionKeeps,
     SubscriptionFailsKeeps, ProjectionStepKeeps, DrainedKeeps DEF RunStep
<1>3. ASSUME NEW s \in Subs, SubscriptionError(s) \/ LeakedSubscriptionError(s) PROVE Inv'
  BY <1>3, SubscriptionErrorKeeps
<1>4. ASSUME NEW i, WriteEvents(i) \/ StoreAppliesEvents(i) PROVE Inv'
  <2>1. UNCHANGED <<serviceVars, storeVars, connection>>
    BY <1>4 DEF WriteEvents, StoreAppliesEvents, Ev!Stack, Ev!StackAndDrain, Ev!StoreApplies
  <2> QED  BY <1>0, <2>1, OthersKeep DEF storeVars
<1>5. ASSUME NEW i, WriteMetadata(i) \/ StoreAppliesMetadata(i) PROVE Inv'
  <2>1. UNCHANGED <<serviceVars, storeVars, connection>>
    BY <1>5 DEF WriteMetadata, StoreAppliesMetadata, Md!Stack, Md!StackAndDrain, Md!StoreApplies
  <2> QED  BY <1>0, <2>1, OthersKeep DEF storeVars
<1>6. ASSUME NEW d, EventsStep(d) PROVE Inv'
  <2>1. CASE EventsAnswered(d)
    <3>1. UNCHANGED <<serviceVars, storeVars, connection>>
      BY <2>1 DEF EventsAnswered, Ev!Resolve, Ev!Continue
    <3> QED  BY <1>0, <3>1, OthersKeep DEF storeVars
  <2> QED  BY <1>6, <2>1, RejectedKeeps DEF EventsStep
<1>7. ASSUME NEW d, MetadatasStep(d) PROVE Inv'
  <2>1. CASE MetadatasAnswered(d)
    <3>1. UNCHANGED <<serviceVars, storeVars, connection>>
      BY <2>1 DEF MetadatasAnswered, Md!Resolve, Md!Continue
    <3> QED  BY <1>0, <3>1, OthersKeep DEF storeVars
  <2> QED  BY <1>7, <2>1, RejectedKeeps DEF MetadatasStep
<1>8. CASE StoreGoesDownOrUp
  BY <1>0, <1>8, OthersKeep DEF StoreGoesDownOrUp
<1>9. CASE OnModuleDestroy
  BY <1>9, DestroyKeeps
<1>10. CASE UNCHANGED vars
  BY <1>0, <1>10, OthersKeep DEF vars, storeVars
<1> QED
  BY <1>1, <1>2, <1>3, <1>4, <1>5, <1>6, <1>7, <1>8, <1>9, <1>10 DEF Next

LEMMA InvAlways == Spec => []Inv
BY InvStart, InvStep, PTL DEF Spec
-----------------------------------------------------------------------------
(* The state of the connection, of its streams and of the store keeps its  *)
(* type: a run is never beyond the end of what it asserts.                 *)
THEOREM ServiceTypeCorrect == Spec => []TypeOK
<1>1. Inv => TypeOK
  BY TypesAreAll DEF Inv, RunInv, StreamInv
<1> QED  BY <1>1, InvAlways, PTL

(* The flag that silences stream errors is raised only while somebody      *)
(* connects or is about to, whatever runs of connect() overlap and fail.   *)
THEOREM SilenceIsRetried == Spec => []ConnectingIsRetried
<1>1. Inv => ConnectingIsRetried
  BY DEF Inv, RunInv, RetryInv, Begun, ConnectingIsRetried, SomebodyConnects
<1> QED  BY <1>1, InvAlways, PTL

(* A service that is connected has all its groups at the store, whichever  *)
(* of its requests failed or were carried out without an answer.           *)
THEOREM ConnectedIsAsserted == Spec => []SubscriptionsAsserted
<1>1. Inv => SubscriptionsAsserted
  BY DEF Inv, AssertedInv
<1> QED  BY <1>1, InvAlways, PTL
-----------------------------------------------------------------------------
(* Services without projections. *)

LEMMA NoProjection ==
    ASSUME Inv, Projections = <<>>, NEW r \in Runs
    PROVE  /\ stage[r] \notin {"createProjection", "updateProjection"}
           /\ \A k : ~AsksProjection(r, k)
BY SubsOfDomain DEF Inv, RunInv, RunTypes, AsksProjection

(* Without projections whoever connects opens the streams, so that a       *)
(* stream failure in the health status is being repaired.  (With them a    *)
(* run that is at the projections has the opening behind it.)              *)
THEOREM DownIsRepaired == Projections = <<>> /\ Spec => []DownIsTransient
<1> SUFFICES ASSUME Projections = <<>> PROVE Spec => []DownIsTransient
  OBVIOUS
<1>1. Inv => DownIsTransient
  <2> SUFFICES ASSUME Inv, subscriptions = "down", ~destroyed
               PROVE  \E r \in Runs : WillReopen(r)
    BY DEF DownIsTransient
  <2>1. PICK r \in Runs : WillConnect(r)
    BY DEF Inv, RunInv, DownInv, SomebodyConnects
  <2>2. WillReopen(r)
    BY <2>1, NoProjection DEF WillConnect, WillReopen, Asserting
  <2> QED  BY <2>2
<1> QED  BY <1>1, InvAlways, PTL

(* The line steps leave the connection's own state alone, but for a run    *)
(* whose drain fails without a hook.                                       *)
LineStep ==
    \/ \E i \in EventItems : WriteEvents(i) \/ StoreAppliesEvents(i)
    \/ \E i \in MetadataItems : WriteMetadata(i) \/ StoreAppliesMetadata(i)
    \/ \E d \in Runs \cup EventItems : EventsStep(d)
    \/ \E d \in Runs \cup MetadataItems : MetadatasStep(d)

LEMMA LineOutcome ==
    ASSUME LineStep
    PROVE  /\ connection' \in {connection, "down"} /\ UNCHANGED streams
           /\ \/ UNCHANGED <<stage, connectionRetryFallback, subscriptions, config>>
              \/ ~config.hook /\ UNCHANGED config /\ \E r \in Runs : Fails(r)
<1>1. ASSUME NEW i, \/ WriteEvents(i) \/ StoreAppliesEvents(i)
                    \/ WriteMetadata(i) \/ StoreAppliesMetadata(i)
      PROVE  UNCHANGED <<serviceVars, connection>>
  BY <1>1 DEF WriteEvents, StoreAppliesEvents, WriteMetadata, StoreAppliesMetadata,
              Ev!Stack, Ev!StackAndDrain, Ev!StoreApplies,
              Md!Stack, Md!StackAndDrain, Md!StoreApplies
<1>2. ASSUME NEW d, EventsAnswered(d) \/ MetadatasAnswered(d)
      PROVE  UNCHANGED <<serviceVars, connection>>
  BY <1>2 DEF EventsAnswered, MetadatasAnswered, Ev!Resolve, Ev!Continue, Md!Resolve, Md!Continue
<1>3. ASSUME NEW d, EventsRejected(d) \/ MetadatasRejected(d)
      PROVE  connection' = "down" /\ UNCHANGED streams /\ AfterRejection(d)
  BY <1>3 DEF EventsRejected, MetadatasRejected, Ev!Reject, Md!Reject
<1>4. ASSUME NEW d, AfterRejection(d)
      PROVE  \/ UNCHANGED <<stage, connectionRetryFallback, subscriptions, config>>
             \/ ~config.hook /\ UNCHANGED config /\ \E r \in Runs : Fails(r)
  BY <1>4 DEF AfterRejection, Fails, ReportDown, life
<1>5. UNCHANGED serviceVars =>
        UNCHANGED <<stage, connectionRetryFallback, subscriptions, config, streams>>
  BY DEF serviceVars, streams
<1> QED  BY <1>1, <1>2, <1>3, <1>4, <1>5 DEF LineStep, EventsStep, MetadatasStep

(* Only a configuration that makes connect() throw leaves a stream unheard. *)
UnheardInv == \A s \in Subs : unheard[s] => config.onError # Subs

LEMMA UnheardStep == Inv /\ UnheardInv /\ [Next]_vars => UnheardInv'
<1> SUFFICES ASSUME Inv, UnheardInv, [Next]_vars PROVE UnheardInv'
  OBVIOUS
<1>1. UNCHANGED <<unheard, config>> => UnheardInv'
  BY DEF UnheardInv
<1>2. \A r \in Runs : Fails(r) => UNCHANGED config
  BY DEF Fails, ReportDown
<1>3. \A r \in Runs : Connects(r) => UNCHANGED config
  BY ConnectsOutcome DEF Asks, AsksProjection, Ends, ReportUp, life
<1>4. ASSUME NEW r \in Runs, CreateSubscription(r) \/ UpdateSubscription(r) PROVE UnheardInv'
  <2>1. cursor[r] \in DOMAIN Subscriptions /\ AfterUpsert(r, cursor[r])
    BY <1>4 DEF CreateSubscription, UpdateSubscription, Inv, RunInv, RunTypes
  <2>2. UNCHANGED config
    BY <1>2, <2>1, UpsertOutcome DEF Asks, AsksProjection, Ends, ReportUp, life
  <2>3. UNCHANGED unheard \/ config.onError # Subs
    BY <2>1, UpsertOutcome DEF streams, SubscribesAll
  <2> QED  BY <1>1, <2>2, <2>3 DEF UnheardInv
<1>5. ASSUME NEW r \in Runs, OnModuleInit(r) \/ TimerFires(r) PROVE UnheardInv'
  BY <1>1, <1>3, <1>5 DEF OnModuleInit, TimerFires, streams
<1>6. ASSUME NEW r \in Runs, SubscriptionExists(r) \/ SubscriptionFails(r) PROVE UnheardInv'
  BY <1>1, <1>2, <1>6 DEF SubscriptionExists, SubscriptionFails, Begins, life, streams
<1>7. ASSUME NEW r \in Runs,
             \/ CreateProjection(r) \/ ProjectionExists(r)
             \/ UpdateProjection(r) \/ ProjectionFails(r)
      PROVE  UnheardInv'
  BY <1>1, <1>7 DEF CreateProjection, ProjectionExists, UpdateProjection, ProjectionFails,
     GoesOnWithProjections, Begins, Connected, ReportUp, life, streams
<1>8. ASSUME NEW r \in Runs, EventsDrained(r) \/ MetadatasDrained(r) PROVE UnheardInv'
  BY <1>1, <1>8 DEF EventsDrained, MetadatasDrained, life, streams
<1>9. ASSUME NEW s \in Subs, SubscriptionError(s) \/ LeakedSubscriptionError(s)
      PROVE  UnheardInv'
  BY <1>1, <1>9 DEF SubscriptionError, LeakedSubscriptionError, OnSubscriptionError, life
<1>10. CASE LineStep
  BY <1>1, <1>2, <1>10, LineOutcome DEF streams
<1>11. CASE StoreGoesDownOrUp \/ OnModuleDestroy \/ UNCHANGED vars
  BY <1>1, <1>11 DEF StoreGoesDownOrUp, OnModuleDestroy, vars, serviceVars, streams
<1> QED
  BY <1>4, <1>5, <1>6, <1>7, <1>8, <1>9, <1>10, <1>11 DEF Next, RunStep, LineStep

LEMMA HealthStep ==
    /\ Projections = <<>>
    /\ Inv /\ UnheardInv /\ HealthTellsTruth
    /\ [Next]_vars
    => HealthTellsTruth'
<1> SUFFICES ASSUME Projections = <<>>, Inv, UnheardInv, HealthTellsTruth, [Next]_vars
             PROVE  HealthTellsTruth'
  OBVIOUS
<1>1. subscriptions' = "down" => HealthTellsTruth'
  BY DEF HealthTellsTruth
<1>2. UNCHANGED <<subscriptions, instance, unheard>> => HealthTellsTruth'
  BY DEF HealthTellsTruth
<1>3. \A r \in Runs : Fails(r) => subscriptions' = "down"
  BY DEF Fails, ReportDown
<1>4. ASSUME NEW r \in Runs, OnModuleInit(r) \/ TimerFires(r) PROVE HealthTellsTruth'
  <2>1. Connects(r) /\ UNCHANGED <<instance, unheard>>
    BY <1>4 DEF OnModuleInit, TimerFires, streams
  <2>2. Subs = {} \/ UNCHANGED subscriptions
    BY <2>1, ConnectsOutcome DEF Asks
  <2> QED  BY <1>2, <2>1, <2>2 DEF HealthTellsTruth
<1>5. ASSUME NEW r \in Runs, CreateSubscription(r) \/ UpdateSubscription(r) PROVE HealthTellsTruth'
  <2>1. cursor[r] \in DOMAIN Subscriptions /\ AfterUpsert(r, cursor[r])
    BY <1>5 DEF CreateSubscription, UpdateSubscription, Inv, RunInv, RunTypes
  <2>2. config.onError = Subs /\ SubscribesAll => HealthTellsTruth'
    BY DEF SubscribesAll, HealthTellsTruth, UnheardInv
  <2> QED  BY <1>1, <1>2, <1>3, <2>1, <2>2, UpsertOutcome DEF Asks, streams
<1>6. ASSUME NEW r \in Runs, SubscriptionExists(r) \/ SubscriptionFails(r) PROVE HealthTellsTruth'
  BY <1>1, <1>2, <1>3, <1>6 DEF SubscriptionExists, SubscriptionFails, streams
<1>7. ASSUME NEW r \in Runs,
             \/ CreateProjection(r) \/ ProjectionExists(r)
             \/ UpdateProjection(r) \/ ProjectionFails(r)
      PROVE  FALSE
  BY <1>7, NoProjection DEF CreateProjection, ProjectionExists, UpdateProjection, ProjectionFails
<1>8. ASSUME NEW r \in Runs, EventsDrained(r) \/ MetadatasDrained(r) PROVE HealthTellsTruth'
  BY <1>2, <1>8 DEF EventsDrained, MetadatasDrained, status, streams
<1>9. ASSUME NEW s \in Subs, SubscriptionError(s) \/ LeakedSubscriptionError(s)
      PROVE  HealthTellsTruth'
  BY <1>1, <1>9 DEF SubscriptionError, LeakedSubscriptionError, OnSubscriptionError
<1>10. CASE LineStep
  BY <1>1, <1>2, <1>3, <1>10, LineOutcome DEF streams
<1>11. CASE StoreGoesDownOrUp \/ OnModuleDestroy \/ UNCHANGED vars
  BY <1>2, <1>11 DEF StoreGoesDownOrUp, OnModuleDestroy, vars, serviceVars, status, streams
<1> QED
  BY <1>4, <1>5, <1>6, <1>7, <1>8, <1>9, <1>10, <1>11 DEF Next, RunStep, LineStep

(* Without projections the health indicator says that the subscriptions    *)
(* are up only while all the streams that the service returns are alive,   *)
(* and none that it forgot lacks a listener for its errors.                *)
THEOREM HealthIsTrue == Projections = <<>> /\ Spec => []HealthTellsTruth
<1> SUFFICES ASSUME Projections = <<>> PROVE Spec => []HealthTellsTruth
  OBVIOUS
<1>1. Init => HealthTellsTruth /\ UnheardInv
  BY DEF Init, HealthTellsTruth, UnheardInv
<1>2. Inv /\ UnheardInv /\ HealthTellsTruth /\ [Next]_vars => (HealthTellsTruth /\ UnheardInv)'
  BY HealthStep, UnheardStep
<1> QED  BY <1>1, <1>2, InvAlways, PTL DEF Spec
-----------------------------------------------------------------------------
(* One subscription and no projections. *)

OneSubscriptionOnly == Len(Subscriptions) = 1 /\ Projections = <<>>

(* Whoever connects is alone, and has no living stream. *)
ChainInv ==
    config.hook =>
        /\ \A r, q \in Runs : WillConnect(r) /\ WillConnect(q) => r = q
        /\ \A r \in Runs : stage[r] = "waiting" => connectionRetryFallback = r
        /\ \A s \in Subs : ~leaked[s]
        /\ \A r \in Runs, s \in Subs : WillConnect(r) => instance[s] # "live"
        /\ \A s \in Subs : connection = "unset" => instance[s] # "live"

LEMMA OneSub ==
    ASSUME OneSubscriptionOnly
    PROVE  /\ DOMAIN Subscriptions = {1}
           /\ Subs = {Subscriptions[1]}
<1>1. DOMAIN Subscriptions = {1}
  BY SubsOfDomain DEF OneSubscriptionOnly
<1> QED  BY <1>1, SubsOfDomain

LEMMA NothingLeftByThrow ==
    ASSUME OneSubscriptionOnly, Inv, config.onError # Subs
    PROVE  BeforeThrow \cap config.onError = {}
<1>1. config.onError \subseteq Subs
  BY ServiceAssumption DEF Inv, RunInv, RunTypes, Config
<1>2. Subscriptions[1] \notin config.onError
  BY <1>1, OneSub
<1> QED  BY <1>2 DEF BeforeThrow

(* A run that connects already goes on to do so, or fails. *)
LEMMA ChainGoesOn ==
    ASSUME Inv, ChainInv, NEW r \in Runs, WillConnect(r), UNCHANGED <<instance, config>>,
           leaked' = leaked, connection' # "unset" \/ UNCHANGED connection,
           \/ \E st \in Asserting, k \in Nat :
                Goto(r, st, k) /\ UNCHANGED connectionRetryFallback
           \/ Fails(r)
    PROVE  ChainInv'
<1> SUFFICES ASSUME config.hook PROVE ChainInv'
  BY DEF ChainInv
<1>1. \A q \in Runs : WillConnect(q) => q = r
  BY DEF ChainInv
<1>2. \A q \in Runs : q # r => stage'[q] = stage[q]
  BY GotoMoves DEF Fails, Inv, RunInv, Stages
<1>3. \A q \in Runs : q # r => ~WillConnect(q)'
  BY <1>1, <1>2 DEF WillConnect
<1>4. stage'[r] = "waiting" => connectionRetryFallback' = r
  <2>1. CASE Fails(r)
    BY <2>1 DEF Fails
  <2>2. ASSUME NEW st \in Asserting, NEW k \in Nat, Goto(r, st, k)
        PROVE  stage'[r] # "waiting"
    BY <2>2, GotoMoves DEF Inv, RunInv, Stages, Asserting
  <2> QED  BY <2>1, <2>2
<1> QED  BY <1>3, <1>4 DEF ChainInv, WillConnect

(* The one run that connects gets through. *)
LEMMA ChainEnds ==
    ASSUME Inv, ChainInv, NEW r \in Runs, WillConnect(r) \/ Subs = {}, Ends(r),
           SubscribesAll \/ UNCHANGED streams
    PROVE  ChainInv'
<1> SUFFICES ASSUME config.hook PROVE ChainInv'
  BY DEF ChainInv, Ends, ReportUp, life
<1>1. /\ stage'[r] = "events"
      /\ \A q \in Runs : q # r => stage'[q] = stage[q]
  BY GotoMoves DEF Ends, Inv, RunInv, Stages
<1>2. connection' = "up" /\ UNCHANGED connectionRetryFallback
  BY DEF Ends, ReportUp
<1>3. \A q \in Runs : WillConnect(q)' => WillConnect(q) /\ q # r
  BY <1>1 DEF WillConnect, Asserting
<1>4. \A s \in Subs : ~leaked'[s]
  BY DEF ChainInv, SubscribesAll, streams
<1>5. \A q \in Runs : WillConnect(q)' => Subs = {}
  BY <1>3 DEF ChainInv
<1> QED  BY <1>1, <1>2, <1>3, <1>4, <1>5 DEF ChainInv

LEMMA ChainUpsert ==
    ASSUME OneSubscriptionOnly, Inv, ChainInv, NEW r \in Runs,
           CreateSubscription(r) \/ UpdateSubscription(r)
    PROVE  ChainInv'
<1>1. /\ cursor[r] \in DOMAIN Subscriptions /\ AfterUpsert(r, cursor[r])
      /\ cursor[r] + 1 \notin DOMAIN Subscriptions
      /\ WillConnect(r)
  <2>1. cursor[r] \in DOMAIN Subscriptions /\ stage[r] \in {"create", "update"}
    BY DEF CreateSubscription, UpdateSubscription, Inv, RunInv, RunTypes
  <2>2. cursor[r] = 1
    BY <2>1, OneSub
  <2> QED  BY <2>1, <2>2, OneSub DEF CreateSubscription, UpdateSubscription, WillConnect, Asserting
<1>2. \A k : ~AsksProjection(r, k)
  BY NoProjection DEF OneSubscriptionOnly
<1>3. CASE SubscribesAll /\ Ends(r)
  BY <1>1, <1>3, ChainEnds
<1>4. CASE config.onError # Subs /\ Fails(r) /\ Throws
  <2>1. leaked' = leaked
    BY <1>4, NothingLeftByThrow DEF Inv, StreamInv, StreamTypes, Throws
  <2>2. connection' = "down" /\ UNCHANGED config
    BY <1>4 DEF Fails, ReportDown
  <2> QED  BY <1>1, <1>4, <2>1, <2>2, ChainGoesOn DEF Throws
<1> QED  BY <1>1, <1>2, <1>3, <1>4, UpsertOutcome

LEMMA ChainStarts ==
    ASSUME OneSubscriptionOnly, Inv, ChainInv, NEW r \in Runs,
           OnModuleInit(r) \/ TimerFires(r)
    PROVE  ChainInv'
<1> SUFFICES ASSUME config.hook PROVE ChainInv'
  BY DEF OnModuleInit, TimerFires, Connects, GoesOnWithProjections, Begins, Connected,
         ReportUp, life, ChainInv
<1>1. Connects(r) /\ UNCHANGED streams /\ Subs # {}
  BY OneSub DEF OnModuleInit, TimerFires
<1>2. Asks(r, "create", 1)
  BY <1>1, ConnectsOutcome
<1>3. /\ stage'[r] = "create"
      /\ \A q \in Runs : q # r => stage'[q] = stage[q]
  BY <1>2, GotoMoves DEF Asks, Inv, RunInv, Stages, Asserting
<1>4. \A q \in Runs : q # r => ~WillConnect(q)
  BY DEF OnModuleInit, TimerFires, WillConnect, Asserting, ChainInv
<1>5. \A s \in Subs : instance[s] # "live"
  BY DEF OnModuleInit, TimerFires, WillConnect, ChainInv
<1> QED  BY <1>1, <1>2, <1>3, <1>4, <1>5 DEF ChainInv, WillConnect, Asks, streams

LEMMA ChainError ==
    ASSUME OneSubscriptionOnly, Inv, ChainInv, NEW s \in Subs,
           SubscriptionError(s) \/ LeakedSubscriptionError(s)
    PROVE  ChainInv'
<1> SUFFICES ASSUME config.hook PROVE ChainInv'
  BY DEF SubscriptionError, LeakedSubscriptionError, OnSubscriptionError, life, ChainInv
<1>1. SubscriptionError(s) /\ ~LeakedSubscriptionError(s)
  BY DEF ChainInv, LeakedSubscriptionError
<1>2. /\ instance[s] = "live" /\ UNCHANGED <<leaked, connection, connectionRetryFallback>>
      /\ \A t \in Subs : instance'[t] # "live"
  BY <1>1, OneSub DEF SubscriptionError, OnSubscriptionError, Inv, StreamInv, StreamTypes
<1>3. \A q \in Runs : ~WillConnect(q)
  BY <1>2 DEF ChainInv
<1>4. CASE UNCHANGED <<stage, cursor>>
  BY <1>2, <1>3, <1>4 DEF ChainInv, WillConnect
<1>5. ASSUME NEW r \in Runs, Goto(r, "create", 1) PROVE ChainInv'
  <2>1. /\ stage'[r] = "create"
        /\ \A q \in Runs : q # r => stage'[q] = stage[q]
    BY <1>5, GotoMoves DEF Inv, RunInv, Stages, Asserting
  <2> QED  BY <1>2, <1>3, <2>1 DEF ChainInv, WillConnect
<1> QED  BY <1>1, <1>4, <1>5 DEF SubscriptionError, OnSubscriptionError

LEMMA ChainStep ==
    OneSubscriptionOnly /\ Inv /\ ChainInv /\ [Next]_vars => ChainInv'
<1> SUFFICES ASSUME OneSubscriptionOnly, Inv, ChainInv, [Next]_vars PROVE ChainInv'
  OBVIOUS
<1>1. ASSUME NEW r \in Runs, SubscriptionExists(r) \/ SubscriptionFails(r) PROVE ChainInv'
  <2>1. WillConnect(r) /\ UNCHANGED <<instance, leaked>> /\ cursor[r] \in Nat
    BY <1>1 DEF SubscriptionExists, SubscriptionFails, WillConnect, Asserting, streams,
                Inv, RunInv, RunTypes
  <2>2. CASE Fails(r)
    <3>1. connection' = "down" /\ UNCHANGED config
      BY <2>2 DEF Fails, ReportDown
    <3> QED  BY <2>1, <2>2, <3>1, ChainGoesOn
  <2>3. CASE Begins(r, "update", cursor[r])
    <3>1. Goto(r, "update", cursor[r]) /\ UNCHANGED <<connectionRetryFallback, connection, config>>
      BY <2>3 DEF Begins, life
    <3> QED  BY <2>1, <3>1, ChainGoesOn DEF Asserting
  <2> QED  BY <1>1, <2>2, <2>3 DEF SubscriptionExists, SubscriptionFails
<1>2. ASSUME NEW r \in Runs,
             \/ CreateProjection(r) \/ ProjectionExists(r)
             \/ UpdateProjection(r) \/ ProjectionFails(r)
      PROVE  FALSE
  BY <1>2, NoProjection DEF OneSubscriptionOnly, CreateProjection, ProjectionExists,
                            UpdateProjection, ProjectionFails
<1>3. ASSUME /\ \A q \in Runs : stage'[q] = stage[q] \/ stage'[q] \in {"idle", "metadatas"}
             /\ UNCHANGED <<connectionRetryFallback, streams, config>>
             /\ connection' \in {connection, "down"}
      PROVE  ChainInv'
  BY <1>3 DEF ChainInv, WillConnect, Asserting, streams
<1>4. ASSUME NEW r \in Runs, EventsDrained(r) \/ MetadatasDrained(r) PROVE ChainInv'
  <2>1. \A q \in Runs : stage'[q] = stage[q] \/ stage'[q] \in {"idle", "metadatas"}
    BY <1>4 DEF EventsDrained, MetadatasDrained, Goto, Inv, RunInv, RunTypes
  <2> QED  BY <1>3, <1>4, <2>1 DEF EventsDrained, MetadatasDrained, status, life
<1>5. CASE LineStep
  <2>1. CASE ~config.hook /\ UNCHANGED config
    BY <2>1 DEF ChainInv
  <2> QED  BY <1>3, <1>5, <2>1, LineOutcome
<1>6. CASE OnModuleDestroy
  <2>1. \A q \in Runs : stage'[q] = stage[q] \/ stage'[q] \in {"idle", "metadatas"}
    BY <1>6 DEF OnModuleDestroy
  <2> QED  BY <1>3, <1>6, <2>1 DEF OnModuleDestroy, status
<1>7. CASE StoreGoesDownOrUp \/ UNCHANGED vars
  BY <1>3, <1>7 DEF StoreGoesDownOrUp, vars, serviceVars, streams, life
<1> QED
  BY <1>1, <1>2, <1>4, <1>5, <1>6, <1>7, ChainUpsert, ChainStarts, ChainError
     DEF Next, RunStep, LineStep

(* With one subscription and onConnectionFail configured, connect() has    *)
(* one run at a time before its drains, whatever overlaps these, leaves no *)
(* stream behind, and its timer is the one that onModuleDestroy clears.    *)
THEOREM OneChain == OneSubscriptionOnly /\ Spec => []SingleChain
<1> SUFFICES ASSUME OneSubscriptionOnly PROVE Spec => []SingleChain
  OBVIOUS
<1>1. Init => ChainInv
  BY DEF Init, ChainInv, WillConnect, Asserting
<1>2. Inv /\ ChainInv /\ [Next]_vars => ChainInv'
  BY ChainStep
<1>3. ChainInv => SingleChain
  BY DEF ChainInv, SingleChain
<1> QED  BY <1>1, <1>2, <1>3, InvAlways, PTL DEF Spec
-----------------------------------------------------------------------------
(* The two lines. *)

EventPhases == eventPhase \in [Ev!Drainers -> Ev!Phases]
MetadataPhases == metadataPhase \in [Md!Drainers -> Md!Phases]

(* Every loop ends with a request under way, or with the line empty and    *)
(* the flag lowered.                                                       *)
LEMMA EventsIterate ==
    ASSUME EventPhases, NEW d \in Ev!Drainers, NEW fifo, NEW result, NEW raised,
           Ev!Iterate(d, fifo, result, raised)
    PROVE  EventPhases' /\ ~Ev!Stalled'
<1>1. CASE Ev!Send(d, Head(fifo), raised)
  <2>1. EventPhases' /\ eventPhase'[d] = "sent"
    BY <1>1 DEF Ev!Send, EventPhases, Ev!Phases
  <2> QED  BY <2>1 DEF Ev!Stalled, Ev!Active
<1>2. CASE fifo = <<>> /\ Ev!Leave(d)
  BY <1>2 DEF Ev!Iterate, Ev!Leave, EventPhases, Ev!Phases, Ev!Stalled
<1> QED  BY <1>1, <1>2 DEF Ev!Iterate

LEMMA MetadatasIterate ==
    ASSUME MetadataPhases, NEW d \in Md!Drainers, NEW fifo, NEW result, NEW raised,
           Md!Iterate(d, fifo, result, raised)
    PROVE  MetadataPhases' /\ ~Md!Stalled'
<1>1. CASE Md!Send(d, Head(fifo), raised)
  <2>1. MetadataPhases' /\ metadataPhase'[d] = "sent"
    BY <1>1 DEF Md!Send, MetadataPhases, Md!Phases
  <2> QED  BY <2>1 DEF Md!Stalled, Md!Active
<1>2. CASE fifo = <<>> /\ Md!Leave(d)
  BY <1>2 DEF Md!Iterate, Md!Leave, MetadataPhases, Md!Phases, Md!Stalled
<1> QED  BY <1>1, <1>2 DEF Md!Iterate

(* What a step of the event line does to its stall. *)
EventLineStep ==
    \/ \E i \in EventItems : Ev!Stack(i) \/ Ev!StackAndDrain(i) \/ Ev!StoreApplies(i)
    \/ \E d \in Ev!Drainers : Ev!Drain(d) \/ Ev!Resolve(d) \/ Ev!Continue(d) \/ Ev!Reject(d)

LEMMA EventLineOutcome ==
    ASSUME EventPhases, EventLineStep
    PROVE  EventPhases' /\ (Ev!Stalled' => Ev!Stalled \/ connection' = "down")
<1>1. ASSUME NEW i \in EventItems, Ev!Stack(i)
      PROVE  EventPhases' /\ (Ev!Stalled' => Ev!Stalled)
  <2>1. i \in Ev!Drainers /\ isTryingToWriteEvents
    BY <1>1 DEF Ev!Drainers, Ev!Stack
  <2>2. EventPhases' /\ \A d \in Ev!Drainers : Ev!Active(d) => Ev!Active(d)'
    BY <1>1, <2>1 DEF Ev!Stack, EventPhases, Ev!Phases, Ev!Active
  <2> QED  BY <2>1, <2>2 DEF Ev!Stalled
<1>2. ASSUME NEW i \in EventItems, Ev!StackAndDrain(i)
      PROVE  EventPhases' /\ ~Ev!Stalled'
  <2>1. i \in Ev!Drainers
    BY DEF Ev!Drainers
  <2> QED  BY <1>2, <2>1, EventsIterate DEF Ev!StackAndDrain
<1>3. ASSUME NEW i \in EventItems, Ev!StoreApplies(i)
      PROVE  EventPhases' /\ (Ev!Stalled' => Ev!Stalled)
  BY <1>3 DEF Ev!StoreApplies, EventPhases, Ev!Stalled, Ev!Active
<1>4. ASSUME NEW d \in Ev!Drainers, Ev!Drain(d) \/ Ev!Continue(d)
      PROVE  EventPhases' /\ ~Ev!Stalled'
  BY <1>4, EventsIterate DEF Ev!Drain, Ev!Continue
<1>5. ASSUME NEW d \in Ev!Drainers, Ev!Resolve(d)
      PROVE  EventPhases' /\ ~Ev!Stalled'
  <2>1. EventPhases' /\ eventPhase'[d] = "shifted"
    BY <1>5 DEF Ev!Resolve, EventPhases, Ev!Phases
  <2> QED  BY <2>1 DEF Ev!Stalled, Ev!Active
<1>6. ASSUME NEW d \in Ev!Drainers, Ev!Reject(d)
      PROVE  EventPhases' /\ connection' = "down"
  BY <1>6 DEF Ev!Reject, EventPhases, Ev!Phases
<1> QED  BY <1>1, <1>2, <1>3, <1>4, <1>5, <1>6 DEF EventLineStep

MetadataLineStep ==
    \/ \E i \in MetadataItems : Md!Stack(i) \/ Md!StackAndDrain(i) \/ Md!StoreApplies(i)
    \/ \E d \in Md!Drainers : Md!Drain(d) \/ Md!Resolve(d) \/ Md!Continue(d) \/ Md!Reject(d)

LEMMA MetadataLineOutcome ==
    ASSUME MetadataPhases, MetadataLineStep
    PROVE  MetadataPhases' /\ (Md!Stalled' => Md!Stalled \/ connection' = "down")
<1>1. ASSUME NEW i \in MetadataItems, Md!Stack(i)
      PROVE  MetadataPhases' /\ (Md!Stalled' => Md!Stalled)
  <2>1. i \in Md!Drainers /\ isTryingToWriteMetadatas
    BY <1>1 DEF Md!Drainers, Md!Stack
  <2>2. MetadataPhases' /\ \A d \in Md!Drainers : Md!Active(d) => Md!Active(d)'
    BY <1>1, <2>1 DEF Md!Stack, MetadataPhases, Md!Phases, Md!Active
  <2> QED  BY <2>1, <2>2 DEF Md!Stalled
<1>2. ASSUME NEW i \in MetadataItems, Md!StackAndDrain(i)
      PROVE  MetadataPhases' /\ ~Md!Stalled'
  <2>1. i \in Md!Drainers
    BY DEF Md!Drainers
  <2> QED  BY <1>2, <2>1, MetadatasIterate DEF Md!StackAndDrain
<1>3. ASSUME NEW i \in MetadataItems, Md!StoreApplies(i)
      PROVE  MetadataPhases' /\ (Md!Stalled' => Md!Stalled)
  BY <1>3 DEF Md!StoreApplies, MetadataPhases, Md!Stalled, Md!Active
<1>4. ASSUME NEW d \in Md!Drainers, Md!Drain(d) \/ Md!Continue(d) \/ Md!Resolve(d)
      PROVE  MetadataPhases' /\ ~Md!Stalled'
  BY <1>4, MetadatasIterate DEF Md!Drain, Md!Continue, Md!Resolve
<1>5. ASSUME NEW d \in Md!Drainers, Md!Reject(d)
      PROVE  MetadataPhases' /\ connection' = "down"
  BY <1>5 DEF Md!Reject, MetadataPhases, Md!Phases
<1> QED  BY <1>1, <1>2, <1>3, <1>4, <1>5 DEF MetadataLineStep

(* A run on its way through connect() touches the lines only by draining   *)
(* the events when it is through.                                          *)
ConnectStep(r) ==
    \/ OnModuleInit(r) \/ TimerFires(r)
    \/ CreateSubscription(r) \/ SubscriptionExists(r)
    \/ UpdateSubscription(r) \/ SubscriptionFails(r)
    \/ CreateProjection(r) \/ ProjectionExists(r)
    \/ UpdateProjection(r) \/ ProjectionFails(r)

LEMMA ConnectOnLines ==
    ASSUME RunTypes, NEW r \in Runs, ConnectStep(r)
    PROVE  /\ UNCHANGED metadataLine
           /\ \/ Ev!Drain(r) /\ stage'[r] = "events"
              \/ UNCHANGED eventLine /\ connection' = "down"
              \/ /\ UNCHANGED <<eventLine, connection>>
                 /\ \A q \in Runs : stage[q] = "events" => stage'[q] = "events"
<1>1. UNCHANGED metadataLine /\ stage[r] # "events"
  BY DEF ConnectStep, OnModuleInit, TimerFires, CreateSubscription, SubscriptionExists,
         UpdateSubscription, SubscriptionFails, CreateProjection, ProjectionExists,
         UpdateProjection, ProjectionFails
<1>2. \/ Connected(r)
      \/ Fails(r) /\ UNCHANGED eventLine
      \/ \E st \in Asserting : \E k : Begins(r, st, k)
  <2>1. \A k : GoesOnWithProjections(r, k) =>
            Connected(r) \/ \E st \in Asserting : Begins(r, st, k)
    BY DEF GoesOnWithProjections, Asserting
  <2>2. \A k : AfterUpsert(r, k) =>
            \/ Connected(r)
            \/ Fails(r) /\ UNCHANGED eventLine
            \/ \E st \in Asserting : \E j : Begins(r, st, j)
    BY <2>1 DEF AfterUpsert, Asserting
  <2>3. CASE OnModuleInit(r) \/ TimerFires(r)
    BY <2>1, <2>3 DEF OnModuleInit, TimerFires, Connects, Asserting
  <2>4. CASE CreateSubscription(r) \/ UpdateSubscription(r)
    BY <2>2, <2>4 DEF CreateSubscription, UpdateSubscription
  <2>5. CASE SubscriptionExists(r) \/ SubscriptionFails(r)
    BY <2>5 DEF SubscriptionExists, SubscriptionFails, Asserting
  <2>6. CASE \/ CreateProjection(r) \/ ProjectionExists(r)
             \/ UpdateProjection(r) \/ ProjectionFails(r)
    BY <2>1, <2>6 DEF CreateProjection, ProjectionExists, UpdateProjection, ProjectionFails,
                      Asserting
  <2> QED  BY <2>3, <2>4, <2>5, <2>6 DEF ConnectStep
<1>3. CASE Connected(r)
  BY <1>1, <1>3 DEF Connected, Goto, RunTypes
<1>4. CASE Fails(r) /\ UNCHANGED eventLine
  BY <1>1, <1>4 DEF Fails, ReportDown
<1>5. ASSUME NEW st, NEW k, Begins(r, st, k)
      PROVE  /\ UNCHANGED <<eventLine, connection>>
             /\ \A q \in Runs : stage[q] = "events" => stage'[q] = "events"
  BY <1>1, <1>5 DEF Begins, Goto, RunTypes
<1> QED  BY <1>1, <1>2, <1>3, <1>4, <1>5

LinesInv == EventPhases /\ MetadataPhases /\ EventStallReported /\ MetadataStallReported

(* A step that leaves a line alone leaves its stall as it is. *)
LEMMA EventLineStays ==
    ASSUME EventPhases, EventStallReported, UNCHANGED eventLine,
           connection' \in {connection, "down"}
    PROVE  EventPhases' /\ EventStallReported'
BY DEF EventPhases, EventStallReported, Ev!StallReported, Ev!Stalled, Ev!Active, eventLine

LEMMA MetadataLineStays ==
    ASSUME MetadataPhases, MetadataStallReported, UNCHANGED metadataLine,
           \/ connection' = "down"
           \/ \E r \in Runs : stage'[r] = "events"
           \/ /\ UNCHANGED connection
              /\ \A r \in Runs : stage[r] = "events" => stage'[r] = "events"
    PROVE  MetadataPhases' /\ MetadataStallReported'
BY DEF MetadataPhases, MetadataStallReported, Md!Stalled, Md!Active, metadataLine

LEMMA EventLineMoves ==
    ASSUME EventPhases, EventStallReported, EventLineStep,
           connection' \in {connection, "down"}
    PROVE  EventPhases' /\ EventStallReported'
BY EventLineOutcome DEF EventStallReported, Ev!StallReported

LEMMA MetadataLineMoves ==
    ASSUME MetadataPhases, MetadataStallReported, MetadataLineStep,
           connection' \in {connection, "down"}, UNCHANGED stage \/ connection' = "down"
    PROVE  MetadataPhases' /\ MetadataStallReported'
BY MetadataLineOutcome DEF MetadataStallReported

LEMMA LinesStep == Inv /\ LinesInv /\ [Next]_vars => LinesInv'
<1> SUFFICES ASSUME Inv, LinesInv, [Next]_vars PROVE LinesInv'
  OBVIOUS
<1> USE DEF LinesInv
<1>1. ASSUME NEW r \in Runs, ConnectStep(r) PROVE LinesInv'
  <2>1. CASE Ev!Drain(r) /\ stage'[r] = "events" /\ UNCHANGED metadataLine
    <3>1. EventPhases' /\ EventStallReported'
      BY <2>1, EventsIterate DEF Ev!Drain, Ev!Drainers, EventStallReported, Ev!StallReported
    <3> QED  BY <2>1, <3>1, MetadataLineStays
  <2> QED
    BY <1>1, <2>1, ConnectOnLines, EventLineStays, MetadataLineStays DEF Inv, RunInv
<1>2. ASSUME NEW r \in Runs, EventsDrained(r) PROVE LinesInv'
  <2>1. MetadataPhases' /\ ~Md!Stalled'
    BY <1>2, MetadatasIterate DEF EventsDrained, Md!Drain, Md!Drainers
  <2> QED
    BY <1>2, <2>1, EventLineStays DEF EventsDrained, status, MetadataStallReported
<1>3. ASSUME NEW r \in Runs, MetadatasDrained(r) PROVE LinesInv'
  <2>1. \A q \in Runs : stage[q] = "events" => stage'[q] = "events"
    BY <1>3 DEF MetadatasDrained, Goto, Inv, RunInv, RunTypes
  <2> QED
    BY <1>3, <2>1, EventLineStays, MetadataLineStays DEF MetadatasDrained, status
<1>4. ASSUME NEW s \in Subs, SubscriptionError(s) \/ LeakedSubscriptionError(s) PROVE LinesInv'
  <2>1. UNCHANGED <<connection, eventLine, metadataLine>>
    BY <1>4 DEF SubscriptionError, LeakedSubscriptionError, OnSubscriptionError
  <2>2. \A q \in Runs : stage[q] = "events" => stage'[q] = "events"
    BY <1>4 DEF SubscriptionError, LeakedSubscriptionError, OnSubscriptionError, Goto,
                Inv, RunInv, RunTypes
  <2> QED  BY <2>1, <2>2, EventLineStays, MetadataLineStays
<1>5. ASSUME NEW i \in EventItems, WriteEvents(i) \/ StoreAppliesEvents(i) PROVE LinesInv'
  <2>1. EventLineStep
    BY <1>5 DEF WriteEvents, StoreAppliesEvents, EventLineStep
  <2>2. UNCHANGED <<connection, stage, metadataLine>>
    BY <1>5 DEF WriteEvents, StoreAppliesEvents, Ev!Stack, Ev!StackAndDrain, Ev!StoreApplies,
                serviceVars
  <2> QED  BY <2>1, <2>2, EventLineMoves, MetadataLineStays
<1>6. ASSUME NEW i \in MetadataItems, WriteMetadata(i) \/ StoreAppliesMetadata(i)
      PROVE  LinesInv'
  <2>1. MetadataLineStep
    BY <1>6 DEF WriteMetadata, StoreAppliesMetadata, MetadataLineStep
  <2>2. UNCHANGED <<connection, stage, eventLine>>
    BY <1>6 DEF WriteMetadata, StoreAppliesMetadata, Md!Stack, Md!StackAndDrain,
                Md!StoreApplies, serviceVars
  <2> QED  BY <2>1, <2>2, MetadataLineMoves, EventLineStays
<1>7. ASSUME NEW d \in Runs \cup EventItems, EventsStep(d) PROVE LinesInv'
  <2>1. d \in Ev!Drainers
    BY DEF Ev!Drainers
  <2>2. EventLineStep
    BY <1>7, <2>1 DEF EventsStep, EventsAnswered, EventsRejected, EventLineStep
  <2>3. /\ UNCHANGED metadataLine
        /\ UNCHANGED <<connection, stage>> \/ connection' = "down"
    BY <1>7 DEF EventsStep, EventsAnswered, EventsRejected, Ev!Resolve, Ev!Continue, Ev!Reject,
                serviceVars
  <2> QED  BY <2>2, <2>3, EventLineMoves, MetadataLineStays
<1>8. ASSUME NEW d \in Runs \cup MetadataItems, MetadatasStep(d) PROVE LinesInv'
  <2>1. d \in Md!Drainers
    BY DEF Md!Drainers
  <2>2. MetadataLineStep
    BY <1>8, <2>1 DEF MetadatasStep, MetadatasAnswered, MetadatasRejected, MetadataLineStep
  <2>3. /\ UNCHANGED eventLine
        /\ UNCHANGED <<connection, stage>> \/ connection' = "down"
    BY <1>8 DEF MetadatasStep, MetadatasAnswered, MetadatasRejected, Md!Resolve, Md!Continue,
                Md!Reject, serviceVars
  <2> QED  BY <2>2, <2>3, MetadataLineMoves, EventLineStays
<1>9. CASE StoreGoesDownOrUp \/ OnModuleDestroy \/ UNCHANGED vars
  <2>1. UNCHANGED <<connection, eventLine, metadataLine>>
    BY <1>9 DEF StoreGoesDownOrUp, OnModuleDestroy, vars, status
  <2>2. \A q \in Runs : stage[q] = "events" => stage'[q] = "events"
    BY <1>9 DEF StoreGoesDownOrUp, OnModuleDestroy, vars, serviceVars
  <2> QED  BY <2>1, <2>2, EventLineStays, MetadataLineStays
<1> QED
  BY <1>1, <1>2, <1>3, <1>4, <1>5, <1>6, <1>7, <1>8, <1>9 DEF Next, RunStep, ConnectStep

LEMMA LinesAlways == Spec => []LinesInv
<1>1. Init => LinesInv
  BY DEF Init, Ev!LineInit, Md!LineInit, LinesInv, EventPhases, MetadataPhases,
         Ev!Phases, Md!Phases, EventStallReported, Ev!StallReported, Ev!Stalled,
         MetadataStallReported, Md!Stalled
<1> QED  BY <1>1, LinesStep, InvAlways, PTL DEF Spec

(* In the service, with its runs of connect(), its stream errors and its   *)
(* other line reporting to the same status, event batches that wait for    *)
(* nobody are reported.                                                    *)
THEOREM EventStallIsReported == Spec => []EventStallReported
<1>1. LinesInv => EventStallReported
  BY DEF LinesInv
<1> QED  BY <1>1, LinesAlways, PTL

(* So is metadata that waits for nobody, unless a run of connect() will    *)
(* drain it after the events.                                              *)
THEOREM MetadataStallIsReported == Spec => []MetadataStallReported
<1>1. LinesInv => MetadataStallReported
  BY DEF LinesInv
<1> QED  BY <1>1, LinesAlways, PTL
-----------------------------------------------------------------------------
(* What the lines keep of their promise in the service: the invariants of  *)
(* WaitingLineProofs.tla, under all that connect() does to the lines.      *)

EvP == INSTANCE WaitingLineProofs WITH
    Items <- EventItems, YieldsAfterShift <- TRUE,
    fifo <- eventBatchesFifo, isTrying <- isTryingToWriteEvents,
    phase <- eventPhase, current <- eventCurrent, result <- eventResult,
    sent <- eventsSent, stored <- eventsStored, accepted <- eventsAccepted

MdP == INSTANCE WaitingLineProofs WITH
    Items <- MetadataItems, YieldsAfterShift <- FALSE,
    fifo <- metadatasFifo, isTrying <- isTryingToWriteMetadatas,
    phase <- metadataPhase, current <- metadataCurrent, result <- metadataResult,
    sent <- metadatasSent, stored <- metadatasStored, accepted <- metadatasAccepted

LEMMA LineAssumptions == EvP!LineAssumption /\ MdP!LineAssumption
BY ServiceAssumption DEF EvP!LineAssumption, MdP!LineAssumption

LEMMA SameDrainers ==
    /\ Ev!Drainers = Runs \cup EventItems /\ EvP!Drainers = Runs \cup EventItems
    /\ Md!Drainers = Runs \cup MetadataItems /\ MdP!Drainers = Runs \cup MetadataItems
BY DEF Ev!Drainers, EvP!Drainers, Md!Drainers, MdP!Drainers

LEMMA SameEventActions ==
    ASSUME NEW d
    PROVE  /\ Ev!Stack(d) \/ Ev!StackAndDrain(d) => EvP!Stack(d) \/ EvP!StackAndDrain(d)
           /\ Ev!StoreApplies(d) => EvP!StoreApplies(d)
           /\ Ev!Resolve(d) => EvP!Resolve(d)
           /\ Ev!Continue(d) => EvP!Continue(d)
           /\ Ev!Reject(d) => EvP!Reject(d)
           /\ Ev!Drain(d) <=> EvP!Drain(d)
BY DEF Ev!Stack, Ev!StackAndDrain, Ev!StoreApplies, Ev!Resolve, Ev!Continue, Ev!Reject,
       Ev!Drain, Ev!Active, Ev!Iterate, Ev!Send, Ev!Leave, Ev!Shift, Ev!ToSet,
       EvP!Stack, EvP!StackAndDrain, EvP!StoreApplies, EvP!Resolve, EvP!Continue, EvP!Reject,
       EvP!Drain, EvP!Active, EvP!Iterate, EvP!Send, EvP!Leave, EvP!Shift, EvP!ToSet

LEMMA SameMetadataActions ==
    ASSUME NEW d
    PROVE  /\ Md!Stack(d) \/ Md!StackAndDrain(d) => MdP!Stack(d) \/ MdP!StackAndDrain(d)
           /\ Md!StoreApplies(d) => MdP!StoreApplies(d)
           /\ Md!Resolve(d) => MdP!Resolve(d)
           /\ Md!Continue(d) => MdP!Continue(d)
           /\ Md!Reject(d) => MdP!Reject(d)
           /\ Md!Drain(d) <=> MdP!Drain(d)
BY DEF Md!Stack, Md!StackAndDrain, Md!StoreApplies, Md!Resolve, Md!Continue, Md!Reject,
       Md!Drain, Md!Active, Md!Iterate, Md!Send, Md!Leave, Md!Shift, Md!ToSet,
       MdP!Stack, MdP!StackAndDrain, MdP!StoreApplies, MdP!Resolve, MdP!Continue, MdP!Reject,
       MdP!Drain, MdP!Active, MdP!Iterate, MdP!Send, MdP!Leave, MdP!Shift, MdP!ToSet

(* A step of the service is one of each line, but for the status.          *)
LEMMA StepsOfEventLine ==
    ASSUME RunTypes, [Next]_vars
    PROVE  EvP!LineStep
<1>1. ASSUME UNCHANGED eventLine PROVE EvP!LineStep
  BY <1>1 DEF eventLine, EvP!LineStep, EvP!CallStep, EvP!lineVars
<1>2. ASSUME NEW r \in Runs, ConnectStep(r) PROVE EvP!LineStep
  BY <1>1, <1>2, ConnectOnLines, SameEventActions DEF EvP!LineStep
<1>3. ASSUME NEW r \in Runs, EventsDrained(r) \/ MetadatasDrained(r) PROVE EvP!LineStep
  BY <1>1, <1>3 DEF EventsDrained, MetadatasDrained
<1>4. ASSUME NEW s \in Subs, SubscriptionError(s) \/ LeakedSubscriptionError(s)
      PROVE  EvP!LineStep
  BY <1>1, <1>4 DEF SubscriptionError, LeakedSubscriptionError, OnSubscriptionError
<1>5. ASSUME NEW i \in EventItems, WriteEvents(i) \/ StoreAppliesEvents(i) PROVE EvP!LineStep
  BY <1>5, SameEventActions DEF WriteEvents, StoreAppliesEvents, EvP!LineStep, EvP!CallStep
<1>6. ASSUME NEW d \in Runs \cup EventItems, EventsStep(d) PROVE EvP!LineStep
  BY <1>6, SameEventActions, SameDrainers
  DEF EventsStep, EventsAnswered, EventsRejected, EvP!LineStep, EvP!CallStep
<1>7. ASSUME NEW i \in MetadataItems, WriteMetadata(i) \/ StoreAppliesMetadata(i)
      PROVE  EvP!LineStep
  BY <1>1, <1>7 DEF WriteMetadata, StoreAppliesMetadata
<1>8. ASSUME NEW d \in Runs \cup MetadataItems, MetadatasStep(d) PROVE EvP!LineStep
  BY <1>1, <1>8 DEF MetadatasStep, MetadatasAnswered, MetadatasRejected
<1>9. CASE StoreGoesDownOrUp \/ OnModuleDestroy \/ UNCHANGED vars
  BY <1>1, <1>9 DEF StoreGoesDownOrUp, OnModuleDestroy, vars
<1> QED
  BY <1>2, <1>3, <1>4, <1>5, <1>6, <1>7, <1>8, <1>9 DEF Next, RunStep, ConnectStep

LEMMA StepsOfMetadataLine ==
    ASSUME RunTypes, [Next]_vars
    PROVE  MdP!LineStep
<1>1. ASSUME UNCHANGED metadataLine PROVE MdP!LineStep
  BY <1>1 DEF metadataLine, MdP!LineStep, MdP!CallStep, MdP!lineVars
<1>2. ASSUME NEW r \in Runs, ConnectStep(r) \/ MetadatasDrained(r) PROVE MdP!LineStep
  BY <1>1, <1>2, ConnectOnLines DEF MetadatasDrained
<1>3. ASSUME NEW r \in Runs, EventsDrained(r) PROVE MdP!LineStep
  BY <1>3, SameMetadataActions DEF EventsDrained, MdP!LineStep
<1>4. ASSUME NEW s \in Subs, SubscriptionError(s) \/ LeakedSubscriptionError(s)
      PROVE  MdP!LineStep
  BY <1>1, <1>4 DEF SubscriptionError, LeakedSubscriptionError, OnSubscriptionError
<1>5. ASSUME NEW i \in EventItems, WriteEvents(i) \/ StoreAppliesEvents(i) PROVE MdP!LineStep
  BY <1>1, <1>5 DEF WriteEvents, StoreAppliesEvents
<1>6. ASSUME NEW d \in Runs \cup EventItems, EventsStep(d) PROVE MdP!LineStep
  BY <1>1, <1>6 DEF EventsStep, EventsAnswered, EventsRejected
<1>7. ASSUME NEW i \in MetadataItems, WriteMetadata(i) \/ StoreAppliesMetadata(i)
      PROVE  MdP!LineStep
  BY <1>7, SameMetadataActions
  DEF WriteMetadata, StoreAppliesMetadata, MdP!LineStep, MdP!CallStep
<1>8. ASSUME NEW d \in Runs \cup MetadataItems, MetadatasStep(d) PROVE MdP!LineStep
  BY <1>8, SameMetadataActions, SameDrainers
  DEF MetadatasStep, MetadatasAnswered, MetadatasRejected, MdP!LineStep, MdP!CallStep
<1>9. CASE StoreGoesDownOrUp \/ OnModuleDestroy \/ UNCHANGED vars
  BY <1>1, <1>9 DEF StoreGoesDownOrUp, OnModuleDestroy, vars
<1> QED
  BY <1>2, <1>3, <1>4, <1>5, <1>6, <1>7, <1>8, <1>9 DEF Next, RunStep, ConnectStep

EventsLone == EvP!LineTypeOK /\ EvP!LoneInv
MetadatasLone == MdP!LineTypeOK /\ MdP!LoneInv

LEMMA LinesStart ==
    Init => /\ EvP!LineTypeOK /\ EvP!WriteOnlyInv
            /\ MdP!LineTypeOK /\ MdP!WriteOnlyInv
<1> SUFFICES ASSUME Init
             PROVE  EvP!LineInit /\ MdP!LineInit
  BY LineAssumptions, EvP!LineTypeInit, EvP!WriteOnlyInit, MdP!LineTypeInit, MdP!WriteOnlyInit
<1> QED
  BY SameDrainers DEF Init, Ev!LineInit, Md!LineInit, EvP!LineInit, MdP!LineInit

LEMMA EventsAlone == Spec /\ []Ev!AtMostOneDrain => []EventsLone
<1>1. Ev!AtMostOneDrain => EvP!AtMostOneDrain
  BY SameDrainers DEF Ev!AtMostOneDrain, EvP!AtMostOneDrain, Ev!Active, EvP!Active
<1>2. Init => EventsLone
  BY LinesStart DEF EventsLone, EvP!WriteOnlyInv
<1>3. Inv /\ EventsLone /\ [Next]_vars /\ EvP!AtMostOneDrain' => EventsLone'
  BY LineAssumptions, StepsOfEventLine, EvP!LineTypeStep, EvP!LoneStep DEF Inv, RunInv, EventsLone
<1> QED  BY <1>1, <1>2, <1>3, InvAlways, PTL DEF Spec

LEMMA EventsAloneKeep ==
    EventsLone => Ev!NothingLost /\ Ev!StoredInOrder /\ Ev!ResultMeansStored
<1> SUFFICES ASSUME EventsLone
             PROVE  Ev!NothingLost /\ Ev!StoredInOrder /\ Ev!ResultMeansStored
  OBVIOUS
<1>1. EvP!NothingLost /\ EvP!StoredInOrder /\ EvP!ResultMeansStored
  BY LineAssumptions, EvP!OrderFromInv, EvP!KeptFromInv, EvP!OwnFromInv DEF EventsLone
<1> QED
  BY <1>1 DEF EvP!NothingLost, EvP!StoredInOrder, EvP!ResultMeansStored, EvP!ToSet, EvP!IsPrefix,
              Ev!NothingLost, Ev!StoredInOrder, Ev!ResultMeansStored, Ev!ToSet, Ev!IsPrefix

LEMMA EventsAloneRefine ==
    ASSUME Inv, EventsLone, [Next]_vars
    PROVE  [Ev!Promise!Next]_(Ev!Promise!outboxVars)
<1>1. [EvP!Promise!Next]_(EvP!Promise!outboxVars)
  BY LineAssumptions, StepsOfEventLine, EvP!StepRefines DEF Inv, RunInv, EventsLone
<1> QED
  BY <1>1 DEF EvP!Promise!Next, EvP!Promise!Accept, EvP!Promise!Deliver,
              EvP!Promise!outboxVars, EvP!Promise!ToSet,
              Ev!Promise!Next, Ev!Promise!Accept, Ev!Promise!Deliver,
              Ev!Promise!outboxVars, Ev!Promise!ToSet

LEMMA MetadatasAlone == Spec /\ []Md!AtMostOneDrain => []MetadatasLone
<1>1. Md!AtMostOneDrain => MdP!AtMostOneDrain
  BY SameDrainers DEF Md!AtMostOneDrain, MdP!AtMostOneDrain, Md!Active, MdP!Active
<1>2. Init => MetadatasLone
  BY LinesStart DEF MetadatasLone, MdP!WriteOnlyInv
<1>3. Inv /\ MetadatasLone /\ [Next]_vars /\ MdP!AtMostOneDrain' => MetadatasLone'
  BY LineAssumptions, StepsOfMetadataLine, MdP!LineTypeStep, MdP!LoneStep DEF Inv, RunInv, MetadatasLone
<1> QED  BY <1>1, <1>2, <1>3, InvAlways, PTL DEF Spec

LEMMA MetadatasAloneKeep ==
    MetadatasLone => Md!NothingLost /\ Md!StoredInOrder /\ Md!ResultMeansStored
<1> SUFFICES ASSUME MetadatasLone
             PROVE  Md!NothingLost /\ Md!StoredInOrder /\ Md!ResultMeansStored
  OBVIOUS
<1>1. MdP!NothingLost /\ MdP!StoredInOrder /\ MdP!ResultMeansStored
  BY LineAssumptions, MdP!OrderFromInv, MdP!KeptFromInv, MdP!OwnFromInv DEF MetadatasLone
<1> QED
  BY <1>1 DEF MdP!NothingLost, MdP!StoredInOrder, MdP!ResultMeansStored, MdP!ToSet, MdP!IsPrefix,
              Md!NothingLost, Md!StoredInOrder, Md!ResultMeansStored, Md!ToSet, Md!IsPrefix

LEMMA MetadatasAloneRefine ==
    ASSUME Inv, MetadatasLone, [Next]_vars
    PROVE  [Md!Promise!Next]_(Md!Promise!outboxVars)
<1>1. [MdP!Promise!Next]_(MdP!Promise!outboxVars)
  BY LineAssumptions, StepsOfMetadataLine, MdP!StepRefines DEF Inv, RunInv, MetadatasLone
<1> QED
  BY <1>1 DEF MdP!Promise!Next, MdP!Promise!Accept, MdP!Promise!Deliver,
              MdP!Promise!outboxVars, MdP!Promise!ToSet,
              Md!Promise!Next, Md!Promise!Accept, Md!Promise!Deliver,
              Md!Promise!outboxVars, Md!Promise!ToSet

(* In the service, with any number of runs of connect(), retries, stream   *)
(* errors and writes of the other kind: event batches are lost, reordered, *)
(* repeated or falsely confirmed only if two loops drain them at once, as  *)
(* connect() makes possible by draining without a look at the flag.        *)
THEOREM EventsAreSafeAlone ==
    Spec /\ []Ev!AtMostOneDrain =>
        /\ [](Ev!NothingLost /\ Ev!StoredInOrder /\ Ev!ResultMeansStored)
        /\ Ev!OutboxSpec
<1>1. Init => Ev!Promise!Init
  BY DEF Init, Ev!LineInit, Ev!Promise!Init
<1> QED
  BY <1>1, EventsAlone, EventsAloneKeep, EventsAloneRefine, InvAlways, PTL
  DEF Spec, Ev!OutboxSpec, Ev!Promise!Spec

(* The same of metadata. *)
THEOREM MetadataIsSafeAlone ==
    Spec /\ []Md!AtMostOneDrain =>
        /\ [](Md!NothingLost /\ Md!StoredInOrder /\ Md!ResultMeansStored)
        /\ Md!OutboxSpec
<1>1. Init => Md!Promise!Init
  BY DEF Init, Md!LineInit, Md!Promise!Init
<1> QED
  BY <1>1, MetadatasAlone, MetadatasAloneKeep, MetadatasAloneRefine, InvAlways, PTL
  DEF Spec, Md!OutboxSpec, Md!Promise!Spec
(* When two loops overlap: connect() starts to drain a line that a loop is *)
(* at work on.                                                             *)
EventsDrainAlone == \A r \in Runs : Ev!Drain(r) => \A d \in Ev!Drainers : ~Ev!Active(d)

LEMMA EventsDrainAloneStep ==
    ASSUME Inv, EvP!LineTypeOK, EvP!WriteOnlyInv, [Next]_vars, [EventsDrainAlone]_vars
    PROVE  (EvP!LineTypeOK /\ EvP!WriteOnlyInv)'
<1>1. EvP!LineStep /\ EvP!LineTypeOK'
  BY LineAssumptions, StepsOfEventLine, EvP!LineTypeStep DEF Inv, RunInv
<1>2. CASE UNCHANGED vars
  BY <1>1, <1>2, LineAssumptions, EvP!WriteOnlyStep DEF vars, eventLine, EvP!CallStep, EvP!lineVars
<1>3. CASE EventsDrainAlone
  <2>1. EvP!DrainsAlone
    BY <1>3, SameDrainers, SameEventActions DEF EventsDrainAlone, EvP!DrainsAlone, Ev!Active, EvP!Active
  <2> QED  BY <1>1, <2>1, LineAssumptions, EvP!AloneStep
<1> QED  BY <1>2, <1>3

MetadatasDrainAlone == \A r \in Runs : Md!Drain(r) => \A d \in Md!Drainers : ~Md!Active(d)

LEMMA MetadatasDrainAloneStep ==
    ASSUME Inv, MdP!LineTypeOK, MdP!WriteOnlyInv, [Next]_vars, [MetadatasDrainAlone]_vars
    PROVE  (MdP!LineTypeOK /\ MdP!WriteOnlyInv)'
<1>1. MdP!LineStep /\ MdP!LineTypeOK'
  BY LineAssumptions, StepsOfMetadataLine, MdP!LineTypeStep DEF Inv, RunInv
<1>2. CASE UNCHANGED vars
  BY <1>1, <1>2, LineAssumptions, MdP!WriteOnlyStep DEF vars, metadataLine, MdP!CallStep, MdP!lineVars
<1>3. CASE MetadatasDrainAlone
  <2>1. MdP!DrainsAlone
    BY <1>3, SameDrainers, SameMetadataActions DEF MetadatasDrainAlone, MdP!DrainsAlone, Md!Active, MdP!Active
  <2> QED  BY <1>1, <2>1, LineAssumptions, MdP!AloneStep
<1> QED  BY <1>2, <1>3

(* Among the write calls, and behind a drain that connect() started alone, *)
(* the flag is a lock: whatever requests and runs of connect() fail, loops *)
(* of the events overlap only after connect() started one next to another. *)
THEOREM EventsOverlapNeedsConnect ==
    Spec /\ [][EventsDrainAlone]_vars => []Ev!AtMostOneDrain
<1>1. EvP!WriteOnlyInv => Ev!AtMostOneDrain
  BY SameDrainers DEF EvP!WriteOnlyInv, EvP!LoneInv, EvP!LockInv, EvP!AtMostOneDrain, EvP!Active,
                      Ev!AtMostOneDrain, Ev!Active
<1>2. Inv /\ EvP!LineTypeOK /\ EvP!WriteOnlyInv /\ [Next]_vars /\ [EventsDrainAlone]_vars
          => (EvP!LineTypeOK /\ EvP!WriteOnlyInv)'
  BY EventsDrainAloneStep
<1> QED  BY <1>1, <1>2, LinesStart, InvAlways, PTL DEF Spec

(* The same of metadata. *)
THEOREM MetadataOverlapNeedsConnect ==
    Spec /\ [][MetadatasDrainAlone]_vars => []Md!AtMostOneDrain
<1>1. MdP!WriteOnlyInv => Md!AtMostOneDrain
  BY SameDrainers DEF MdP!WriteOnlyInv, MdP!LoneInv, MdP!LockInv, MdP!AtMostOneDrain, MdP!Active,
                      Md!AtMostOneDrain, Md!Active
<1>2. Inv /\ MdP!LineTypeOK /\ MdP!WriteOnlyInv /\ [Next]_vars /\ [MetadatasDrainAlone]_vars
          => (MdP!LineTypeOK /\ MdP!WriteOnlyInv)'
  BY MetadatasDrainAloneStep
<1> QED  BY <1>1, <1>2, LinesStart, InvAlways, PTL DEF Spec

-----------------------------------------------------------------------------
(* A service without subscriptions.  Nothing makes its connect() fail or    *)
(* start again: it runs once, and finds both lines at rest.                *)

WithoutSubscriptions == Subscriptions = <<>>

ConnectsOnce ==
    /\ \A r \in Runs : stage[r] \notin {"create", "update", "waiting"}
    /\ \A r, q \in Runs : stage[r] # "idle" /\ stage[q] # "idle" => r = q
    /\ connection = "unset" =>
          ~started /\ \A r \in Runs : stage[r] \notin {"events", "metadatas"}
    /\ started => \A r \in Runs : stage[r] = "idle"

EventsAtRest == eventBatchesFifo = <<>> /\ \A d \in EvP!Drainers : ~EvP!Active(d)
MetadatasAtRest == metadatasFifo = <<>> /\ \A d \in MdP!Drainers : ~MdP!Active(d)

EventsByCalls ==
    /\ EvP!LineTypeOK /\ EvP!WriteOnlyInv
    /\ \A r \in Runs : ~EvP!Active(r)
    /\ started \/ EventsAtRest

MetadatasByCalls ==
    /\ MdP!LineTypeOK /\ MdP!WriteOnlyInv
    /\ \A r \in Runs : ~MdP!Active(r)
    /\ started \/ MetadatasAtRest

OnceInv == ConnectsOnce /\ EventsByCalls /\ MetadatasByCalls

LEMMA EventsByCallsKeep ==
    ASSUME EventsByCalls, started => started',
           \/ ~started /\ \E r \in Runs : EvP!Drain(r)
           \/ EvP!CallStep /\ (started \/ UNCHANGED <<eventBatchesFifo, eventPhase>>)
    PROVE  EventsByCalls'
<1>1. ASSUME NEW r \in Runs, EvP!Drain(r), ~started
      PROVE  EventsByCalls'
  <2>1. eventBatchesFifo = <<>> /\ \A d \in EvP!Drainers : ~EvP!Active(d)
    BY <1>1 DEF EventsByCalls, EventsAtRest
  <2>2. EvP!WriteOnlyInv' /\ eventBatchesFifo' = <<>> /\ \A d \in EvP!Drainers : ~EvP!Active(d)'
    BY <1>1, <2>1, LineAssumptions, EvP!DrainAtRest DEF EventsByCalls
  <2>3. EvP!LineTypeOK'
    BY <1>1, LineAssumptions, EvP!LineTypeStep DEF EventsByCalls, EvP!LineStep
  <2> QED  BY <2>2, <2>3, SameDrainers DEF EventsByCalls, EventsAtRest
<1>2. CASE EvP!CallStep /\ (started \/ UNCHANGED <<eventBatchesFifo, eventPhase>>)
  <2>1. EvP!LineTypeOK' /\ EvP!WriteOnlyInv' /\ \A r \in Runs : ~EvP!Active(r)'
    BY <1>2, LineAssumptions, EvP!LineTypeStep, EvP!WriteOnlyStep, EvP!CallsAreOfItems
    DEF EventsByCalls, EvP!LineStep
  <2>2. ~started => EventsAtRest'
    BY <1>2 DEF EventsByCalls, EventsAtRest, EvP!Active
  <2> QED  BY <2>1, <2>2 DEF EventsByCalls
<1> QED  BY <1>1, <1>2

LEMMA EventsByCallsStay ==
    ASSUME EventsByCalls, started => started', UNCHANGED eventLine
    PROVE  EventsByCalls'
<1>1. EvP!CallStep /\ UNCHANGED <<eventBatchesFifo, eventPhase>>
  BY DEF eventLine, EvP!CallStep, EvP!lineVars
<1> QED  BY <1>1, EventsByCallsKeep

LEMMA MetadatasByCallsKeep ==
    ASSUME MetadatasByCalls, started => started',
           \/ ~started /\ \E r \in Runs : MdP!Drain(r)
           \/ MdP!CallStep /\ (started \/ UNCHANGED <<metadatasFifo, metadataPhase>>)
    PROVE  MetadatasByCalls'
<1>1. ASSUME NEW r \in Runs, MdP!Drain(r), ~started
      PROVE  MetadatasByCalls'
  <2>1. metadatasFifo = <<>> /\ \A d \in MdP!Drainers : ~MdP!Active(d)
    BY <1>1 DEF MetadatasByCalls, MetadatasAtRest
  <2>2. MdP!WriteOnlyInv' /\ metadatasFifo' = <<>> /\ \A d \in MdP!Drainers : ~MdP!Active(d)'
    BY <1>1, <2>1, LineAssumptions, MdP!DrainAtRest DEF MetadatasByCalls
  <2>3. MdP!LineTypeOK'
    BY <1>1, LineAssumptions, MdP!LineTypeStep DEF MetadatasByCalls, MdP!LineStep
  <2> QED  BY <2>2, <2>3, SameDrainers DEF MetadatasByCalls, MetadatasAtRest
<1>2. CASE MdP!CallStep /\ (started \/ UNCHANGED <<metadatasFifo, metadataPhase>>)
  <2>1. MdP!LineTypeOK' /\ MdP!WriteOnlyInv' /\ \A r \in Runs : ~MdP!Active(r)'
    BY <1>2, LineAssumptions, MdP!LineTypeStep, MdP!WriteOnlyStep, MdP!CallsAreOfItems
    DEF MetadatasByCalls, MdP!LineStep
  <2>2. ~started => MetadatasAtRest'
    BY <1>2 DEF MetadatasByCalls, MetadatasAtRest, MdP!Active
  <2> QED  BY <2>1, <2>2 DEF MetadatasByCalls
<1> QED  BY <1>1, <1>2

LEMMA MetadatasByCallsStay ==
    ASSUME MetadatasByCalls, started => started', UNCHANGED metadataLine
    PROVE  MetadatasByCalls'
<1>1. MdP!CallStep /\ UNCHANGED <<metadatasFifo, metadataPhase>>
  BY DEF metadataLine, MdP!CallStep, MdP!lineVars
<1> QED  BY <1>1, MetadatasByCallsKeep

LEMMA OnceStep ==
    ASSUME WithoutSubscriptions, Inv, OnceInv, [Next]_vars
    PROVE  OnceInv'
<1> USE DEF OnceInv
<1>0. Subs = {} /\ stage \in [Runs -> Stages]
  BY DEF WithoutSubscriptions, Subs, ToSet, Inv, RunInv, RunTypes
<1>1. ASSUME NEW r \in Runs, ConnectStep(r) PROVE OnceInv'
  <2>1. ~started /\ \A q \in Runs : q # r => stage[q] = "idle"
    BY <1>1 DEF ConnectsOnce, ConnectStep, OnModuleInit, TimerFires, CreateSubscription,
       SubscriptionExists, UpdateSubscription, SubscriptionFails, CreateProjection,
       ProjectionExists, UpdateProjection, ProjectionFails
  <2>2. /\ UNCHANGED metadataLine
        /\ \/ Connected(r)
           \/ \E st \in {"createProjection", "updateProjection"} : \E k : Begins(r, st, k)
    BY <1>1 DEF ConnectsOnce, ConnectStep, OnModuleInit, TimerFires, CreateSubscription,
       SubscriptionExists, UpdateSubscription, SubscriptionFails, CreateProjection,
       ProjectionExists, UpdateProjection, ProjectionFails, Connects, GoesOnWithProjections,
       WithoutSubscriptions
  <2>3. CASE Connected(r)
    <3>1. /\ stage' = [stage EXCEPT ![r] = "events"] /\ connection' = "up"
          /\ UNCHANGED started /\ EvP!Drain(r)
      BY <2>3, SameEventActions DEF Connected, Goto, ReportUp, life
    <3>2. ConnectsOnce'
      BY <1>0, <2>1, <3>1 DEF ConnectsOnce
    <3> QED  BY <2>1, <2>2, <3>1, <3>2, EventsByCallsKeep, MetadatasByCallsStay
  <2>4. ASSUME NEW st \in {"createProjection", "updateProjection"}, NEW k, Begins(r, st, k)
        PROVE  OnceInv'
    <3>1. stage' = [stage EXCEPT ![r] = st] /\ UNCHANGED <<connection, started, eventLine>>
      BY <2>4 DEF Begins, Goto, life
    <3>2. ConnectsOnce'
      BY <1>0, <2>1, <3>1 DEF ConnectsOnce
    <3> QED  BY <2>2, <3>1, <3>2, EventsByCallsStay, MetadatasByCallsStay
  <2> QED  BY <2>2, <2>3, <2>4
<1>2. ASSUME NEW r \in Runs, EventsDrained(r) PROVE OnceInv'
  <2>1. /\ stage[r] = "events" /\ stage' = [stage EXCEPT ![r] = "metadatas"]
        /\ UNCHANGED <<connection, started, eventLine>> /\ MdP!Drain(r)
    BY <1>2, SameMetadataActions DEF EventsDrained, Goto, status, life
  <2>2. ~started /\ connection # "unset" /\ \A q \in Runs : q # r => stage[q] = "idle"
    BY <2>1 DEF ConnectsOnce
  <2>3. ConnectsOnce'
    BY <1>0, <2>1, <2>2 DEF ConnectsOnce
  <2> QED  BY <2>1, <2>2, <2>3, EventsByCallsStay, MetadatasByCallsKeep
<1>3. ASSUME NEW r \in Runs, MetadatasDrained(r) PROVE OnceInv'
  <2>1. /\ stage[r] = "metadatas" /\ stage' = [stage EXCEPT ![r] = "idle"] /\ started' = TRUE
        /\ UNCHANGED <<connection, eventLine, metadataLine>>
    BY <1>3 DEF MetadatasDrained, Goto, status
  <2>2. connection # "unset" /\ \A q \in Runs : q # r => stage[q] = "idle"
    BY <2>1 DEF ConnectsOnce
  <2>3. ConnectsOnce'
    BY <1>0, <2>1, <2>2 DEF ConnectsOnce
  <2> QED  BY <2>1, <2>3, EventsByCallsStay, MetadatasByCallsStay
<1>4. ASSUME NEW i \in EventItems, WriteEvents(i) \/ StoreAppliesEvents(i) PROVE OnceInv'
  <2>1. /\ UNCHANGED <<stage, connection, started, metadataLine>>
        /\ EvP!CallStep /\ (started \/ UNCHANGED <<eventBatchesFifo, eventPhase>>)
    BY <1>4, SameEventActions DEF WriteEvents, StoreAppliesEvents, serviceVars, EvP!CallStep,
       Ev!Stack, Ev!StackAndDrain, Ev!StoreApplies
  <2> QED  BY <2>1, EventsByCallsKeep, MetadatasByCallsStay DEF ConnectsOnce
<1>5. ASSUME NEW d \in Runs \cup EventItems, EventsStep(d) PROVE OnceInv'
  <2>1. EvP!Active(d) /\ EvP!CallStep
    BY <1>5, SameEventActions, SameDrainers
    DEF EventsStep, EventsAnswered, EventsRejected, EvP!CallStep, EvP!Active, EvP!Resolve, EvP!Continue, EvP!Reject
  <2>2. started /\ d \notin Runs
    BY <2>1, SameDrainers DEF EventsByCalls, EventsAtRest
  <2>3. /\ UNCHANGED <<stage, started, metadataLine>>
        /\ connection' \in {connection, "down"}
    BY <1>5, <2>2 DEF EventsStep, EventsAnswered, EventsRejected, AfterRejection, serviceVars, life,
       Ev!Resolve, Ev!Continue, Ev!Reject
  <2> QED  BY <2>1, <2>2, <2>3, EventsByCallsKeep, MetadatasByCallsStay DEF ConnectsOnce
<1>6. ASSUME NEW i \in MetadataItems, WriteMetadata(i) \/ StoreAppliesMetadata(i) PROVE OnceInv'
  <2>1. /\ UNCHANGED <<stage, connection, started, eventLine>>
        /\ MdP!CallStep /\ (started \/ UNCHANGED <<metadatasFifo, metadataPhase>>)
    BY <1>6, SameMetadataActions DEF WriteMetadata, StoreAppliesMetadata, serviceVars, MdP!CallStep,
       Md!Stack, Md!StackAndDrain, Md!StoreApplies
  <2> QED  BY <2>1, MetadatasByCallsKeep, EventsByCallsStay DEF ConnectsOnce
<1>7. ASSUME NEW d \in Runs \cup MetadataItems, MetadatasStep(d) PROVE OnceInv'
  <2>1. MdP!Active(d) /\ MdP!CallStep
    BY <1>7, SameMetadataActions, SameDrainers
    DEF MetadatasStep, MetadatasAnswered, MetadatasRejected, MdP!CallStep, MdP!Active, MdP!Resolve, MdP!Continue, MdP!Reject
  <2>2. started /\ d \notin Runs
    BY <2>1, SameDrainers DEF MetadatasByCalls, MetadatasAtRest
  <2>3. /\ UNCHANGED <<stage, started, eventLine>>
        /\ connection' \in {connection, "down"}
    BY <1>7, <2>2 DEF MetadatasStep, MetadatasAnswered, MetadatasRejected, AfterRejection, serviceVars, life,
       Md!Resolve, Md!Continue, Md!Reject
  <2> QED  BY <2>1, <2>2, <2>3, MetadatasByCallsKeep, EventsByCallsStay DEF ConnectsOnce
<1>8. CASE StoreGoesDownOrUp \/ OnModuleDestroy \/ UNCHANGED vars
  <2>1. UNCHANGED <<connection, started, eventLine, metadataLine>>
    BY <1>8 DEF StoreGoesDownOrUp, OnModuleDestroy, vars, serviceVars, status
  <2>2. \A r \in Runs : stage'[r] = stage[r]
    BY <1>8 DEF StoreGoesDownOrUp, OnModuleDestroy, vars, serviceVars, ConnectsOnce
  <2>3. ConnectsOnce'
    BY <2>1, <2>2 DEF ConnectsOnce
  <2> QED  BY <2>1, <2>3, EventsByCallsStay, MetadatasByCallsStay
<1> QED
  BY <1>0, <1>1, <1>2, <1>3, <1>4, <1>5, <1>6, <1>7, <1>8 DEF Next, RunStep, ConnectStep

LEMMA OnceAlways == WithoutSubscriptions /\ Spec => []OnceInv
<1> SUFFICES ASSUME WithoutSubscriptions
             PROVE  Spec => []OnceInv
  OBVIOUS
<1>1. Init => OnceInv
  <2> SUFFICES ASSUME Init
               PROVE  OnceInv
    OBVIOUS
  <2>1. EventsAtRest /\ MetadatasAtRest
    BY SameDrainers DEF Init, Ev!LineInit, Md!LineInit, EventsAtRest, MetadatasAtRest,
                        EvP!Active, MdP!Active
  <2>2. ConnectsOnce
    BY DEF Init, ConnectsOnce
  <2> QED
    BY <2>1, <2>2, LinesStart, SameDrainers
    DEF OnceInv, EventsByCalls, MetadatasByCalls, EventsAtRest, MetadatasAtRest
<1>2. Inv /\ OnceInv /\ [Next]_vars => OnceInv'
  BY OnceStep
<1> QED  BY <1>1, <1>2, InvAlways, PTL DEF Spec

(* In a service without subscriptions the flags work as locks: connect()   *)
(* never drains next to a write call, nor write calls next to each other.  *)
THEOREM OneDrainWithoutSubscriptions ==
    WithoutSubscriptions /\ Spec => []Ev!AtMostOneDrain /\ []Md!AtMostOneDrain
<1>1. OnceInv => Ev!AtMostOneDrain /\ Md!AtMostOneDrain
  BY SameDrainers
  DEF OnceInv, EventsByCalls, MetadatasByCalls, EvP!WriteOnlyInv, EvP!LoneInv, EvP!LockInv,
      EvP!AtMostOneDrain, EvP!Active, Ev!AtMostOneDrain, Ev!Active,
      MdP!WriteOnlyInv, MdP!LoneInv, MdP!LockInv,
      MdP!AtMostOneDrain, MdP!Active, Md!AtMostOneDrain, Md!Active
<1> QED  BY <1>1, OnceAlways, PTL

(* So whatever fails and whatever is refused, the service as a whole keeps *)
(* the promise of its two lines: every write that it accepted is in its    *)
(* line or in the store, stored once and in the order of the calls.        *)
THEOREM SafeWithoutSubscriptions ==
    WithoutSubscriptions /\ Spec =>
        /\ []Ev!NothingLost /\ []Md!NothingLost
        /\ Ev!OutboxSpec /\ Md!OutboxSpec
BY OneDrainWithoutSubscriptions, EventsAreSafeAlone, MetadataIsSafeAlone, PTL
=============================================================================
