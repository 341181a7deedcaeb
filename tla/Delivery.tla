------------------------------ MODULE Delivery ------------------------------
(***************************************************************************)
(* The read side: the store delivers the events of a persistent            *)
(* subscription, the event handler helper parses each, maps it,            *)
(* acknowledges it or lets its handlers do so, and gives it to the read    *)
(* event bus.  Nothing awaits the helper, so that its runs overlap, and    *)
(* the store delivers again what is not answered in time.                  *)
(***************************************************************************)
EXTENDS Naturals

CONSTANTS
    Events,         \* the events of the stream
    Streams,        \* what these may be: a set of functions from Events to Kinds
    MaxRetries,     \* deliveries after the first, the group's maxRetryCount
    MaxFaults       \* bound on crashes, closed streams and premature timeouts

(* The cases the helper tells apart.  The first five never reach a handler. *)
Unusable == {"unresolved", "notJson", "badData", "unknown"}
Kinds == Unusable \cup {"badMetadata", "plain", "acknowledgeable"}

(* The subscription has no _autoAck, or a false or a true one. *)
AutoAcks == {"absent", "off", "on"}

(* What a handler may answer: an acknowledgement or a reason to refuse. *)
NakActions == {"Park", "Retry", "Skip"}
Verdicts == {"Ack"} \cup NakActions

Runs == 1 .. MaxRetries + 1
Live == {"preparing", "validating", "handling", "answering"}
Stages == {"none", "returned", "failed", "discarded", "crashed"} \cup Live
Places == {"queued", "inFlight", "acked", "skipped", "parked"}

ASSUME DeliveryAssumption ==
    /\ MaxRetries \in Nat
    /\ MaxFaults \in Nat
    /\ Streams \subseteq [Events -> Kinds]

VARIABLES
    kind,           \* what each event is
    autoAck,        \* the subscription's _autoAck
    eventBus,       \* there is a read event bus
    group,          \* where the store has each event
    delivered,      \* how often it was delivered
    run,            \* run[e][k]: what the helper's run for the k-th delivery awaits
    answers,        \* the answers on their way to the store
    orphaned,       \* runs whose subscription was closed: their answers are lost
    handled,        \* history: the runs whose handlers have done their work
    faults          \* how many faults there were

setting == <<kind, autoAck, eventBus>>
store == <<group, delivered>>
vars == <<setting, store, run, answers, orphaned, handled, faults>>

Init ==
    /\ kind \in Streams
    /\ autoAck \in AutoAcks
    /\ eventBus \in BOOLEAN
    /\ group = [e \in Events |-> "queued"]
    /\ delivered = [e \in Events |-> 0]
    /\ run = [e \in Events |-> [k \in Runs |-> "none"]]
    /\ answers = {}
    /\ orphaned = {}
    /\ handled = {}
    /\ faults = 0

Answer(e, k, v) == [event |-> e, run |-> k, verdict |-> v]

Goto(e, k, s) == run' = [run EXCEPT ![e][k] = s]
-----------------------------------------------------------------------------
(* The event handler helper, up to its first await. *)

(* Bug: the helper does not look for ack and nack on the event. *)
AckedWhateverItIs(e) ==
    \/ autoAck = "on"
    \/ autoAck = "off" /\ eventBus
        /\ kind[e] \in Unusable \cup {"plain", "acknowledgeable"}

(* Bug: a plain event is left to its handlers. *)
AckedIfUnusable(e) ==
    \/ autoAck = "on"
    \/ autoAck = "off" /\ eventBus /\ kind[e] \in Unusable

(* Bug: unreadable metadata is caught as unreadable data is. *)
AckedWithBadMetadata(e) ==
    \/ autoAck = "on"
    \/ autoAck = "off" /\ eventBus
        /\ kind[e] \in Unusable \cup {"plain", "badMetadata"}

(* Bug: unreadable data is dropped without an answer. *)
AckedUnlessBadData(e) ==
    \/ autoAck = "on"
    \/ autoAck = "off" /\ eventBus
        /\ kind[e] \in (Unusable \ {"badData"}) \cup {"plain"}

(* The helper answers what it cannot use, and a plain event before its     *)
(* handlers run; a client that acknowledges by itself does so when the     *)
(* listener returns, which is at the first await.                          *)
AckedAtOnce(e) ==
    \/ autoAck = "on"
    \/ autoAck = "off" /\ eventBus /\ kind[e] \in Unusable \cup {"plain"}

(* Where the helper leaves the event: dropped, thrown out by the metadata, *)
(* or given to the read bus.                                               *)
Parsed(e) ==
    CASE ~eventBus \/ kind[e] \in Unusable -> "returned"
      [] eventBus /\ kind[e] = "badMetadata" -> "failed"
      [] OTHER -> "preparing"

(* The 'data' listener calls the helper and does not wait for it. *)
OnEvent(e) ==
    /\ group[e] = "queued"
    /\ group' = [group EXCEPT ![e] = "inFlight"]
    /\ delivered' = [delivered EXCEPT ![e] = @ + 1]
    /\ Goto(e, delivered[e] + 1, Parsed(e))
    /\ answers' = IF AckedAtOnce(e)
                  THEN answers \cup {Answer(e, delivered[e] + 1, "Ack")}
                  ELSE answers
    /\ UNCHANGED <<setting, orphaned, handled, faults>>
-----------------------------------------------------------------------------
(* The read event bus. *)

(* Bug: the bus drops the events that have errors. *)
PassesWithoutErrors(errors) == errors = 0

(* The test of the list of errors: a list is a truthy value, empty or not. *)
Passes(errors) == errors \in Nat

Prepared(e, k) ==
    /\ run[e][k] = "preparing"
    /\ Goto(e, k, "validating")
    /\ UNCHANGED <<setting, store, answers, orphaned, handled, faults>>

Validated(e, k) ==
    /\ run[e][k] = "validating"
    /\ \E errors \in 0 .. 1 :
        Goto(e, k, IF Passes(errors) THEN "handling" ELSE "discarded")
    /\ UNCHANGED <<setting, store, answers, orphaned, handled, faults>>

(* The application's providers may throw, and so does the dispatch of the  *)
(* first of no prepared events: the rejection of the helper is unhandled.  *)
PublishThrows(e, k) ==
    /\ run[e][k] \in {"preparing", "validating"}
    /\ Goto(e, k, "failed")
    /\ UNCHANGED <<setting, store, answers, orphaned, handled, faults>>

PublishStep(e, k) == Prepared(e, k) \/ Validated(e, k) \/ PublishThrows(e, k)
-----------------------------------------------------------------------------
(* The application's handlers.  The bus does not wait for them. *)

Handled(e, k) ==
    /\ run[e][k] = "handling"
    /\ handled' = handled \cup {<<e, k>>}
    /\ Goto(e, k, IF kind[e] = "acknowledgeable" THEN "answering" ELSE "returned")
    /\ UNCHANGED <<setting, store, answers, orphaned, faults>>

HandlerThrows(e, k) ==
    /\ run[e][k] = "handling"
    /\ Goto(e, k, "failed")
    /\ UNCHANGED <<setting, store, answers, orphaned, handled, faults>>

(* ack() and nack(), which the helper replaced if the subscription has an  *)
(* _autoAck; those of the event itself do nothing.                         *)
Answers(e, k, v) ==
    /\ answers' = IF autoAck # "absent" /\ <<e, k>> \notin orphaned
                  THEN answers \cup {Answer(e, k, v)}
                  ELSE answers
    /\ Goto(e, k, "returned")
    /\ UNCHANGED <<setting, store, orphaned, handled, faults>>

HandlerAcks(e, k) ==
    /\ run[e][k] = "answering"
    /\ Answers(e, k, "Ack")

(* Bug: nack() acknowledges. *)
NacksAsAck(e, k) ==
    /\ run[e][k] = "handling"
    /\ kind[e] = "acknowledgeable"
    /\ Answers(e, k, "Ack")

HandlerNacks(e, k) ==
    /\ run[e][k] = "handling"
    /\ kind[e] = "acknowledgeable"
    /\ \E action \in NakActions : Answers(e, k, action)

HandlerStep(e, k) ==
    Handled(e, k) \/ HandlerThrows(e, k) \/ HandlerAcks(e, k) \/ HandlerNacks(e, k)
-----------------------------------------------------------------------------
(* The store. *)

(* Bug: the retries are not counted. *)
AgainUncounted(e) == "queued"

(* An event comes back until it was delivered MaxRetries times again. *)
Again(e) == IF delivered[e] \in 1 .. MaxRetries THEN "queued" ELSE "parked"

Settles(e, v) ==
    CASE v = "Ack" -> "acked"
      [] v = "Park" -> "parked"
      [] v = "Skip" -> "skipped"
      [] v = "Retry" -> Again(e)

(* The answer names the event and not the delivery: a late one settles a   *)
(* later delivery, and one for an event that is not in flight is ignored.  *)
TakesAnswer(a) ==
    /\ a \in answers
    /\ answers' = answers \ {a}
    /\ group' = IF group[a.event] = "inFlight"
                THEN [group EXCEPT ![a.event] = Settles(a.event, a.verdict)]
                ELSE group
    /\ UNCHANGED <<setting, delivered, run, orphaned, handled, faults>>

(* Somebody may still answer for the event. *)
Attended(e) ==
    \/ \E k \in Runs : run[e][k] \in Live /\ <<e, k>> \notin orphaned
    \/ \E a \in answers : a.event = e

(* A premature timeout is a fault. *)
TimesOut(e) ==
    /\ group[e] = "inFlight"
    /\ \/ ~Attended(e) /\ UNCHANGED faults
       \/ Attended(e) /\ faults < MaxFaults /\ faults' = faults + 1
    /\ group' = [group EXCEPT ![e] = Again(e)]
    /\ UNCHANGED <<setting, delivered, run, answers, orphaned, handled>>

(* The stream is closed, and opened again by connect(): what is in flight  *)
(* comes back, and the answers that were under way are lost.  In a crash   *)
(* the runs are lost too; otherwise they go on with a closed subscription. *)
StreamCloses(crash) ==
    /\ faults < MaxFaults
    /\ faults' = faults + 1
    /\ group' = [e \in Events |-> IF group[e] = "inFlight" THEN Again(e) ELSE group[e]]
    /\ answers' = {}
    /\ run' = [e \in Events |-> [k \in Runs |->
                 IF crash /\ run[e][k] \in Live THEN "crashed" ELSE run[e][k]]]
    /\ orphaned' = {p \in Events \X Runs : run'[p[1]][p[2]] \in Live}
    /\ UNCHANGED <<setting, delivered, handled>>

Next ==
    \/ \E e \in Events :
        \/ OnEvent(e) \/ TimesOut(e)
        \/ \E k \in Runs : PublishStep(e, k) \/ HandlerStep(e, k)
    \/ \E a \in answers : TakesAnswer(a)
    \/ \E crash \in BOOLEAN : StreamCloses(crash)

Spec == Init /\ [][Next]_vars

(* The store delivers what it has queued, takes the answers it gets, and   *)
(* notices a delivery nobody will answer; promises and handlers end.       *)
LiveSpec ==
    /\ Spec
    /\ \A e \in Events :
        /\ WF_vars(OnEvent(e))
        /\ WF_vars(~Attended(e) /\ TimesOut(e))
        /\ WF_vars(\E a \in answers : a.event = e /\ TakesAnswer(a))
        /\ \A k \in Runs : WF_vars(PublishStep(e, k)) /\ WF_vars(HandlerStep(e, k))
-----------------------------------------------------------------------------
TypeOK ==
    /\ kind \in [Events -> Kinds]
    /\ autoAck \in AutoAcks
    /\ eventBus \in BOOLEAN
    /\ group \in [Events -> Places]
    /\ delivered \in [Events -> 0 .. MaxRetries + 1]
    /\ run \in [Events -> [Runs -> Stages]]
    /\ answers \subseteq [event : Events, run : Runs, verdict : Verdicts]
    /\ orphaned \subseteq Events \X Runs
    /\ handled \subseteq Events \X Runs
    /\ faults \in 0 .. MaxFaults

(* The events that nobody acknowledges but their handlers. *)
Guarded == {e \in Events : autoAck = "off" /\ kind[e] = "acknowledgeable"}

HandledEvents == {e \in Events : \E k \in Runs : <<e, k>> \in handled}

(* The store forgets an event that acknowledges itself only when one of    *)
(* its deliveries was handled, in whatever order crashes, timeouts, late   *)
(* answers and overlapping runs of the helper come.                        *)
HandledBeforeAcked == \A e \in Guarded : group[e] = "acked" => e \in HandledEvents

(* A plain event is acknowledged before its handlers run: unless there was *)
(* a fault it is delivered once, also when they fail, and what they did    *)
(* not do is not tried again.                                              *)
PlainNotRetried ==
    \A e \in Events :
        kind[e] = "plain" /\ autoAck # "absent" /\ eventBus /\ faults = 0
            => delivered[e] =< 1

(* An event that acknowledges itself comes back, faults apart, only after  *)
(* something failed or a handler refused it: the read bus discards none,   *)
(* even what its validator refuses, and no answer is sent astray.          *)
RetriedForCause ==
    \A e \in Guarded : eventBus /\ faults = 0 =>
        \A k \in 1 .. delivered[e] - 1 :
            run[e][k] \in {"returned", "failed"} /\ <<e, k>> \notin handled

(* Nobody answers for events without a read bus, for those of a            *)
(* subscription without _autoAck, or for those with unreadable metadata.   *)
Unanswerable(e) ==
    \/ autoAck = "absent"
    \/ autoAck = "off" /\ (~eventBus \/ kind[e] = "badMetadata")

(* Such events end parked, and never circulate for ever. *)
UnansweredIsParked ==
    \A e \in Events : Unanswerable(e) ~> group[e] = "parked"

(* What the helper answers itself is settled while the faults are fewer    *)
(* than the deliveries: it does not end parked, whatever the handlers do.  *)
HelperAnswers(e) ==
    autoAck # "absent" /\ eventBus /\ kind[e] \in Unusable \cup {"plain"}

HelperSettles ==
    \A e \in Events :
        HelperAnswers(e) /\ MaxFaults =< MaxRetries ~> group[e] = "acked"

(* Events that acknowledge themselves are delivered at least once. *)
Promise == INSTANCE AtLeastOnce WITH
    Items <- Events,
    pending <- {e \in Guarded : group[e] \in {"queued", "inFlight"}},
    released <- {e \in Guarded : group[e] = "acked"},
    handled <- HandledEvents

PromiseKept == Promise!Spec
=============================================================================
