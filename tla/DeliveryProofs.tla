--------------------------- MODULE DeliveryProofs ---------------------------
(***************************************************************************)
(* Theorems about Delivery.tla, for any stream, any number of retries and  *)
(* any number of faults.                                                   *)
(***************************************************************************)
EXTENDS Delivery, TLAPS

(* What types alone need: an event that is queued has a delivery left. *)
QueuedInv == \A e \in Events : group[e] = "queued" => delivered[e] =< MaxRetries

TypeInv == TypeOK /\ QueuedInv

(* The stages, places and verdicts are different strings. *)
LEMMA AgainPlace ==
    ASSUME TypeOK, NEW e \in Events
    PROVE  /\ Again(e) \in Places
           /\ Again(e) = "queued" => delivered[e] =< MaxRetries
           /\ Again(e) \notin {"acked", "inFlight"}
BY DeliveryAssumption DEF Again, Places, TypeOK

LEMMA SettlesPlace ==
    ASSUME TypeOK, NEW e \in Events, NEW v \in Verdicts
    PROVE  /\ Settles(e, v) \in Places
           /\ Settles(e, v) = "queued" => delivered[e] =< MaxRetries
           /\ Settles(e, v) = "acked" => v = "Ack"
           /\ Settles(e, v) = "queued" => v = "Retry"
           /\ Settles(e, v) # "inFlight"
<1>1. CASE v = "Ack" BY <1>1 DEF Settles, Places
<1>2. CASE v = "Park" BY <1>2 DEF Settles, Places
<1>3. CASE v = "Skip" BY <1>3 DEF Settles, Places
<1>4. CASE v = "Retry" BY <1>4, AgainPlace DEF Settles, Places
<1> QED BY <1>1, <1>2, <1>3, <1>4 DEF Verdicts, NakActions

LEMMA GotoMoves ==
    ASSUME TypeOK, NEW e \in Events, NEW k \in Runs, NEW s \in Stages, Goto(e, k, s)
    PROVE  /\ run' \in [Events -> [Runs -> Stages]]
           /\ run'[e][k] = s
           /\ \A f \in Events, j \in Runs : f # e \/ j # k => run'[f][j] = run[f][j]
BY DEF TypeOK, Goto

(* A step of the read bus moves one run and changes nothing else; no list  *)
(* of errors keeps the event from its handlers.                            *)
LEMMA PublishMoves ==
    ASSUME NEW e \in Events, NEW k \in Runs, PublishStep(e, k)
    PROVE  /\ run[e][k] \in {"preparing", "validating"}
           /\ \E s \in {"validating", "handling", "failed"} : Goto(e, k, s)
           /\ UNCHANGED <<setting, store, answers, orphaned, handled, faults>>
<1>1. CASE Prepared(e, k) BY <1>1 DEF Prepared
<1>2. CASE Validated(e, k)
    <2>1. \A errors \in 0 .. 1 : Passes(errors) BY DEF Passes
    <2> QED BY <1>2, <2>1 DEF Validated
<1>3. CASE PublishThrows(e, k) BY <1>3 DEF PublishThrows
<1> QED BY <1>1, <1>2, <1>3 DEF PublishStep

LEMMA TypeStart == Init => TypeInv
BY DeliveryAssumption DEF Init, TypeInv, TypeOK, QueuedInv, Places, Stages, Runs, AutoAcks

LEMMA TypeStep == TypeInv /\ [Next]_vars => TypeInv'
<1> SUFFICES ASSUME TypeInv, [Next]_vars PROVE TypeInv'
    OBVIOUS
<1> USE DeliveryAssumption DEF TypeInv, TypeOK, QueuedInv, setting, store
<1>1. ASSUME NEW e \in Events, OnEvent(e) PROVE TypeInv'
    <2>1. delivered[e] + 1 \in Runs
        BY <1>1 DEF OnEvent, Runs
    <2>2. Parsed(e) \in Stages
        BY DEF Parsed, Stages, Live
    <2>3. Answer(e, delivered[e] + 1, "Ack") \in [event : Events, run : Runs, verdict : Verdicts]
        BY <2>1 DEF Answer, Verdicts
    <2>4. run' \in [Events -> [Runs -> Stages]]
        BY <1>1, <2>1, <2>2 DEF OnEvent, Goto
    <2>5. delivered' \in [Events -> 0 .. MaxRetries + 1] /\ QueuedInv'
        BY <1>1, <2>1 DEF OnEvent, Runs
    <2>6. answers' \subseteq [event : Events, run : Runs, verdict : Verdicts]
        BY <1>1, <2>3 DEF OnEvent
    <2>7. group' \in [Events -> Places]
        BY <1>1 DEF OnEvent, Places
    <2> QED BY <1>1, <2>4, <2>5, <2>6, <2>7 DEF OnEvent
<1>2. ASSUME NEW e \in Events, NEW k \in Runs, PublishStep(e, k) PROVE TypeInv'
    <2>1. run' \in [Events -> [Runs -> Stages]]
        BY <1>2, PublishMoves, GotoMoves DEF Stages, Live
    <2> QED BY <1>2, <2>1, PublishMoves
<1>3. ASSUME NEW e \in Events, NEW k \in Runs, HandlerStep(e, k) PROVE TypeInv'
    <2>1. CASE Handled(e, k)
        <3>1. run' \in [Events -> [Runs -> Stages]]
            BY <2>1, GotoMoves DEF Handled, Stages, Live
        <3> QED BY <2>1, <3>1 DEF Handled
    <2>2. CASE HandlerThrows(e, k)
        <3>1. run' \in [Events -> [Runs -> Stages]]
            BY <2>2, GotoMoves DEF HandlerThrows, Stages, Live
        <3> QED BY <2>2, <3>1 DEF HandlerThrows
    <2>3. ASSUME NEW v \in Verdicts, Answers(e, k, v) PROVE TypeInv'
        <3>1. run' \in [Events -> [Runs -> Stages]]
            BY <2>3, GotoMoves DEF Answers, Stages, Live
        <3> QED BY <2>3, <3>1 DEF Answers, Answer
    <2> QED BY <1>3, <2>1, <2>2, <2>3 DEF HandlerStep, HandlerAcks, HandlerNacks, Verdicts
<1>4. ASSUME NEW a \in answers, TakesAnswer(a) PROVE TypeInv'
    BY <1>4, SettlesPlace DEF TakesAnswer
<1>5. ASSUME NEW e \in Events, TimesOut(e) PROVE TypeInv'
    BY <1>5, AgainPlace DEF TimesOut
<1>6. ASSUME NEW crash \in BOOLEAN, StreamCloses(crash) PROVE TypeInv'
    <2>1. group' \in [Events -> Places] /\ QueuedInv'
        BY <1>6, AgainPlace DEF StreamCloses
    <2>2. run' \in [Events -> [Runs -> Stages]]
        BY <1>6 DEF StreamCloses, Stages
    <2> QED BY <1>6, <2>1, <2>2 DEF StreamCloses
<1>7. CASE UNCHANGED vars BY <1>7 DEF vars
<1> QED BY <1>1, <1>2, <1>3, <1>4, <1>5, <1>6, <1>7 DEF Next

(* The read side keeps its state well typed: no event is delivered more    *)
(* often than the helper has runs for it.                                  *)
THEOREM DeliveryTypeCorrect == Spec => []TypeOK
<1>1. TypeInv => TypeOK BY DEF TypeInv
<1> QED BY TypeStart, TypeStep, <1>1, PTL DEF Spec
-----------------------------------------------------------------------------
(* An acknowledgement of an event that acknowledges itself comes from a    *)
(* run whose handler has done its work.                                    *)
GuardInv ==
    /\ HandledBeforeAcked
    /\ \A a \in answers : a.event \in Guarded /\ a.verdict = "Ack" => a.event \in HandledEvents
    /\ \A e \in Events, k \in Runs : run[e][k] = "answering" => <<e, k>> \in handled

LEMMA GuardStart == Init => GuardInv
BY DEF Init, GuardInv, HandledBeforeAcked, Guarded

(* The setting never changes, and what was handled stays handled. *)
LEMMA HandledGrows ==
    ASSUME TypeInv, [Next]_vars
    PROVE  UNCHANGED setting /\ handled \subseteq handled'
<1> USE DEF setting
<1>1. ASSUME NEW e \in Events, OnEvent(e) \/ TimesOut(e)
      PROVE  UNCHANGED setting /\ handled \subseteq handled'
    BY <1>1 DEF OnEvent, TimesOut
<1>2. ASSUME NEW e \in Events, NEW k \in Runs, PublishStep(e, k)
      PROVE  UNCHANGED setting /\ handled \subseteq handled'
    BY <1>2, PublishMoves
<1>3. ASSUME NEW e \in Events, NEW k \in Runs, HandlerStep(e, k)
      PROVE  UNCHANGED setting /\ handled \subseteq handled'
    BY <1>3 DEF HandlerStep, Handled, HandlerThrows, HandlerAcks, HandlerNacks, Answers
<1>4. ASSUME NEW a \in answers, TakesAnswer(a)
      PROVE  UNCHANGED setting /\ handled \subseteq handled'
    BY <1>4 DEF TakesAnswer
<1>5. ASSUME NEW crash \in BOOLEAN, StreamCloses(crash)
      PROVE  UNCHANGED setting /\ handled \subseteq handled'
    BY <1>5 DEF StreamCloses
<1>6. CASE UNCHANGED vars BY <1>6 DEF vars
<1> QED BY <1>1, <1>2, <1>3, <1>4, <1>5, <1>6 DEF Next

LEMMA GuardStep == TypeInv /\ GuardInv /\ [Next]_vars => GuardInv'
<1> SUFFICES ASSUME TypeInv, GuardInv, [Next]_vars PROVE GuardInv'
    OBVIOUS
<1>1. /\ Guarded' = Guarded
      /\ HandledEvents \subseteq HandledEvents'
      /\ handled \subseteq handled'
    BY HandledGrows DEF Guarded, HandledEvents, setting
<1>2. TypeOK BY DEF TypeInv
<1> HIDE DEF Guarded, HandledEvents
<1>3. ASSUME NEW e \in Events, OnEvent(e) PROVE GuardInv'
    <2>1. delivered[e] + 1 \in Runs
        BY <1>2, <1>3, DeliveryAssumption DEF OnEvent, Runs, TypeInv, TypeOK, QueuedInv
    <2>2. Parsed(e) \in Stages \ {"answering"}
        BY DEF Parsed, Stages, Live
    <2>3. e \in Guarded => ~AckedAtOnce(e)
        BY DEF Guarded, AckedAtOnce, Unusable
    <2>4. HandledBeforeAcked'
        BY <1>1, <1>2, <1>3 DEF GuardInv, HandledBeforeAcked, OnEvent, TypeOK, Guarded
    <2>5. (\A a \in answers : a.event \in Guarded /\ a.verdict = "Ack"
                => a.event \in HandledEvents)'
        BY <1>1, <1>3, <2>3 DEF GuardInv, OnEvent, Answer
    <2>6. \A f \in Events, j \in Runs : run'[f][j] = "answering" => run[f][j] = "answering"
        BY <1>2, <1>3, <2>1, <2>2, GotoMoves DEF OnEvent
    <2> QED BY <1>1, <2>4, <2>5, <2>6 DEF GuardInv
<1>4. ASSUME NEW e \in Events, NEW k \in Runs, PublishStep(e, k) PROVE GuardInv'
    <2>1. \A f \in Events, j \in Runs : run'[f][j] = "answering" => run[f][j] = "answering"
        BY <1>2, <1>4, PublishMoves, GotoMoves DEF Stages, Live
    <2> QED BY <1>1, <1>4, <2>1, PublishMoves DEF GuardInv, HandledBeforeAcked, store
<1>5. ASSUME NEW e \in Events, NEW k \in Runs, HandlerStep(e, k) PROVE GuardInv'
    <2>1. ASSUME NEW v \in Verdicts, Answers(e, k, v),
                 v = "Ack" => e \in HandledEvents
          PROVE  GuardInv'
        <3>1. \A f \in Events, j \in Runs : run'[f][j] = "answering" => run[f][j] = "answering"
            BY <1>2, <2>1, GotoMoves DEF Answers, Stages
        <3>2. \A a \in answers' : a \in answers \/ a = Answer(e, k, v)
            BY <2>1 DEF Answers
        <3> QED BY <1>1, <2>1, <3>1, <3>2 DEF GuardInv, HandledBeforeAcked, Answers, Answer, store
    <2>2. CASE Handled(e, k)
        <3>1. \A f \in Events, j \in Runs :
                run'[f][j] = "answering" => run[f][j] = "answering" \/ (f = e /\ j = k)
            BY <1>2, <2>2, GotoMoves DEF Handled, Stages, Live
        <3>2. <<e, k>> \in handled'
            BY <2>2 DEF Handled
        <3> QED BY <1>1, <2>2, <3>1, <3>2 DEF GuardInv, HandledBeforeAcked, Handled, store
    <2>3. CASE HandlerThrows(e, k)
        <3>1. \A f \in Events, j \in Runs : run'[f][j] = "answering" => run[f][j] = "answering"
            BY <1>2, <2>3, GotoMoves DEF HandlerThrows, Stages
        <3> QED BY <1>1, <2>3, <3>1 DEF GuardInv, HandledBeforeAcked, HandlerThrows, store
    <2>4. CASE HandlerAcks(e, k)
        <3>1. e \in HandledEvents
            BY <2>4 DEF HandlerAcks, GuardInv, HandledEvents
        <3> QED BY <2>1, <2>4, <3>1 DEF HandlerAcks, Verdicts
    <2>5. CASE HandlerNacks(e, k)
        BY <2>1, <2>5 DEF HandlerNacks, Verdicts, NakActions
    <2> QED BY <1>5, <2>2, <2>3, <2>4, <2>5 DEF HandlerStep
<1>6. ASSUME NEW a \in answers, TakesAnswer(a) PROVE GuardInv'
    <2>1. a.event \in Events /\ a.verdict \in Verdicts
        BY <1>2 DEF TypeOK
    <2>2. Settles(a.event, a.verdict) = "acked" => a.verdict = "Ack"
        BY <1>2, <2>1, SettlesPlace
    <2>3. HandledBeforeAcked'
        BY <1>1, <1>2, <1>6, <2>1, <2>2 DEF GuardInv, HandledBeforeAcked, TakesAnswer, TypeOK
    <2> QED BY <1>1, <1>6, <2>3 DEF GuardInv, TakesAnswer
<1>7. ASSUME NEW e \in Events, TimesOut(e) PROVE GuardInv'
    BY <1>1, <1>2, <1>7, AgainPlace DEF GuardInv, HandledBeforeAcked, TimesOut, TypeOK
<1>8. ASSUME NEW crash \in BOOLEAN, StreamCloses(crash) PROVE GuardInv'
    <2>1. HandledBeforeAcked'
        BY <1>1, <1>2, <1>8, AgainPlace
        DEF GuardInv, HandledBeforeAcked, StreamCloses, TypeOK, Guarded
    <2>2. \A f \in Events, j \in Runs : run'[f][j] = "answering" => run[f][j] = "answering"
        BY <1>8 DEF StreamCloses
    <2> QED BY <1>1, <1>8, <2>1, <2>2 DEF GuardInv, StreamCloses
<1>9. CASE UNCHANGED vars
    BY <1>9 DEF vars, GuardInv, HandledBeforeAcked, Guarded, HandledEvents, setting, store
<1> QED BY <1>3, <1>4, <1>5, <1>6, <1>7, <1>8, <1>9 DEF Next

LEMMA GuardHolds == Spec => [](TypeInv /\ GuardInv)
<1>1. Init => TypeInv /\ GuardInv
    BY TypeStart, GuardStart
<1>2. (TypeInv /\ GuardInv) /\ [Next]_vars => (TypeInv /\ GuardInv)'
    BY TypeStep, GuardStep
<1> QED BY <1>1, <1>2, PTL DEF Spec

(* An event that acknowledges itself is forgotten by the store only after  *)
(* one of its deliveries was handled, whatever faults there are.           *)
THEOREM AckedIsHandled == Spec => []HandledBeforeAcked
<1>1. TypeInv /\ GuardInv => HandledBeforeAcked BY DEF GuardInv
<1> QED BY GuardHolds, <1>1, PTL
-----------------------------------------------------------------------------
(* The refinement. *)

Pending == {e \in Guarded : group[e] \in {"queued", "inFlight"}}
Released == {e \in Guarded : group[e] = "acked"}

LEMMA PromiseStart == Init => Promise!Init
BY DEF Init, Promise!Init, Guarded, HandledEvents

(* A step that neither releases nor handles can only put events aside. *)
LEMMA PutAside ==
    ASSUME UNCHANGED <<Released, HandledEvents>>, Pending' \subseteq Pending
    PROVE  Promise!Next
<1>1. PICK aside \in SUBSET Events : aside = Pending \ Pending'
    BY DEF Pending, Guarded
<1>2. Promise!GiveUp(aside)
    BY <1>1 DEF Promise!GiveUp, Pending, Released
<1> QED BY <1>2 DEF Promise!Next

LEMMA PromiseStep ==
    TypeInv /\ GuardInv /\ [Next]_vars => [Promise!Next]_(Promise!promiseVars)
<1> SUFFICES ASSUME TypeInv, GuardInv, [Next]_vars
             PROVE  [Promise!Next]_(Promise!promiseVars)
    OBVIOUS
<1>1. Guarded' = Guarded
    BY HandledGrows DEF Guarded, setting
<1>2. TypeOK BY DEF TypeInv
<1>3. ASSUME NEW e \in Events, OnEvent(e) PROVE Promise!Next
    <2>1. UNCHANGED HandledEvents
        BY <1>3 DEF OnEvent, HandledEvents
    <2>2. \A f \in Events : group'[f] = IF f = e THEN "inFlight" ELSE group[f]
        BY <1>2, <1>3 DEF OnEvent, TypeOK
    <2>3. group[e] = "queued"
        BY <1>3 DEF OnEvent
    <2>4. UNCHANGED Released /\ Pending' \subseteq Pending
        BY <1>1, <2>2, <2>3 DEF Pending, Released, Guarded
    <2> QED BY <2>1, <2>4, PutAside
<1>4. ASSUME NEW e \in Events, NEW k \in Runs, PublishStep(e, k) PROVE Promise!Next
    BY <1>1, <1>4, PublishMoves, PutAside DEF Pending, Released, HandledEvents, store
<1>5. ASSUME NEW e \in Events, NEW k \in Runs, HandlerStep(e, k) PROVE Promise!Next
    <2>1. CASE Handled(e, k)
        <3>1. HandledEvents' = HandledEvents \cup {e}
            BY <2>1 DEF Handled, HandledEvents
        <3>2. UNCHANGED <<Pending, Released>>
            BY <1>1, <2>1 DEF Handled, store, Pending, Released
        <3>3. Promise!Handle(e)
            BY <3>1, <3>2 DEF Promise!Handle, Pending, Released
        <3> QED BY <3>3 DEF Promise!Next
    <2>2. CASE HandlerThrows(e, k) \/ HandlerAcks(e, k) \/ HandlerNacks(e, k)
        <3>1. UNCHANGED <<store, handled>>
            BY <2>2 DEF HandlerThrows, HandlerAcks, HandlerNacks, Answers
        <3> QED BY <1>1, <3>1, PutAside DEF Pending, Released, HandledEvents, store
    <2> QED BY <1>5, <2>1, <2>2 DEF HandlerStep
<1>6. ASSUME NEW a \in answers, TakesAnswer(a) PROVE Promise!Next
    <2> DEFINE e == a.event
    <2>1. e \in Events /\ a.verdict \in Verdicts
        BY <1>2 DEF TypeOK
    <2>2. UNCHANGED HandledEvents
        BY <1>6 DEF TakesAnswer, HandledEvents
    <2>3. CASE group[e] = "inFlight" /\ a.verdict = "Ack" /\ e \in Guarded
        <3>1. e \in HandledEvents
            BY <2>3 DEF GuardInv
        <3>2. group' = [group EXCEPT ![e] = "acked"]
            BY <1>6, <2>3 DEF TakesAnswer, Settles
        <3>3. Pending' = Pending \ {e} /\ Released' = Released \cup {e}
            BY <1>1, <1>2, <2>1, <2>3, <3>2 DEF Pending, Released, TypeOK, Guarded
        <3>4. e \in Pending
            BY <2>3 DEF Pending
        <3>5. Promise!Release(e)
            BY <2>2, <3>1, <3>3, <3>4 DEF Promise!Release, Pending, Released
        <3> QED BY <2>1, <3>5 DEF Promise!Next
    <2>4. CASE ~(group[e] = "inFlight" /\ a.verdict = "Ack" /\ e \in Guarded)
        <3> DEFINE s == Settles(e, a.verdict)
        <3>1. s = "acked" => a.verdict = "Ack"
            BY <1>2, <2>1, SettlesPlace
        <3>2. group' = IF group[e] = "inFlight" THEN [group EXCEPT ![e] = s] ELSE group
            BY <1>6 DEF TakesAnswer
        <3> HIDE DEF s, e
        <3>3. UNCHANGED Released /\ Pending' \subseteq Pending
            BY <1>1, <1>2, <2>1, <2>4, <3>1, <3>2 DEF Pending, Released, TypeOK, Guarded
        <3> QED BY <2>2, <3>3, PutAside
    <2> QED BY <2>3, <2>4
<1>7. ASSUME NEW e \in Events, TimesOut(e) PROVE Promise!Next
    <2>1. UNCHANGED HandledEvents
        BY <1>7 DEF TimesOut, HandledEvents
    <2>2. UNCHANGED Released /\ Pending' \subseteq Pending
        BY <1>1, <1>2, <1>7, AgainPlace DEF TimesOut, Pending, Released, TypeOK, Guarded
    <2> QED BY <2>1, <2>2, PutAside
<1>8. ASSUME NEW crash \in BOOLEAN, StreamCloses(crash) PROVE Promise!Next
    <2>1. UNCHANGED HandledEvents
        BY <1>8 DEF StreamCloses, HandledEvents
    <2>2. UNCHANGED Released /\ Pending' \subseteq Pending
        BY <1>1, <1>2, <1>8, AgainPlace DEF StreamCloses, Pending, Released, TypeOK, Guarded
    <2> QED BY <2>1, <2>2, PutAside
<1>9. CASE UNCHANGED vars
    BY <1>9 DEF vars, store, setting, Promise!promiseVars, Guarded, HandledEvents
<1> QED BY <1>3, <1>4, <1>5, <1>6, <1>7, <1>8, <1>9 DEF Next

(* Events that acknowledge themselves are delivered at least once: the     *)
(* read side implements AtLeastOnce.tla.                                   *)
THEOREM ImplementsAtLeastOnce == Spec => PromiseKept
<1> QED BY PromiseStart, PromiseStep, GuardHolds, PTL DEF Spec, PromiseKept, Promise!Spec
-----------------------------------------------------------------------------
(* Without faults. *)

AnswersFor(e) == {a \in answers : a.event = e}

(* A plain event was delivered once at most, and its acknowledgement is    *)
(* under way or was taken.                                                 *)
PlainInv ==
    \A e \in Events :
        kind[e] = "plain" /\ autoAck # "absent" /\ eventBus /\ faults = 0 =>
            /\ delivered[e] =< 1
            /\ \A a \in AnswersFor(e) : a.verdict = "Ack"
            /\ delivered[e] = 1 =>
                group[e] = "acked" \/ (group[e] = "inFlight" /\ AnswersFor(e) # {})

LEMMA PlainStart == Init => PlainInv
BY DEF Init, PlainInv, AnswersFor

LEMMA PlainStep == TypeInv /\ PlainInv /\ [Next]_vars => PlainInv'
<1> SUFFICES ASSUME TypeInv, PlainInv, [Next]_vars,
                    NEW e \in Events, (kind[e] = "plain")', (autoAck # "absent")',
                    eventBus', faults' = 0
             PROVE  /\ delivered'[e] =< 1
                    /\ \A a \in AnswersFor(e)' : a.verdict = "Ack"
                    /\ delivered'[e] = 1 =>
                        \/ group'[e] = "acked"
                        \/ group'[e] = "inFlight" /\ AnswersFor(e)' # {}
    BY DEF PlainInv
<1> DEFINE Goal == /\ delivered'[e] =< 1
                   /\ \A a \in AnswersFor(e)' : a.verdict = "Ack"
                   /\ delivered'[e] = 1 =>
                        \/ group'[e] = "acked"
                        \/ group'[e] = "inFlight" /\ AnswersFor(e)' # {}
<1>1. kind[e] = "plain" /\ autoAck # "absent" /\ eventBus
    BY HandledGrows DEF setting
<1>2. TypeOK BY DEF TypeInv
<1>3. faults = 0 =>
        /\ delivered[e] =< 1
        /\ \A a \in AnswersFor(e) : a.verdict = "Ack"
        /\ delivered[e] = 1 =>
            group[e] = "acked" \/ (group[e] = "inFlight" /\ AnswersFor(e) # {})
    BY <1>1 DEF PlainInv
<1>4. ASSUME NEW f \in Events, OnEvent(f) PROVE Goal
    <2>1. CASE f = e
        <3>1. group[e] = "queued" /\ faults = 0
            BY <1>4, <2>1 DEF OnEvent
        <3>2. delivered[e] \in Nat
            BY <1>2, DeliveryAssumption DEF TypeOK
        <3>3. delivered[e] = 0 /\ group[e] = "queued"
            BY <1>3, <3>1, <3>2
        <3>4. AckedAtOnce(e)
            BY <1>1, <1>2 DEF AckedAtOnce, TypeOK, AutoAcks
        <3>5. answers' = answers \cup {Answer(e, 1, "Ack")}
            BY <1>4, <2>1, <3>3, <3>4 DEF OnEvent
        <3>6. group'[e] = "inFlight" /\ delivered'[e] = 1
            BY <1>2, <1>4, <2>1, <3>3 DEF OnEvent, TypeOK
        <3>7. \A a \in AnswersFor(e)' : a \in AnswersFor(e) \/ a = Answer(e, 1, "Ack")
            BY <3>5 DEF AnswersFor
        <3>8. Answer(e, 1, "Ack") \in AnswersFor(e)'
            BY <3>5 DEF AnswersFor, Answer
        <3> QED BY <1>3, <1>4, <3>6, <3>7, <3>8 DEF OnEvent, Answer
    <2>2. CASE f # e
        <3>1. \A k \in Nat : Answer(f, k, "Ack").event # e
            BY <2>2 DEF Answer
        <3>2. AnswersFor(e)' = AnswersFor(e)
            BY <1>2, <1>4, <2>2 DEF OnEvent, AnswersFor, Answer
        <3>3. group'[e] = group[e] /\ delivered'[e] = delivered[e] /\ faults' = faults
            BY <1>2, <1>4, <2>2 DEF OnEvent, TypeOK
        <3> QED BY <1>3, <3>2, <3>3
    <2> QED BY <2>1, <2>2
<1>5. ASSUME NEW f \in Events, NEW k \in Runs, PublishStep(f, k) PROVE Goal
    BY <1>3, <1>5, PublishMoves DEF AnswersFor, store
<1>6. ASSUME NEW f \in Events, NEW k \in Runs, HandlerStep(f, k) PROVE Goal
    <2>1. ASSUME NEW v \in Verdicts, Answers(f, k, v), f = e => v = "Ack" PROVE Goal
        <3>1. \A a \in AnswersFor(e)' : a \in AnswersFor(e) \/ a.verdict = "Ack"
            BY <2>1 DEF Answers, AnswersFor, Answer
        <3>2. AnswersFor(e) \subseteq AnswersFor(e)'
            BY <2>1 DEF Answers, AnswersFor
        <3> QED BY <1>3, <2>1, <3>1, <3>2 DEF Answers, store
    <2>2. CASE Handled(f, k) BY <1>3, <2>2 DEF Handled, AnswersFor, store
    <2>3. CASE HandlerThrows(f, k) BY <1>3, <2>3 DEF HandlerThrows, AnswersFor, store
    <2>4. CASE HandlerAcks(f, k) BY <2>1, <2>4 DEF HandlerAcks, Verdicts
    <2>5. CASE HandlerNacks(f, k) BY <1>1, <2>1, <2>5 DEF HandlerNacks, Verdicts, NakActions
    <2> QED BY <1>6, <2>2, <2>3, <2>4, <2>5 DEF HandlerStep
<1>7. ASSUME NEW a \in answers, TakesAnswer(a) PROVE Goal
    <2>1. faults' = faults /\ delivered' = delivered /\ AnswersFor(e)' \subseteq AnswersFor(e)
        BY <1>7 DEF TakesAnswer, AnswersFor
    <2>2. CASE a.event = e
        <3>1. a.verdict = "Ack"
            BY <1>3, <2>1, <2>2 DEF AnswersFor
        <3>2. group' = IF group[e] = "inFlight" THEN [group EXCEPT ![e] = "acked"] ELSE group
            BY <1>7, <2>2, <3>1 DEF TakesAnswer, Settles
        <3>3. delivered[e] = 1 => group'[e] = "acked"
            BY <1>2, <1>3, <2>1, <3>2 DEF TypeOK
        <3> QED BY <1>3, <2>1, <3>3
    <2>3. CASE a.event # e
        <3>1. AnswersFor(e)' = AnswersFor(e)
            BY <1>7, <2>3 DEF TakesAnswer, AnswersFor
        <3>2. group'[e] = group[e]
            BY <1>2, <1>7, <2>3 DEF TakesAnswer, TypeOK
        <3> QED BY <1>3, <2>1, <3>1, <3>2
    <2> QED BY <2>2, <2>3
<1>8. ASSUME NEW f \in Events, TimesOut(f) PROVE Goal
    <2>1. ~Attended(f) /\ faults = 0
        BY <1>2, <1>8 DEF TimesOut, TypeOK
    <2>2. f = e => AnswersFor(e) = {}
        BY <2>1 DEF Attended, AnswersFor
    <2>3. group[f] = "inFlight" /\ group' = [group EXCEPT ![f] = Again(f)]
        BY <1>8 DEF TimesOut
    <2>4. UNCHANGED <<delivered, answers>>
        BY <1>8 DEF TimesOut
    <2>5. f = e => delivered[e] # 1
        BY <1>3, <2>1, <2>2, <2>3
    <2>6. f # e => group'[e] = group[e]
        BY <1>2, <2>3 DEF TypeOK
    <2> QED BY <1>3, <2>1, <2>4, <2>5, <2>6 DEF AnswersFor
<1>9. ASSUME NEW crash \in BOOLEAN, StreamCloses(crash) PROVE Goal
    BY <1>2, <1>9 DEF StreamCloses, TypeOK
<1>10. CASE UNCHANGED vars
    BY <1>3, <1>10 DEF vars, store, AnswersFor
<1> QED BY <1>4, <1>5, <1>6, <1>7, <1>8, <1>9, <1>10 DEF Next

(* Unless there is a fault a plain event is delivered once, also when its  *)
(* handlers fail.                                                          *)
THEOREM PlainIsNotRetried == Spec => []PlainNotRetried
<1>1. Init => TypeInv /\ PlainInv
    BY TypeStart, PlainStart
<1>2. (TypeInv /\ PlainInv) /\ [Next]_vars => (TypeInv /\ PlainInv)'
    BY TypeStep, PlainStep
<1>3. TypeInv /\ PlainInv => PlainNotRetried
    BY DEF PlainInv, PlainNotRetried
<1> QED BY <1>1, <1>2, <1>3, PTL DEF Spec
-----------------------------------------------------------------------------
(* The retries of events that acknowledge themselves, without faults. *)

Refused(e, k) == run[e][k] \in {"returned", "failed"} /\ <<e, k>> \notin handled

(* All but the last delivery of an event are over, and were not handled.   *)
PastInv(e) ==
    /\ \A k \in 1 .. delivered[e] - 1 : Refused(e, k)
    /\ \A k \in Runs : k > delivered[e] => run[e][k] = "none" /\ <<e, k>> \notin handled

(* The last one is still at work, failed, or has sent its only answer,     *)
(* which tells whether it was handled.                                     *)
LastInv(e) ==
    LET d == delivered[e]
    IN  /\ \A a \in AnswersFor(e) :
            /\ d \in Runs /\ run[e][d] = "returned"
            /\ a.verdict = "Ack" <=> <<e, d>> \in handled
        /\ \A a, b \in AnswersFor(e) : a = b
        /\ d \in Runs => run[e][d] \in Live \cup {"returned", "failed"}
        /\ d \in Runs /\ <<e, d>> \in handled => run[e][d] \in {"answering", "returned"}

(* An event is queued again only if its last delivery was not handled, and *)
(* is not forgotten while one waits to be answered.                        *)
PlaceInv(e) ==
    LET d == delivered[e]
    IN  /\ group[e] = "queued" => AnswersFor(e) = {} /\ (d \in Runs => Refused(e, d))
        /\ group[e] = "inFlight" =>
            /\ d \in Runs
            /\ run[e][d] = "returned" /\ <<e, d>> \in handled => AnswersFor(e) # {}

RetryInv ==
    faults = 0 =>
        /\ orphaned = {}
        /\ eventBus => \A e \in Guarded : PastInv(e) /\ LastInv(e) /\ PlaceInv(e)

LEMMA RetryStart == Init => RetryInv
<1> SUFFICES ASSUME Init, NEW e \in Events
             PROVE  PastInv(e) /\ LastInv(e) /\ PlaceInv(e)
    BY DEF RetryInv, Init, Guarded
<1>1. delivered[e] = 0 /\ AnswersFor(e) = {} /\ handled = {} /\ group[e] = "queued"
    BY DEF Init, AnswersFor
<1>2. \A k \in Runs : run[e][k] = "none"
    BY DEF Init
<1>3. 0 \notin Runs
    BY DeliveryAssumption DEF Runs
<1> QED BY <1>1, <1>2, <1>3 DEF PastInv, LastInv, PlaceInv

(* What does not touch an event keeps what is known of it. *)
LEMMA Untouched ==
    ASSUME NEW e \in Events, TypeInv, PastInv(e) /\ LastInv(e) /\ PlaceInv(e),
           group'[e] = group[e], delivered'[e] = delivered[e],
           AnswersFor(e)' = AnswersFor(e),
           \A k \in Runs : run'[e][k] = run[e][k],
           \A k \in Runs : <<e, k>> \in handled' <=> <<e, k>> \in handled
    PROVE  (PastInv(e) /\ LastInv(e) /\ PlaceInv(e))'
<1>1. \A k \in 1 .. delivered[e] - 1 : k \in Runs
    BY DeliveryAssumption DEF TypeInv, TypeOK, Runs
<1>2. PastInv(e)' BY <1>1 DEF PastInv, Refused
<1>3. LastInv(e)' BY DEF LastInv
<1>4. PlaceInv(e)' BY DEF PlaceInv, Refused
<1> QED BY <1>2, <1>3, <1>4

(* A run that is not over is the last one, and nothing was answered yet. *)
LEMMA LiveIsLast ==
    ASSUME TypeInv, NEW e \in Events, NEW k \in Runs, run[e][k] \in Live,
           PastInv(e) /\ LastInv(e) /\ PlaceInv(e)
    PROVE  k = delivered[e] /\ AnswersFor(e) = {} /\ group[e] # "queued"
<1>1. delivered[e] \in Nat /\ k \in Nat /\ k >= 1
    BY DeliveryAssumption DEF TypeInv, TypeOK, Runs
<1>2. ~(k > delivered[e])
    BY DEF PastInv, Live
<1>3. ~(k \in 1 .. delivered[e] - 1)
    BY DEF PastInv, Refused, Live
<1>4. k = delivered[e]
    BY <1>1, <1>2, <1>3
<1> QED BY <1>4 DEF LastInv, PlaceInv, Refused, Live

LEMMA RetryStep == TypeInv /\ GuardInv /\ RetryInv /\ [Next]_vars => RetryInv'
<1> SUFFICES ASSUME TypeInv, GuardInv, RetryInv, [Next]_vars, faults' = 0
             PROVE  /\ orphaned' = {}
                    /\ eventBus' => \A e \in Guarded' : (PastInv(e) /\ LastInv(e) /\ PlaceInv(e))'
    BY DEF RetryInv
<1> DEFINE Kept(e) == (PastInv(e) /\ LastInv(e) /\ PlaceInv(e))'
           Goal == orphaned' = {} /\ (eventBus => \A e \in Guarded : Kept(e))
<1>1. Guarded' = Guarded /\ eventBus' = eventBus
    BY HandledGrows DEF Guarded, setting
<1>2. TypeOK BY DEF TypeInv
<1>3. faults = 0 =>
        /\ orphaned = {}
        /\ eventBus => \A e \in Guarded : PastInv(e) /\ LastInv(e) /\ PlaceInv(e)
    BY DEF RetryInv
<1>4. \A e \in Guarded : e \in Events /\ autoAck = "off" /\ kind[e] = "acknowledgeable"
    BY DEF Guarded
<1> HIDE DEF Guarded
<1>5. ASSUME NEW f \in Events, OnEvent(f) PROVE Goal
    <2>1. orphaned' = {} /\ faults = 0
        BY <1>3, <1>5 DEF OnEvent
    <2>2. delivered[f] + 1 \in Runs /\ Parsed(f) \in Stages
        BY <1>2, <1>5, DeliveryAssumption
        DEF OnEvent, TypeInv, TypeOK, QueuedInv, Runs, Parsed, Stages, Live
    <2>3. ASSUME NEW e \in Guarded, eventBus, e # f PROVE Kept(e)
        <3>1. group'[e] = group[e] /\ delivered'[e] = delivered[e]
            BY <1>2, <1>4, <1>5, <2>3 DEF OnEvent, TypeOK
        <3>2. AnswersFor(e)' = AnswersFor(e)
            BY <1>5, <2>3 DEF OnEvent, AnswersFor, Answer
        <3>3. \A k \in Runs : run'[e][k] = run[e][k]
            BY <1>2, <1>4, <1>5, <2>2, <2>3, GotoMoves DEF OnEvent
        <3> QED BY <1>3, <1>4, <1>5, <2>1, <2>3, <3>1, <3>2, <3>3, Untouched DEF OnEvent
    <2>4. ASSUME f \in Guarded, eventBus PROVE Kept(f)
        <3> DEFINE d == delivered[f]
        <3>1. d \in Nat /\ d + 1 \in Runs /\ delivered'[f] = d + 1 /\ group'[f] = "inFlight"
            BY <1>2, <1>5, <2>2, DeliveryAssumption DEF OnEvent, TypeOK
        <3>2. PastInv(f) /\ LastInv(f) /\ PlaceInv(f) /\ group[f] = "queued"
            BY <1>3, <1>5, <2>1, <2>4 DEF OnEvent
        <3>3. AnswersFor(f) = {} /\ AnswersFor(f)' = {}
            BY <1>4, <1>5, <2>4, <3>2 DEF OnEvent, AnswersFor, AckedAtOnce, PlaceInv, Unusable
        <3>4. Parsed(f) = "preparing"
            BY <1>4, <2>4 DEF Parsed, Unusable
        <3>5. /\ run'[f][d + 1] = "preparing"
              /\ \A k \in Runs : k # d + 1 => run'[f][k] = run[f][k]
            BY <1>2, <1>5, <2>2, <3>4, GotoMoves DEF OnEvent
        <3>6. handled' = handled
            BY <1>5 DEF OnEvent
        <3>7. \A k \in 1 .. d : k \in Runs /\ Refused(f, k)
            <4>1. \A k \in 1 .. d : k \in Runs
                BY <1>2, <3>1, DeliveryAssumption DEF TypeOK, Runs
            <4>2. \A k \in 1 .. d : k = d \/ k \in 1 .. d - 1
                BY <3>1
            <4> QED BY <3>1, <3>2, <4>1, <4>2 DEF PastInv, PlaceInv
        <3>8. <<f, d + 1>> \notin handled
            BY <3>1, <3>2 DEF PastInv
        <3> HIDE DEF d
        <3>9. PastInv(f)'
            <4>1. ASSUME NEW k \in 1 .. (d + 1) - 1 PROVE Refused(f, k)'
                BY <3>1, <3>5, <3>6, <3>7 DEF Refused
            <4>2. ASSUME NEW k \in Runs, k > d + 1
                  PROVE  run'[f][k] = "none" /\ <<f, k>> \notin handled'
                <5>1. k \in Nat /\ k > d
                    BY <3>1, <4>2, DeliveryAssumption DEF Runs
                <5> QED BY <3>1, <3>2, <3>5, <3>6, <4>2, <5>1 DEF PastInv, d
            <4> QED BY <3>1, <4>1, <4>2 DEF PastInv
        <3>10. LastInv(f)'
            BY <3>1, <3>3, <3>5, <3>6, <3>8 DEF LastInv, Live
        <3>11. PlaceInv(f)'
            BY <3>1, <3>5 DEF PlaceInv
        <3> QED BY <3>9, <3>10, <3>11
    <2> QED BY <2>1, <2>3, <2>4
<1>6. ASSUME NEW f \in Events, NEW k \in Runs, NEW s \in Stages,
             Goto(f, k, s), run[f][k] \in Live, f \in Guarded, eventBus, faults = 0,
             UNCHANGED <<group, delivered, orphaned>>,
             s \in Live \cup {"returned", "failed"},
             \A e \in Events, j \in Runs : e # f \/ j # k =>
                (<<e, j>> \in handled' <=> <<e, j>> \in handled),
             \/ s \in {"preparing", "validating", "handling", "failed"}
                    /\ <<f, k>> \notin handled' /\ answers' = answers
             \/ s = "answering" /\ <<f, k>> \in handled' /\ answers' = answers
             \/ s = "returned" /\ \E v \in Verdicts :
                    /\ answers' = answers \cup {Answer(f, k, v)}
                    /\ v = "Ack" <=> <<f, k>> \in handled'
      PROVE  Kept(f)
    <2>1. PastInv(f) /\ LastInv(f) /\ PlaceInv(f)
        BY <1>3, <1>6
    <2>2. k = delivered[f] /\ AnswersFor(f) = {} /\ group[f] # "queued"
        BY <1>6, <2>1, LiveIsLast
    <2>3. run'[f][k] = s /\ \A j \in Runs : j # k => run'[f][j] = run[f][j]
        BY <1>2, <1>6, GotoMoves
    <2>4. k \in Nat /\ delivered'[f] = k /\ group'[f] # "queued"
        BY <1>6, <2>2, DeliveryAssumption DEF Runs
    <2>5. \/ AnswersFor(f)' = {} /\ s # "returned"
          \/ s = "returned" /\ \E v \in Verdicts :
                /\ AnswersFor(f)' = {Answer(f, k, v)}
                /\ v = "Ack" <=> <<f, k>> \in handled'
        <3>1. \A v \in Verdicts : answers' = answers \cup {Answer(f, k, v)} =>
                    AnswersFor(f)' = {Answer(f, k, v)}
            BY <2>2 DEF AnswersFor, Answer
        <3>2. answers' = answers => AnswersFor(f)' = {}
            BY <2>2 DEF AnswersFor
        <3> QED BY <1>6, <3>1, <3>2
    <2>6. PastInv(f)'
        <3>1. \A j \in 1 .. k - 1 : j \in Runs /\ j # k
            BY <1>6, <2>4, DeliveryAssumption DEF Runs
        <3>2. \A j \in Runs : j > k => j # k
            BY <2>4, DeliveryAssumption DEF Runs
        <3> QED BY <1>6, <2>1, <2>2, <2>3, <2>4, <3>1, <3>2 DEF PastInv, Refused
    <2>7. LastInv(f)'
        <3>1. \A v \in Verdicts : Answer(f, k, v).verdict = v
            BY DEF Answer
        <3>2. \A a \in AnswersFor(f)' : s = "returned" /\ (a.verdict = "Ack" <=> <<f, k>> \in handled')
            BY <2>5, <3>1
        <3>3. \A a, b \in AnswersFor(f)' : a = b
            BY <2>5
        <3>4. <<f, k>> \in handled' => s \in {"answering", "returned"}
            BY <1>6
        <3> QED BY <1>6, <2>3, <2>4, <3>2, <3>3, <3>4 DEF LastInv
    <2>8. PlaceInv(f)'
        BY <1>6, <2>3, <2>4, <2>5 DEF PlaceInv
    <2> QED BY <2>6, <2>7, <2>8
<1>7. ASSUME NEW f \in Events, NEW k \in Runs, NEW e \in Guarded, e # f, eventBus, faults = 0,
             NEW s \in Stages, Goto(f, k, s), UNCHANGED <<group, delivered>>,
             \A j \in Runs : <<e, j>> \in handled' <=> <<e, j>> \in handled,
             AnswersFor(e)' = AnswersFor(e)
      PROVE  Kept(e)
    <2>1. \A j \in Runs : run'[e][j] = run[e][j]
        BY <1>2, <1>4, <1>7, GotoMoves
    <2> QED BY <1>3, <1>4, <1>7, <2>1, Untouched
<1>8. ASSUME NEW f \in Events, NEW k \in Runs, PublishStep(f, k) PROVE Goal
    <2>1. PICK s \in {"validating", "handling", "failed"} : Goto(f, k, s)
        BY <1>8, PublishMoves
    <2>2. run[f][k] \in {"preparing", "validating"} /\ s \in Stages
        BY <1>8, PublishMoves DEF Stages, Live
    <2>3. UNCHANGED <<group, delivered, orphaned, handled, faults, answers>>
        BY <1>8, PublishMoves DEF store
    <2>4. ASSUME f \in Guarded, eventBus PROVE Kept(f)
        <3>1. k = delivered[f] /\ <<f, k>> \notin handled
            BY <1>3, <2>2, <2>3, <2>4, LiveIsLast DEF LastInv, Live
        <3> QED BY <1>6, <2>1, <2>2, <2>3, <2>4, <3>1 DEF Live
    <2>5. ASSUME NEW e \in Guarded, eventBus, e # f PROVE Kept(e)
        BY <1>7, <2>1, <2>2, <2>3, <2>5 DEF AnswersFor
    <2> QED BY <1>3, <2>3, <2>4, <2>5
<1>9. ASSUME NEW f \in Events, NEW k \in Runs, HandlerStep(f, k) PROVE Goal
    <2>1. UNCHANGED <<group, delivered, orphaned, faults>> /\ faults = 0 /\ orphaned = {}
        BY <1>3, <1>9 DEF HandlerStep, Handled, HandlerThrows, HandlerAcks, HandlerNacks,
                          Answers, store
    <2>2. CASE Handled(f, k)
        <3> DEFINE s == IF kind[f] = "acknowledgeable" THEN "answering" ELSE "returned"
        <3>1. s \in Stages /\ Goto(f, k, s) /\ run[f][k] = "handling"
            BY <2>2 DEF Handled, Stages, Live
        <3>2. handled' = handled \cup {<<f, k>>} /\ answers' = answers
            BY <2>2 DEF Handled
        <3>3. f \in Guarded => s = "answering"
            BY <1>4
        <3> HIDE DEF s
        <3>4. f \in Guarded /\ eventBus => Kept(f)
            BY <1>6, <2>1, <3>1, <3>2, <3>3 DEF Live
        <3>5. ASSUME NEW e \in Guarded, eventBus, e # f PROVE Kept(e)
            BY <1>7, <2>1, <3>1, <3>2, <3>5 DEF AnswersFor
        <3> QED BY <2>1, <3>4, <3>5
    <2>3. CASE HandlerThrows(f, k)
        <3>1. "failed" \in Stages /\ Goto(f, k, "failed") /\ run[f][k] = "handling"
            BY <2>3 DEF HandlerThrows, Stages
        <3>2. UNCHANGED <<handled, answers>>
            BY <2>3 DEF HandlerThrows
        <3>3. ASSUME f \in Guarded, eventBus PROVE Kept(f)
            <4>1. <<f, k>> \notin handled
                BY <1>3, <2>1, <3>1, <3>3, LiveIsLast DEF LastInv, Live
            <4> QED BY <1>6, <2>1, <3>1, <3>2, <3>3, <4>1 DEF Live
        <3>4. ASSUME NEW e \in Guarded, eventBus, e # f PROVE Kept(e)
            BY <1>7, <2>1, <3>1, <3>2, <3>4 DEF AnswersFor
        <3> QED BY <2>1, <3>3, <3>4
    <2>4. ASSUME NEW v \in Verdicts, Answers(f, k, v), run[f][k] \in Live,
                 f \in Guarded /\ eventBus => (v = "Ack" <=> <<f, k>> \in handled)
          PROVE  Goal
        <3>1. "returned" \in Stages /\ Goto(f, k, "returned") /\ handled' = handled
            BY <2>4 DEF Answers, Stages
        <3>2. f \in Guarded => answers' = answers \cup {Answer(f, k, v)}
            BY <1>4, <2>1, <2>4 DEF Answers
        <3>3. \A e \in Events : e # f => AnswersFor(e)' = AnswersFor(e)
            BY <2>4 DEF Answers, AnswersFor, Answer
        <3>4. f \in Guarded /\ eventBus => Kept(f)
            BY <1>6, <2>1, <2>4, <3>1, <3>2
        <3>5. ASSUME NEW e \in Guarded, eventBus, e # f PROVE Kept(e)
            BY <1>4, <1>7, <2>1, <3>1, <3>3, <3>5
        <3> QED BY <2>1, <3>4, <3>5
    <2>5. CASE HandlerAcks(f, k)
        <3>1. <<f, k>> \in handled /\ run[f][k] = "answering"
            BY <2>5 DEF HandlerAcks, GuardInv
        <3> QED BY <2>4, <2>5, <3>1 DEF HandlerAcks, Verdicts, Live
    <2>6. CASE HandlerNacks(f, k)
        <3>1. PICK v \in NakActions : Answers(f, k, v)
            BY <2>6 DEF HandlerNacks
        <3>2. run[f][k] = "handling"
            BY <2>6 DEF HandlerNacks
        <3>3. f \in Guarded /\ eventBus => <<f, k>> \notin handled
            BY <1>3, <2>1, <3>2, LiveIsLast DEF LastInv, Live
        <3>4. v \in Verdicts /\ v # "Ack"
            BY DEF Verdicts, NakActions
        <3> QED BY <2>4, <3>1, <3>2, <3>3, <3>4 DEF Live
    <2> QED BY <1>9, <2>2, <2>3, <2>5, <2>6 DEF HandlerStep
<1>10. ASSUME NEW a \in answers, TakesAnswer(a) PROVE Goal
    <2>1. UNCHANGED <<delivered, run, orphaned, handled, faults>> /\ faults = 0
        BY <1>10 DEF TakesAnswer
    <2>2. a.event \in Events /\ a.verdict \in Verdicts
        BY <1>2 DEF TypeOK
    <2>3. ASSUME NEW e \in Guarded, eventBus, e # a.event PROVE Kept(e)
        <3>1. group'[e] = group[e]
            BY <1>2, <1>4, <1>10, <2>3 DEF TakesAnswer, TypeOK
        <3>2. AnswersFor(e)' = AnswersFor(e)
            BY <1>10, <2>3 DEF TakesAnswer, AnswersFor
        <3> QED BY <1>3, <1>4, <2>1, <2>3, <3>1, <3>2, Untouched
    <2>4. ASSUME a.event \in Guarded, eventBus PROVE Kept(a.event)
        <3> DEFINE e == a.event
                   d == delivered[e]
                   place == Settles(e, a.verdict)
        <3>1. PastInv(e) /\ LastInv(e) /\ PlaceInv(e)
            BY <1>3, <2>1, <2>4
        <3>2. a \in AnswersFor(e)
            BY DEF AnswersFor
        <3>3. d \in Runs /\ run[e][d] = "returned" /\ (a.verdict = "Ack" <=> <<e, d>> \in handled)
            BY <3>1, <3>2 DEF LastInv
        <3>4. AnswersFor(e)' = {}
            BY <1>10, <3>1, <3>2 DEF TakesAnswer, AnswersFor, LastInv
        <3>5. /\ place = "queued" => a.verdict = "Retry"
              /\ place # "inFlight"
            BY <1>2, <2>2, SettlesPlace
        <3>6. group[e] # "queued"
            BY <3>1, <3>2 DEF PlaceInv
        <3>7. /\ group'[e] = "queued" => <<e, d>> \notin handled
              /\ group'[e] # "inFlight"
            <4>1. group' = IF group[e] = "inFlight" THEN [group EXCEPT ![e] = place] ELSE group
                BY <1>10 DEF TakesAnswer
            <4> HIDE DEF place, e, d
            <4> QED BY <1>2, <2>2, <3>3, <3>5, <3>6, <4>1 DEF TypeOK, e
        <3>8. PastInv(e)'
            <4>1. \A k \in 1 .. d - 1 : Refused(e, k)' <=> Refused(e, k)
                BY <2>1 DEF Refused
            <4> QED BY <2>1, <3>1, <4>1 DEF PastInv
        <3>9. LastInv(e)'
            BY <2>1, <3>1, <3>4 DEF LastInv
        <3>10. PlaceInv(e)'
            BY <2>1, <3>3, <3>4, <3>7 DEF PlaceInv, Refused
        <3> QED BY <3>8, <3>9, <3>10
    <2> QED BY <1>3, <2>1, <2>3, <2>4
<1>11. ASSUME NEW f \in Events, TimesOut(f) PROVE Goal
    <2>1. ~Attended(f) /\ faults = 0 /\ UNCHANGED <<delivered, run, answers, orphaned, handled>>
        BY <1>2, <1>11 DEF TimesOut, TypeOK
    <2>2. group[f] = "inFlight" /\ group' = [group EXCEPT ![f] = Again(f)]
        BY <1>11 DEF TimesOut
    <2>3. ASSUME NEW e \in Guarded, eventBus, e # f PROVE Kept(e)
        <3>1. group'[e] = group[e] /\ AnswersFor(e)' = AnswersFor(e)
            BY <1>2, <1>4, <2>1, <2>2, <2>3 DEF TypeOK, AnswersFor
        <3> QED BY <1>3, <1>4, <2>1, <2>3, <3>1, Untouched
    <2>4. ASSUME f \in Guarded, eventBus PROVE Kept(f)
        <3> DEFINE d == delivered[f]
        <3>1. PastInv(f) /\ LastInv(f) /\ PlaceInv(f)
            BY <1>3, <2>1, <2>4
        <3>2. AnswersFor(f) = {} /\ AnswersFor(f)' = {}
            BY <2>1 DEF Attended, AnswersFor
        <3>3. d \in Runs /\ run[f][d] \notin Live
            BY <1>3, <2>1, <2>2, <3>1 DEF PlaceInv, Attended
        <3>4. Refused(f, d)
            BY <2>2, <3>1, <3>2, <3>3 DEF LastInv, PlaceInv, Refused
        <3>5. group'[f] # "inFlight"
            BY <1>2, <2>2, AgainPlace DEF TypeOK
        <3>6. PastInv(f)'
            <4>1. \A k \in 1 .. d - 1 : Refused(f, k)' <=> Refused(f, k)
                BY <2>1 DEF Refused
            <4> QED BY <2>1, <3>1, <4>1 DEF PastInv
        <3>7. LastInv(f)'
            BY <2>1, <3>1, <3>2 DEF LastInv
        <3>8. PlaceInv(f)'
            BY <2>1, <3>2, <3>4, <3>5 DEF PlaceInv, Refused
        <3> QED BY <3>6, <3>7, <3>8
    <2> QED BY <1>3, <2>1, <2>3, <2>4
<1>12. ASSUME NEW crash \in BOOLEAN, StreamCloses(crash) PROVE Goal
    BY <1>2, <1>12 DEF StreamCloses, TypeOK
<1>13. ASSUME UNCHANGED vars PROVE Goal
    <2>1. UNCHANGED <<group, delivered, run, answers, orphaned, handled, faults>>
        BY <1>13 DEF vars, store
    <2>2. \A e \in Events : AnswersFor(e)' = AnswersFor(e)
        BY <2>1 DEF AnswersFor
    <2> QED BY <1>3, <1>4, <2>1, <2>2, Untouched
<1>14. Goal
    <2> HIDE DEF Goal
    <2> QED BY <1>5, <1>8, <1>9, <1>10, <1>11, <1>12, <1>13 DEF Next
<1> QED BY <1>1, <1>14

(* Without faults an event that acknowledges itself comes back only if its *)
(* last delivery failed, or was refused by its handler.                    *)
THEOREM RetriedOnlyForCause == Spec => []RetriedForCause
<1>1. Init => TypeInv /\ GuardInv /\ RetryInv
    BY TypeStart, GuardStart, RetryStart
<1>2. (TypeInv /\ GuardInv /\ RetryInv) /\ [Next]_vars => (TypeInv /\ GuardInv /\ RetryInv)'
    BY TypeStep, GuardStep, RetryStep
<1>3. TypeInv /\ GuardInv /\ RetryInv => RetriedForCause
    BY DEF RetryInv, PastInv, Refused, RetriedForCause
<1> QED BY <1>1, <1>2, <1>3, PTL DEF Spec
=============================================================================
