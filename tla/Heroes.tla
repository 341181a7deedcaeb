------------------------------- MODULE Heroes -------------------------------
(***************************************************************************)
(* The example application, on one hero.  A command kills a dragon and     *)
(* commits the event; the store delivers it to a handler, which            *)
(* acknowledges it, and to a saga, which after a sleep sends the command   *)
(* that finds and drops an item.  The commits write through a waiting line *)
(* (WaitingLine.tla) that connect() drains as well: the example has a      *)
(* subscription and a projection.  The read side is that of Delivery.tla,  *)
(* for an event that acknowledges itself.                                  *)
(***************************************************************************)
EXTENDS Naturals, Sequences, SequencesExt

CONSTANTS
    Kills,          \* the calls of PUT hero/:id/kill
    Runs,           \* the runs of connect(), after the first, at a time
    None,           \* the null of the code
    MaxDeliveries,  \* deliveries of one event before it is parked
    MaxFaults       \* bound on crashes, closed streams, premature timeouts and
                    \* first connect()s that fail

Drops == Kills \X (1 .. MaxDeliveries)

Killed(k) == <<"killed", k, 0>>
Found(d) == <<"found", d[1], d[2]>>
Dropped(d) == <<"dropped", d[1], d[2]>>
Writes == {Killed(k) : k \in Kills} \cup {Found(d) : d \in Drops} \cup {Dropped(d) : d \in Drops}

ASSUME HeroesAssumption ==
    /\ MaxDeliveries \in Nat \ {0}
    /\ MaxFaults \in Nat
    /\ Writes \cap Runs = {}
    /\ None \notin Writes

VARIABLES           \* the line of event batches, and the hero's stream
    fifo, isTrying, phase, current, result, sent, stored, accepted, connection

VARIABLES
    autoAck,        \* the subscription's _autoAck
    connecting,     \* the runs of connect() that are to drain the line
    kill,           \* how far each kill command is
    group,          \* where the store has the event of each kill
    delivered,      \* how often it was delivered
    acks,           \* acknowledgements on their way
    drop,           \* how far each delivery, and the saga's command for it, is
    faults,
    overlapped      \* history: two loops have drained the line at a time

Line == INSTANCE WaitingLine WITH Items <- Writes, YieldsAfterShift <- TRUE

line == <<fifo, isTrying, phase, current, result, sent, stored, accepted, connection>>
delivery == <<group, delivered, acks>>
vars == <<line, autoAck, connecting, kill, delivery, drop, faults, overlapped>>

(* The command of the saga, and all of a delivery that crashes undo. *)
Commanded == {"sleeping", "loading", "adding"}
Live == {"dispatching", "adrift"} \cup Commanded
Ended == {"none", "unhandled", "done", "failed", "lost"}

Stored(w) == w \in ToSet(stored)

(* The application writes once the first connect() has returned, connected *)
(* or waiting for a retry.                                                 *)
Init ==
    /\ Line!Init
    /\ autoAck \in {"absent", "off", "on"}
    /\ \/ connection = "up" /\ connecting = {} /\ faults = 0
       \/ connection = "down" /\ connecting \in (SUBSET Runs) \ {{}} /\ faults = 1
    /\ faults <= MaxFaults
    /\ kill = [k \in Kills |-> "none"]
    /\ group = [k \in Kills |-> "none"]
    /\ delivered = [k \in Kills |-> 0]
    /\ acks = {}
    /\ drop = [d \in Drops |-> "none"]
    /\ overlapped = FALSE
-----------------------------------------------------------------------------
(* The line. *)

(* A commit writes its events, in the line or through it; it returns when  *)
(* the call does, whether they are stored by then or not.                  *)
Write(w) == Line!Stack(w) \/ Line!StackAndDrain(w)
Returned(w) == phase[w] \in {"done", "failed"}

Answered(d) ==
    /\ Line!Answered(d)
    /\ UNCHANGED <<autoAck, connecting, kill, delivery, drop, faults>>

Continues(d) ==
    /\ Line!Continue(d)
    /\ UNCHANGED <<autoAck, connecting, kill, delivery, drop, faults>>

(* A run of connect() that succeeds, the first time or in a retry, drains  *)
(* the line, whoever else does.                                            *)
Reconnects(r) ==
    /\ r \in connecting
    /\ connecting' = connecting \ {r}
    /\ Line!Reconnect(r)
    /\ UNCHANGED <<autoAck, kill, delivery, drop, faults>>

(* What is stored is put in the subscription's group. *)
Appends(w) ==
    /\ Line!StoreApplies(w)
    /\ group' = [k \in Kills |-> IF w = Killed(k) THEN "queued" ELSE group[k]]
    /\ UNCHANGED <<autoAck, connecting, kill, delivered, acks, drop, faults>>
-----------------------------------------------------------------------------
(* The kill command. *)

KillDragon(k) ==
    /\ kill[k] = "none"
    /\ kill' = [kill EXCEPT ![k] = "fighting"]
    /\ UNCHANGED <<line, autoAck, connecting, delivery, drop, faults>>

(* The fight is applied without commit, and committed in one array: it is  *)
(* one write, and never stored in part.  The commit throws if the events   *)
(* are not valid.                                                          *)
CommitsKill(k) ==
    /\ kill[k] = "fighting"
    /\ \/ Write(Killed(k)) /\ kill' = [kill EXCEPT ![k] = "done"]
       \/ kill' = [kill EXCEPT ![k] = "failed"] /\ UNCHANGED line
    /\ UNCHANGED <<autoAck, connecting, delivery, drop, faults>>
-----------------------------------------------------------------------------
(* The store's side of the subscription. *)

TakesAck(k) ==
    /\ k \in acks
    /\ acks' = acks \ {k}
    /\ group' = [group EXCEPT ![k] = IF @ = "inFlight" THEN "acked" ELSE @]
    /\ UNCHANGED <<line, autoAck, connecting, kill, delivered, drop, faults>>

Again(k) == IF delivered[k] < MaxDeliveries THEN "queued" ELSE "parked"

(* An acknowledgement is under way, or a handler may still send one. *)
Attended(k) == k \in acks \/ \E n \in 1 .. MaxDeliveries : drop[<<k, n>>] = "dispatching"

(* A timeout that comes before the acknowledgement is a fault. *)
TimesOut(k) ==
    /\ group[k] = "inFlight"
    /\ \/ ~Attended(k) /\ UNCHANGED faults
       \/ Attended(k) /\ faults < MaxFaults /\ faults' = faults + 1
    /\ group' = [group EXCEPT ![k] = Again(k)]
    /\ UNCHANGED <<line, autoAck, connecting, kill, delivered, acks, drop>>
-----------------------------------------------------------------------------
(* The event handler helper, the handler and the saga. *)

Goto(d, s) == drop' = [drop EXCEPT ![d] = s]

(* Bug: the event reaches the read bus when it is committed. *)
ReceivesEarly(k) ==
    /\ group[k] = "queued" \/ (group[k] = "none" /\ kill[k] = "done")
    /\ delivered[k] < MaxDeliveries
    /\ group' = [group EXCEPT ![k] = "inFlight"]
    /\ delivered' = [delivered EXCEPT ![k] = @ + 1]
    /\ acks' = IF autoAck = "on" THEN acks \cup {k} ELSE acks
    /\ Goto(<<k, delivered[k] + 1>>, "dispatching")
    /\ UNCHANGED <<line, autoAck, connecting, kill, faults>>

(* The helper gives the event to the read bus, which awaits its prepublish *)
(* hooks; a client that acknowledges by itself has done so by then.        *)
Receives(k) ==
    /\ group[k] = "queued"
    /\ group' = [group EXCEPT ![k] = "inFlight"]
    /\ delivered' = [delivered EXCEPT ![k] = @ + 1]
    /\ acks' = IF autoAck = "on" THEN acks \cup {k} ELSE acks
    /\ Goto(<<k, delivered[k] + 1>>, "dispatching")
    /\ UNCHANGED <<line, autoAck, connecting, kill, faults>>

(* Bug: the handler does not acknowledge. *)
NeverAcks(d) == UNCHANGED acks

(* The handler's ack() sends something only if the helper replaced it, for *)
(* a subscription that has an _autoAck, and the stream is open still.      *)
Acks(d) ==
    acks' = IF autoAck # "absent" /\ drop[d] = "dispatching"
            THEN acks \cup {d[1]} ELSE acks

(* Bug: the saga lets no event pass. *)
NoSaga(d) == Goto(d, "none")

DragonKilled(d) == Goto(d, "sleeping")

(* The bus calls the handler and the saga. *)
Handles(d) ==
    /\ drop[d] \in {"dispatching", "adrift"}
    /\ Acks(d)
    /\ DragonKilled(d)
    /\ UNCHANGED <<line, autoAck, connecting, kill, group, delivered, faults>>
-----------------------------------------------------------------------------
(* The saga's command.  Under autoCommit an apply() ends with its commit.  *)

Wakes(d) ==
    /\ drop[d] = "sleeping"
    /\ Goto(d, "loading")
    /\ UNCHANGED <<line, autoAck, connecting, kill, delivery, faults>>

AddsItem(d) ==
    /\ drop[d] = "loading"
    /\ Write(Found(d))
    /\ Goto(d, "adding")
    /\ UNCHANGED <<autoAck, connecting, kill, delivery, faults>>

(* Bug: the second event is never applied. *)
KeepsItem(d) ==
    /\ drop[d] = "adding"
    /\ Returned(Found(d))
    /\ Goto(d, "done")
    /\ UNCHANGED <<line, autoAck, connecting, kill, delivery, faults>>

DropsItem(d) ==
    /\ drop[d] = "adding"
    /\ Returned(Found(d))
    /\ Write(Dropped(d))
    /\ Goto(d, "done")
    /\ UNCHANGED <<autoAck, connecting, kill, delivery, faults>>

(* A commit throws, its event being in the line or not.  After the last    *)
(* one is in the line that makes no difference.                            *)
Fails(d) ==
    /\ drop[d] = "loading" \/ (drop[d] = "adding" /\ Returned(Found(d)))
    /\ Goto(d, "failed")
    /\ UNCHANGED <<line, autoAck, connecting, kill, delivery, faults>>

CommandStep(d) == Handles(d) \/ Wakes(d) \/ AddsItem(d) \/ DropsItem(d)
-----------------------------------------------------------------------------
(* Faults. *)

(* What is in flight comes back, and the answers under way are lost.       *)
Disconnects ==
    /\ faults < MaxFaults
    /\ faults' = faults + 1
    /\ group' = [k \in Kills |-> IF group[k] = "inFlight" THEN Again(k) ELSE group[k]]
    /\ acks' = {}
    /\ UNCHANGED <<autoAck, delivered>>

(* The stream is closed: a handler that runs will acknowledge to nobody,   *)
(* and connect() runs again, unless a retry is due already.                *)
StreamCloses ==
    /\ Disconnects
    /\ \/ connecting # {} /\ UNCHANGED connecting
       \/ \E r \in Runs : connecting' = connecting \cup {r}
    /\ drop' = [d \in Drops |-> IF drop[d] = "dispatching" THEN "adrift" ELSE drop[d]]
    /\ UNCHANGED <<line, kill>>

(* What is only in memory is lost: commands, timers, answers and the line; *)
(* the store may still apply what was sent.  A process that starts again   *)
(* writes after its first connect(), whether that succeeded or not.        *)
Crashes ==
    /\ Disconnects
    /\ fifo' = <<>> /\ isTrying' = FALSE
    /\ phase' = [d \in Line!Drainers |-> IF phase[d] = "idle" THEN "idle" ELSE "failed"]
    /\ current' = [d \in Line!Drainers |-> None]
    /\ result' = [d \in Line!Drainers |-> None]
    /\ \/ connection' = "up" /\ connecting' = {}
       \/ connection' = "down" /\ connecting' \in (SUBSET Runs) \ {{}}
    /\ UNCHANGED <<sent, stored, accepted>>
    /\ kill' = [k \in Kills |-> IF kill[k] = "fighting" THEN "failed" ELSE kill[k]]
    /\ drop' = [d \in Drops |->
                  CASE drop[d] \in {"dispatching", "adrift"} -> "unhandled"
                    [] drop[d] \in Commanded -> "lost"
                    [] drop[d] = "done" /\ ~Stored(Dropped(d)) -> "lost"
                    [] OTHER -> drop[d]]

Step ==
    \/ \E d \in Line!Drainers : Answered(d) \/ Continues(d)
    \/ \E r \in Runs : Reconnects(r)
    \/ \E w \in Writes : Appends(w)
    \/ \E k \in Kills :
        KillDragon(k) \/ CommitsKill(k) \/ Receives(k) \/ TakesAck(k) \/ TimesOut(k)
    \/ \E d \in Drops : CommandStep(d) \/ Fails(d)
    \/ StreamCloses
    \/ Crashes

Watched(A) == A /\ overlapped' = (overlapped \/ ~Line!AtMostOneDrain')

Next == Watched(Step)

Spec == Init /\ [][Next]_vars

(* Requests are answered or fail; the store takes acknowledgements and     *)
(* delivers; timers and promises end.  Nothing is assumed of the commits'  *)
(* failures, of connect(), and of premature timeouts, closed streams and   *)
(* crashes.  One fairness condition for all of these is enough, as none    *)
(* can go on for ever.                                                     *)
Due ==
    \/ \E d \in Line!Drainers : Answered(d) \/ Continues(d)
    \/ \E k \in Kills : Receives(k) \/ TakesAck(k) \/ (~Attended(k) /\ TimesOut(k))
    \/ \E d \in Drops : CommandStep(d)

LiveSpec == Spec /\ WF_vars(Watched(Due))
-----------------------------------------------------------------------------
(* Types. *)
TypeOK ==
    /\ Line!TypeOK
    /\ autoAck \in {"absent", "off", "on"}
    /\ connecting \subseteq Runs
    /\ kill \in [Kills -> {"none", "fighting", "done", "failed"}]
    /\ group \in [Kills -> {"none", "queued", "inFlight", "acked", "parked"}]
    /\ delivered \in [Kills -> 0 .. MaxDeliveries]
    /\ acks \subseteq Kills
    /\ drop \in [Drops -> Live \cup Ended]
    /\ faults \in 0 .. MaxFaults
    /\ overlapped \in BOOLEAN

Before(v, w) ==
    \A i \in DOMAIN stored : stored[i] = w => \E j \in 1 .. i - 1 : stored[j] = v

(* In the stream every item is found after the dragon was killed, and      *)
(* dropped after it was found as long as no two loops have drained the     *)
(* line at a time: across the line, refused requests that are applied      *)
(* late, the store, the saga and any crash in between.                     *)
CausesFirst ==
    \A d \in Drops :
        /\ Before(Killed(d[1]), Found(d))
        /\ ~overlapped => Before(Found(d), Dropped(d))

(* With an _autoAck the n-th delivery of a kill, and so its n-th item,     *)
(* takes n - 1 faults: the handler acknowledges, so that only what comes   *)
(* between a delivery and the store's taking of its acknowledgement makes  *)
(* the event come back.                                                    *)
OneItemPerKill ==
    autoAck # "absent" =>
        \A d \in Drops : Stored(Found(d)) => d[2] <= 1 + faults

(* Once the line is empty and no command at work, the hero keeps an item   *)
(* only where a command failed or was lost between the two events, or two  *)
(* loops have drained the line at a time.                                  *)
NothingKept ==
    /\ ~overlapped
    /\ fifo = <<>>
    /\ \A d \in Drops : drop[d] \notin Live
    => \A d \in Drops :
        Stored(Found(d)) /\ ~Stored(Dropped(d)) => drop[d] \in {"failed", "lost"}

(* A delivery has come to its reward, or to nothing for a known reason: a  *)
(* commit failed, a crash lost the command (the event is acknowledged      *)
(* before it runs), or it lost an event the client had acknowledged before *)
(* the handlers saw it.                                                    *)
Settled(d) ==
    \/ Stored(Dropped(d))
    \/ drop[d] \in {"failed", "lost"}
    \/ drop[d] = "unhandled" /\ autoAck = "on"

(* A stored kill is rewarded, or its reward failed, or the connection is   *)
(* reported down, or two loops have drained the line at a time; if there   *)
(* are more deliveries than faults.                                        *)
KillIsRewarded ==
    \A k \in Kills :
        Stored(Killed(k)) /\ MaxFaults < MaxDeliveries
        ~> \/ \E n \in 1 .. MaxDeliveries : Settled(<<k, n>>)
           \/ connection = "down" \/ overlapped
=============================================================================
