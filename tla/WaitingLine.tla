----------------------------- MODULE WaitingLine -----------------------------
(***************************************************************************)
(* One waiting line of the event store service and the asynchronous loops  *)
(* that empty it (event-store.service.ts, writeEvents / writeMetadata,     *)
(* tryToWriteStackedEventBatches / tryToWriteStackedMetadatas), over the   *)
(* in-memory stacker that holds the line.  The service keeps two of them:  *)
(* event batches and stream metadata.                                      *)
(*                                                                         *)
(* JavaScript runs a function without interruption up to its next await,   *)
(* so an action is the code from one await to the next.  Several loops can *)
(* be suspended at once: one per write call that found the flag down, and  *)
(* one per run of connect(), which drains the line without reading it.     *)
(***************************************************************************)
EXTENDS Naturals, Sequences, SequencesExt

CONSTANTS
    Items,             \* the writes; a call is named by the item it writes
    Runs,              \* the runs of connect() that may drain the line
    None,              \* the null of the code
    YieldsAfterShift   \* TRUE: the loop awaits a helper that shifts, so other
                       \* code runs between a shift and the next test of the
                       \* loop (events); FALSE: it does not (metadata)

ASSUME LineAssumption ==
    /\ Items \cap Runs = {}
    /\ None \notin Items
    /\ YieldsAfterShift \in BOOLEAN

Drainers == Items \cup Runs

VARIABLES
    fifo,        \* the stacker's array
    isTrying,    \* isTryingToWriteEvents, or isTryingToWriteMetadatas
    phase,       \* phase[d]: where the call or run d is in the drain loop
    current,     \* current[d]: the item d sent and handles the answer of
    result,      \* result[d]: lastValidAppendResult, or what d returned
    connection   \* health indicator: connection status

(* The event store, and the history of the calls. *)
VARIABLES
    sent,        \* items of which a request ever left the process; one that
                 \* failed at the client may still be applied later
    stored,      \* the log: the items applied, once each, in order
    accepted     \* the items put in the line, in order

lineVars == <<fifo, isTrying, phase, current, result, sent, stored, accepted>>
vars == <<lineVars, connection>>

(* Phases: "idle" not called, "sent" awaiting the store's answer, "shifted" *)
(* awaiting the return of the helper, "done" returned, "failed" left the    *)
(* loop through its catch.                                                  *)
Phases == {"idle", "sent", "shifted", "done", "failed"}

Active(d) == phase[d] \in {"sent", "shifted"}

LineInit ==
    /\ fifo = <<>>
    /\ isTrying = FALSE
    /\ phase = [d \in Drainers |-> "idle"]
    /\ current = [d \in Drainers |-> None]
    /\ result = [d \in Drainers |-> None]
    /\ sent = {}
    /\ stored = <<>>
    /\ accepted = <<>>

(* The application writes once the first connect() has returned, connected *)
(* or, in a service that reconnects, waiting for a retry.                  *)
Init ==
    /\ LineInit
    /\ connection = "up" \/ (connection = "down" /\ Runs # {})
-----------------------------------------------------------------------------
(* The stacker. *)

(* Array.shift: a no-op on an empty array. *)
Shift(line) == IF line = <<>> THEN <<>> ELSE Tail(line)

(* d sends item x; raised is what this run of code leaves in the flag.     *)
Send(d, x, raised) ==
    /\ phase' = [phase EXCEPT ![d] = "sent"]
    /\ current' = [current EXCEPT ![d] = x]
    /\ sent' = sent \cup {x}
    /\ isTrying' = raised

(* Bug: the flag is not lowered. *)
LeaveRaised(d) ==
    /\ phase' = [phase EXCEPT ![d] = "done"]
    /\ current' = [current EXCEPT ![d] = None]
    /\ UNCHANGED <<isTrying, sent>>

(* d finds the line empty: it lowers the flag and returns. *)
Leave(d) ==
    /\ phase' = [phase EXCEPT ![d] = "done"]
    /\ current' = [current EXCEPT ![d] = None]
    /\ isTrying' = FALSE
    /\ UNCHANGED sent

(* Bug: the line is shifted when its head is sent, not when it is stored.  *)
IterateShiftingFirst(d, line, r, raised) ==
    /\ fifo' = Shift(line)
    /\ result' = [result EXCEPT ![d] = r]
    /\ \/ line # <<>> /\ Send(d, Head(line), raised)
       \/ line = <<>> /\ Leave(d)

(* Bug: the length is not tested, and the null of an empty line is sent.   *)
IterateUntested(d, line, r, raised) ==
    /\ fifo' = line
    /\ result' = [result EXCEPT ![d] = r]
    /\ Send(d, IF line = <<>> THEN None ELSE Head(line), raised)

(* The test of the while loop, with the line and the result as the run of  *)
(* code that reaches it leaves them: send the head, or return.             *)
Iterate(d, line, r, raised) ==
    /\ fifo' = line
    /\ result' = [result EXCEPT ![d] = r]
    /\ \/ line # <<>> /\ Send(d, Head(line), raised)
       \/ line = <<>> /\ Leave(d)
-----------------------------------------------------------------------------
(* The calls of the application. *)

(* writeEvents(i) while the flag is raised: put i in the line, answer null. *)
Stack(i) ==
    /\ phase[i] = "idle"
    /\ isTrying
    /\ fifo' = Append(fifo, i)
    /\ accepted' = Append(accepted, i)
    /\ phase' = [phase EXCEPT ![i] = "done"]
    /\ UNCHANGED <<isTrying, current, result, sent, stored, connection>>

(* Bug: the flag is not read, every call drains. *)
StackAndDrainAlways(i) ==
    /\ phase[i] = "idle"
    /\ accepted' = Append(accepted, i)
    /\ Iterate(i, Append(fifo, i), None, TRUE)
    /\ UNCHANGED <<stored, connection>>

(* writeEvents(i) while the flag is down: put i in the line and drain it.  *)
StackAndDrain(i) ==
    /\ phase[i] = "idle"
    /\ ~isTrying
    /\ accepted' = Append(accepted, i)
    /\ Iterate(i, Append(fifo, i), None, TRUE)
    /\ UNCHANGED <<stored, connection>>

(* connect() drains the line, whatever the flag says. *)
Drain(r) ==
    /\ ~Active(r)
    /\ Iterate(r, fifo, None, TRUE)
    /\ UNCHANGED <<stored, accepted>>

(* A run of connect() that succeeded, seen from the line.  *)
Reconnect(r) ==
    /\ Drain(r)
    /\ connection' = "up"
-----------------------------------------------------------------------------
(* The store and its answers. *)

(* The store applies a request.  Appending the same events again is        *)
(* idempotent, so an item is applied once however often it is sent.        *)
StoreApplies(x) ==
    /\ x \in sent \ ToSet(stored)
    /\ stored' = Append(stored, x)
    /\ UNCHANGED <<fifo, isTrying, phase, current, result, sent, accepted, connection>>

(* Bug: the append is not awaited. *)
ResolveUnawaited(d) ==
    /\ phase[d] = "sent"
    /\ fifo' = Shift(fifo)
    /\ phase' = [phase EXCEPT ![d] = "shifted"]
    /\ UNCHANGED <<isTrying, current, result, sent, stored, accepted, connection>>

(* The store's answer reaches d: shift the line, keep the result, and      *)
(* return to the loop, at once or through the helper's promise.            *)
Resolve(d) ==
    /\ phase[d] = "sent"
    /\ current[d] \in ToSet(stored)
    /\ \/ /\ YieldsAfterShift
          /\ fifo' = Shift(fifo)
          /\ phase' = [phase EXCEPT ![d] = "shifted"]
          /\ UNCHANGED <<isTrying, current, result, sent>>
       \/ /\ ~YieldsAfterShift
          /\ Iterate(d, Shift(fifo), current[d], isTrying)
    /\ UNCHANGED <<stored, accepted, connection>>

(* Bug: the loop stops after one batch. *)
ContinueNoMore(d) ==
    /\ phase[d] = "shifted"
    /\ phase' = [phase EXCEPT ![d] = "done"]
    /\ result' = [result EXCEPT ![d] = current[d]]
    /\ isTrying' = FALSE
    /\ UNCHANGED <<fifo, current, sent, stored, accepted, connection>>

(* The helper's promise resolves: take its result, test the loop again.    *)
Continue(d) ==
    /\ phase[d] = "shifted"
    /\ Iterate(d, fifo, current[d], isTrying)
    /\ UNCHANGED <<stored, accepted, connection>>

(* Bug: the failed batch is dropped and the loop goes on with the next. *)
RejectSkipping(d) ==
    /\ phase[d] = "sent"
    /\ Iterate(d, Shift(fifo), None, isTrying)
    /\ connection' = "down"
    /\ UNCHANGED <<stored, accepted>>

(* Bug: the failure is not reported to the health indicator. *)
RejectSilently(d) ==
    /\ phase[d] = "sent"
    /\ phase' = [phase EXCEPT ![d] = "failed"]
    /\ current' = [current EXCEPT ![d] = None]
    /\ result' = [result EXCEPT ![d] = None]
    /\ UNCHANGED <<fifo, isTrying, sent, stored, accepted, connection>>

(* The request fails at the client, applied by the store or not: report    *)
(* the connection down and return null.  The flag stays raised.            *)
Reject(d) ==
    /\ phase[d] = "sent"
    /\ phase' = [phase EXCEPT ![d] = "failed"]
    /\ current' = [current EXCEPT ![d] = None]
    /\ result' = [result EXCEPT ![d] = None]
    /\ connection' = "down"
    /\ UNCHANGED <<fifo, isTrying, sent, stored, accepted>>

Answered(d) == Resolve(d) \/ Reject(d)
-----------------------------------------------------------------------------
Next ==
    \/ \E i \in Items : Stack(i) \/ StackAndDrain(i) \/ StoreApplies(i)
    \/ \E r \in Runs : Reconnect(r)
    \/ \E d \in Drainers : Resolve(d) \/ Continue(d) \/ Reject(d)

Spec == Init /\ [][Next]_vars

(* Every request is answered or fails (the client gives each a deadline),  *)
(* and a resolved promise resumes its caller.  Nothing makes the           *)
(* application write, the store apply a request or a connection come back. *)
LiveSpec ==
    /\ Spec
    /\ \A d \in Drainers : WF_vars(Answered(d)) /\ WF_vars(Continue(d))
-----------------------------------------------------------------------------
(* Properties of every waiting line. *)

LineTypeOK ==
    /\ fifo \in Seq(Items)
    /\ isTrying \in BOOLEAN
    /\ phase \in [Drainers -> Phases]
    /\ current \in [Drainers -> Items \cup {None}]
    /\ result \in [Drainers -> Items \cup {None}]
    /\ sent \subseteq Items
    /\ stored \in Seq(Items)
    /\ accepted \in Seq(Items)

TypeOK == LineTypeOK /\ connection \in {"up", "down"}

Stalled ==
    /\ isTrying \/ fifo # <<>>
    /\ \A d \in Drainers : ~Active(d)

(* No loop is running and yet writes wait, or new ones are made to wait,   *)
(* only while the health indicator reports the connection down: a stalled  *)
(* line is never silent, whatever number of loops empty it together.       *)
StallReported == Stalled => connection = "down"
-----------------------------------------------------------------------------
(* Properties of a line that only write calls drain (Runs = {}): that of a *)
(* service without subscriptions, whose connect() cannot fail and so runs  *)
(* once, before the first write.                                           *)

(* The flag works as a lock: one loop at most is in flight.                *)
AtMostOneDrain == \A d, e \in Drainers : Active(d) /\ Active(e) => d = e

(* The store receives the writes in the order of the calls, none skipped.  *)
StoredInOrder == IsPrefix(stored, accepted)

(* A write leaves the line only once the store holds it.                   *)
NothingLost == ToSet(accepted) \subseteq ToSet(fifo) \cup ToSet(stored)

(* A call that returns a result, rather than null, has its own write in    *)
(* the store, though the result may be that of a later one.                *)
ResultMeansStored == \A i \in Items : result[i] # None => i \in ToSet(stored)

(* The line implements the outbox.                                         *)
Promise == INSTANCE Outbox
OutboxSpec == Promise!Spec

(* An accepted write reaches the store, or the connection is reported down. *)
EventuallyStoredOrReported ==
    \A i \in Items :
        i \in ToSet(accepted) ~> (i \in ToSet(stored) \/ connection = "down")
-----------------------------------------------------------------------------
(* Why they hold: without runs of connect() the flag admits one loop, and  *)
(* one loop at a time keeps the promise, whoever starts it.                *)

(* How many writes have left the line. *)
Shifted == Len(accepted) - Len(fifo)

(* One loop is in flight, and its request is for the head of the line; the *)
(* flag is down only over an empty line.                                   *)
LockInv ==
    /\ AtMostOneDrain
    /\ \A d \in Drainers : phase[d] = "sent" => fifo # <<>> /\ current[d] = Head(fifo)
    /\ ~isTrying => fifo = <<>>

(* The line is the end of the sequence of accepted writes. *)
QueueInv ==
    /\ Len(fifo) <= Len(accepted)
    /\ \A k \in 1..Len(fifo) : fifo[k] = accepted[Shifted + k]
    /\ \A k, l \in 1..Len(accepted) : accepted[k] = accepted[l] => k = l
    /\ \A k \in 1..Len(accepted) : phase[accepted[k]] # "idle"

(* The log is its beginning, ahead of the line by at most the head, and    *)
(* nothing beyond the head was ever sent.                                  *)
LogInv ==
    /\ Len(stored) \in {Shifted, Shifted + 1}
    /\ Len(stored) <= Len(accepted)
    /\ \A k \in 1..Len(stored) : stored[k] = accepted[k]
    /\ \A x \in sent : \E k \in 1..Len(accepted) : k <= Shifted + 1 /\ accepted[k] = x

(* A call's loop sends the call's own write first. *)
OwnFirst ==
    \A i \in Items :
        /\ phase[i] = "sent" => current[i] = i \/ i \in ToSet(stored)
        /\ phase[i] = "shifted" \/ result[i] # None => i \in ToSet(stored)

(* What holds as long as one loop at most empties the line.                *)
LoneInv == LockInv /\ QueueInv /\ LogInv /\ OwnFirst

(* The flag is raised over every loop; connect() may find the line empty   *)
(* between the last shift of a loop and its test, and lower the flag.      *)
FlagInv == \A d \in Drainers : Active(d) => isTrying

WriteOnlyInv == LoneInv /\ FlagInv
=============================================================================
