-------------------------- MODULE WaitingLineProofs --------------------------
(***************************************************************************)
(* Proofs about WaitingLine.tla, for every set of writes and of runs.      *)
(***************************************************************************)
EXTENDS WaitingLine, SequenceTheorems, TLAPS

-----------------------------------------------------------------------------
(* Lemmas on the operators the actions are built from. *)

(* Shifting a line leaves a line. *)
LEMMA ShiftType ==
    ASSUME NEW line \in Seq(Items)
    PROVE  Shift(line) \in Seq(Items)
BY DEF Shift

(* The test of the loop preserves the types of what it writes. *)
LEMMA IterateType ==
    ASSUME LineTypeOK,
           NEW d \in Drainers,
           NEW line \in Seq(Items),
           NEW r \in Items \cup {None},
           NEW raised \in BOOLEAN,
           Iterate(d, line, r, raised)
    PROVE  /\ fifo' \in Seq(Items)
           /\ isTrying' \in BOOLEAN
           /\ phase' \in [Drainers -> Phases]
           /\ current' \in [Drainers -> Items \cup {None}]
           /\ result' \in [Drainers -> Items \cup {None}]
           /\ sent' \subseteq Items
<1>1. fifo' \in Seq(Items) /\ result' \in [Drainers -> Items \cup {None}]
  BY DEF Iterate, LineTypeOK
<1>2. CASE line # <<>> /\ Send(d, Head(line), raised)
  <2>1. Head(line) \in Items
    BY <1>2
  <2> QED
    BY <1>1, <1>2, <2>1 DEF Send, LineTypeOK, Phases
<1>3. CASE line = <<>> /\ Leave(d)
  BY <1>1, <1>3 DEF Leave, LineTypeOK, Phases
<1> QED
  BY <1>2, <1>3 DEF Iterate

(* After the test of the loop d is in flight, or the line is empty and the *)
(* flag down.                                                              *)
LEMMA IterateProgress ==
    ASSUME LineTypeOK,
           NEW d \in Drainers,
           NEW line \in Seq(Items), NEW r, NEW raised \in BOOLEAN,
           Iterate(d, line, r, raised)
    PROVE  Active(d)' \/ (fifo' = <<>> /\ isTrying' = FALSE)
<1>1. CASE line # <<>> /\ Send(d, Head(line), raised)
  BY <1>1 DEF Send, LineTypeOK, Active
<1>2. CASE line = <<>> /\ Leave(d)
  BY <1>2 DEF Leave, Iterate
<1> QED
  BY <1>1, <1>2 DEF Iterate
-----------------------------------------------------------------------------
(* Type correctness. *)

LEMMA LineTypeInit == LineInit => LineTypeOK
<1>1. "idle" \in Phases /\ None \in Items \cup {None} /\ <<>> \in Seq(Items)
  BY DEF Phases
<1> QED
  BY <1>1 DEF LineInit, LineTypeOK

LEMMA TypeInit == Init => TypeOK
BY LineTypeInit DEF Init, TypeOK

(* A step of the line, whatever becomes of the status: the part of a       *)
(* system that reports to it from elsewhere as well.                       *)
CallStep ==
    \/ \E i \in Items : Stack(i) \/ StackAndDrain(i) \/ StoreApplies(i)
    \/ \E d \in Drainers : Resolve(d) \/ Continue(d) \/ Reject(d)
    \/ UNCHANGED lineVars

LineStep == CallStep \/ \E r \in Runs : Drain(r)

LEMMA NextIsLineStep == [Next]_vars => LineStep
BY DEF Next, vars, LineStep, CallStep, Reconnect

LEMMA LineTypeStep == LineTypeOK /\ LineStep => LineTypeOK'
<1> SUFFICES ASSUME LineTypeOK, LineStep
             PROVE  LineTypeOK'
  OBVIOUS
<1>1. ASSUME NEW i \in Items, Stack(i)
      PROVE  LineTypeOK'
  BY <1>1 DEF Stack, LineTypeOK, Drainers, Phases
<1>2. ASSUME NEW i \in Items, StackAndDrain(i)
      PROVE  LineTypeOK'
  <2>1. i \in Drainers /\ Append(fifo, i) \in Seq(Items) /\ Append(accepted, i) \in Seq(Items)
    BY DEF Drainers, LineTypeOK
  <2>2. Iterate(i, Append(fifo, i), None, TRUE)
    BY <1>2 DEF StackAndDrain
  <2> QED
    BY <1>2, <2>1, <2>2, IterateType DEF StackAndDrain, LineTypeOK
<1>3. ASSUME NEW i \in Items, StoreApplies(i)
      PROVE  LineTypeOK'
  BY <1>3 DEF StoreApplies, LineTypeOK
<1>4. ASSUME NEW r \in Runs, Drain(r)
      PROVE  LineTypeOK'
  <2>1. r \in Drainers /\ fifo \in Seq(Items)
    BY DEF Drainers, LineTypeOK
  <2> QED
    BY <1>4, <2>1, IterateType DEF Drain, LineTypeOK
<1>5. ASSUME NEW d \in Drainers, Resolve(d)
      PROVE  LineTypeOK'
  <2>1. Shift(fifo) \in Seq(Items) /\ current[d] \in Items \cup {None} /\ isTrying \in BOOLEAN
    BY ShiftType DEF LineTypeOK
  <2>2. CASE Iterate(d, Shift(fifo), current[d], isTrying)
    BY <1>5, <2>1, <2>2, IterateType DEF Resolve, LineTypeOK
  <2>3. CASE /\ fifo' = Shift(fifo)
             /\ phase' = [phase EXCEPT ![d] = "shifted"]
             /\ UNCHANGED <<isTrying, current, result, sent>>
    BY <1>5, <2>1, <2>3 DEF Resolve, LineTypeOK, Phases
  <2> QED
    BY <1>5, <2>2, <2>3 DEF Resolve
<1>6. ASSUME NEW d \in Drainers, Continue(d)
      PROVE  LineTypeOK'
  <2>1. fifo \in Seq(Items) /\ current[d] \in Items \cup {None} /\ isTrying \in BOOLEAN
    BY DEF LineTypeOK
  <2> QED
    BY <1>6, <2>1, IterateType DEF Continue, LineTypeOK
<1>7. ASSUME NEW d \in Drainers, Reject(d)
      PROVE  LineTypeOK'
  BY <1>7 DEF Reject, LineTypeOK, Phases
<1>8. CASE UNCHANGED lineVars
  BY <1>8 DEF lineVars, LineTypeOK
<1> QED
  BY <1>1, <1>2, <1>3, <1>4, <1>5, <1>6, <1>7, <1>8 DEF LineStep, CallStep

LEMMA TypeStep == TypeOK /\ [Next]_vars => TypeOK'
<1> SUFFICES ASSUME TypeOK, [Next]_vars
             PROVE  TypeOK'
  OBVIOUS
<1>1. LineTypeOK'
  BY NextIsLineStep, LineTypeStep DEF TypeOK
<1>2. connection' \in {"up", "down"}
  BY DEF TypeOK, Next, vars, Stack, StackAndDrain, StoreApplies, Reconnect,
         Resolve, Continue, Reject
<1> QED
  BY <1>1, <1>2 DEF TypeOK

(* Every variable of the line keeps its type. *)
THEOREM TypeCorrect == Spec => []TypeOK
BY TypeInit, TypeStep, PTL DEF Spec
-----------------------------------------------------------------------------
(* A stalled line is reported, whatever runs of connect() empty it.  The   *)
(* three disjuncts are what a stall excludes; the last one is what the end *)
(* of a loop establishes for itself, whatever the other loops do.          *)

NotStalled ==
    \/ \E d \in Drainers : Active(d)
    \/ connection = "down"
    \/ fifo = <<>> /\ ~isTrying

LEMMA NotStalledInit == Init => NotStalled
BY DEF Init, LineInit, NotStalled

LEMMA NotStalledStep == LineTypeOK /\ NotStalled /\ [Next]_vars => NotStalled'
<1> SUFFICES ASSUME LineTypeOK, NotStalled, [Next]_vars
             PROVE  NotStalled'
  OBVIOUS
<1>1. ASSUME NEW i \in Items, Stack(i)
      PROVE  NotStalled'
  <2>1. ASSUME NEW d \in Drainers, Active(d)
        PROVE  Active(d)'
    <3>1. d # i
      BY <1>1, <2>1 DEF Stack, Active
    <3> QED
      BY <1>1, <2>1, <3>1 DEF Stack, Active, LineTypeOK
  <2> QED
    BY <1>1, <2>1 DEF Stack, NotStalled
<1>2. ASSUME NEW i \in Items, StackAndDrain(i)
      PROVE  NotStalled'
  <2>1. i \in Drainers /\ Append(fifo, i) \in Seq(Items) /\ TRUE \in BOOLEAN
    BY DEF Drainers, LineTypeOK
  <2> QED
    BY <1>2, <2>1, IterateProgress DEF StackAndDrain, NotStalled
<1>3. ASSUME NEW i \in Items, StoreApplies(i)
      PROVE  NotStalled'
  BY <1>3 DEF StoreApplies, NotStalled, Active
<1>4. ASSUME NEW r \in Runs, Reconnect(r)
      PROVE  NotStalled'
  <2>1. r \in Drainers /\ fifo \in Seq(Items) /\ TRUE \in BOOLEAN
    BY DEF Drainers, LineTypeOK
  <2> QED
    BY <1>4, <2>1, IterateProgress DEF Reconnect, Drain, NotStalled
<1>5. ASSUME NEW d \in Drainers, Resolve(d)
      PROVE  NotStalled'
  <2>1. Shift(fifo) \in Seq(Items) /\ isTrying \in BOOLEAN
    BY ShiftType DEF LineTypeOK
  <2>2. CASE Iterate(d, Shift(fifo), current[d], isTrying)
    BY <2>1, <2>2, IterateProgress DEF NotStalled
  <2>3. CASE phase' = [phase EXCEPT ![d] = "shifted"]
    BY <2>3 DEF NotStalled, Active, LineTypeOK
  <2> QED
    BY <1>5, <2>2, <2>3 DEF Resolve
<1>6. ASSUME NEW d \in Drainers, Continue(d)
      PROVE  NotStalled'
  <2>1. fifo \in Seq(Items) /\ isTrying \in BOOLEAN
    BY DEF LineTypeOK
  <2> QED
    BY <1>6, <2>1, IterateProgress DEF Continue, NotStalled
<1>7. ASSUME NEW d \in Drainers, Reject(d)
      PROVE  NotStalled'
  BY <1>7 DEF Reject, NotStalled
<1>8. CASE UNCHANGED vars
  BY <1>8 DEF vars, lineVars, NotStalled, Active
<1> QED
  BY <1>1, <1>2, <1>3, <1>4, <1>5, <1>6, <1>7, <1>8 DEF Next

(* While no loop runs, a write waits or is made to wait only with the      *)
(* connection reported down.                                               *)
THEOREM StallIsReported == Spec => []StallReported
<1>1. NotStalled => StallReported
  BY DEF NotStalled, StallReported, Stalled
<1>2. TypeOK => LineTypeOK
  BY DEF TypeOK
<1> QED
  BY <1>1, <1>2, TypeCorrect, NotStalledInit, NotStalledStep, PTL DEF Spec
-----------------------------------------------------------------------------
(* One loop at a time: LoneInv is kept by every step after which no two    *)
(* loops are in flight.  First what each part of it needs of a step.       *)

LEMMA LineFacts ==
    ASSUME NEW line \in Seq(Items), line # <<>>
    PROVE  /\ Len(line) \in Nat \ {0}
           /\ Head(line) = line[1]
           /\ Tail(line) \in Seq(Items)
           /\ Len(Tail(line)) = Len(line) - 1
           /\ \A k \in 1..Len(Tail(line)) : Tail(line)[k] = line[k + 1]
BY HeadTailProperties, EmptySeq

(* Only the loop d is in flight before and after its test, flag raised.    *)
LEMMA LockIterate ==
    ASSUME LineTypeOK,
           NEW d \in Drainers, NEW line \in Seq(Items), NEW r,
           Iterate(d, line, r, TRUE),
           \A e \in Drainers : Active(e) => e = d
    PROVE  LockInv' /\ FlagInv'
<1>1. CASE line # <<>> /\ Send(d, Head(line), TRUE)
  <2>1. /\ phase' = [phase EXCEPT ![d] = "sent"]
        /\ current' = [current EXCEPT ![d] = Head(line)]
        /\ isTrying' = TRUE
        /\ fifo' = line
    BY <1>1 DEF Send, Iterate
  <2>2. \A e \in Drainers : Active(e)' => e = d
    BY <2>1 DEF Active, LineTypeOK
  <2> QED
    BY <1>1, <2>1, <2>2 DEF LockInv, FlagInv, AtMostOneDrain, Active, LineTypeOK
<1>2. CASE line = <<>> /\ Leave(d)
  <2>1. phase' = [phase EXCEPT ![d] = "done"] /\ isTrying' = FALSE /\ fifo' = <<>>
    BY <1>2 DEF Leave, Iterate
  <2>2. \A e \in Drainers : ~Active(e)'
    BY <2>1 DEF Active, LineTypeOK
  <2> QED
    BY <2>1, <2>2 DEF LockInv, FlagInv, AtMostOneDrain, Active
<1> QED
  BY <1>1, <1>2 DEF Iterate

(* No step takes a call back to idle. *)
LEMMA NotIdleAgain ==
    ASSUME LineTypeOK,
           NEW d \in Drainers, NEW line, NEW r, NEW raised,
           Iterate(d, line, r, raised)
    PROVE  /\ phase'[d] # "idle"
           /\ \A e \in Drainers : e # d => phase'[e] = phase[e]
BY DEF Iterate, Send, Leave, LineTypeOK

(* A new write at both ends keeps the line the end of the accepted ones.   *)
LEMMA QueueAppend ==
    ASSUME LineTypeOK, QueueInv,
           NEW i \in Items, phase[i] = "idle",
           fifo' = Append(fifo, i),
           accepted' = Append(accepted, i),
           phase'[i] # "idle",
           \A e \in Drainers : e # i => phase'[e] = phase[e]
    PROVE  QueueInv' /\ Shifted' = Shifted /\ Shifted \in Nat
<1>1. fifo \in Seq(Items) /\ accepted \in Seq(Items)
  BY DEF LineTypeOK
<1>2. /\ Len(fifo') = Len(fifo) + 1
      /\ \A k \in 1..Len(fifo) : fifo'[k] = fifo[k]
      /\ fifo'[Len(fifo) + 1] = i
  BY <1>1, AppendProperties
<1>3. /\ Len(accepted') = Len(accepted) + 1
      /\ \A k \in 1..Len(accepted) : accepted'[k] = accepted[k]
      /\ accepted'[Len(accepted) + 1] = i
  BY <1>1, AppendProperties
<1>4. Len(fifo) \in Nat /\ Len(accepted) \in Nat
  BY <1>1
<1>5. \A k \in 1..Len(accepted) : accepted[k] \in Items /\ accepted[k] # i
  BY <1>1, ElementOfSeq DEF QueueInv
<1>6. Shifted' = Shifted /\ Shifted \in Nat /\ Len(fifo') <= Len(accepted')
  BY <1>2, <1>3, <1>4 DEF Shifted, QueueInv
<1>7. ASSUME NEW k \in 1..Len(fifo')
      PROVE  fifo'[k] = accepted'[Shifted' + k]
  <2>1. CASE k \in 1..Len(fifo)
    <3>1. Shifted + k \in 1..Len(accepted)
      BY <2>1, <1>4, <1>6 DEF Shifted
    <3> QED
      BY <2>1, <3>1, <1>2, <1>3, <1>6 DEF QueueInv
  <2>2. CASE k = Len(fifo) + 1
    BY <2>2, <1>2, <1>3, <1>4, <1>6 DEF Shifted
  <2>3. k \in 1..Len(fifo) \/ k = Len(fifo) + 1
    BY <1>2, <1>4
  <2> QED
    BY <2>1, <2>2, <2>3
<1>8. ASSUME NEW k \in 1..Len(accepted'), NEW l \in 1..Len(accepted'),
             accepted'[k] = accepted'[l]
      PROVE  k = l
  BY <1>3, <1>4, <1>5, <1>8 DEF QueueInv
<1>9. ASSUME NEW k \in 1..Len(accepted')
      PROVE  phase'[accepted'[k]] # "idle"
  <2>1. CASE k \in 1..Len(accepted)
    BY <2>1, <1>3, <1>5 DEF QueueInv, Drainers
  <2>2. CASE k = Len(accepted) + 1
    BY <2>2, <1>3
  <2> QED
    BY <2>1, <2>2, <1>3, <1>4
<1> QED
  BY <1>6, <1>7, <1>8, <1>9 DEF QueueInv

(* A line that stays or is shifted remains the end of the accepted writes. *)
LEMMA QueueShift ==
    ASSUME LineTypeOK, QueueInv,
           fifo' = fifo \/ (fifo # <<>> /\ fifo' = Tail(fifo)),
           accepted' = accepted,
           \A e \in Drainers : phase[e] # "idle" => phase'[e] # "idle"
    PROVE  QueueInv'
<1>1. fifo \in Seq(Items) /\ accepted \in Seq(Items)
  BY DEF LineTypeOK
<1>2. Len(fifo) \in Nat /\ Len(accepted) \in Nat
  BY <1>1
<1>3. \A k \in 1..Len(accepted) : phase'[accepted[k]] # "idle"
  BY <1>1, ElementOfSeq DEF QueueInv, Drainers
<1>4. CASE fifo' = fifo
  BY <1>3, <1>4 DEF QueueInv, Shifted
<1>5. CASE fifo # <<>> /\ fifo' = Tail(fifo)
  <2>1. /\ Len(fifo) \in Nat \ {0}
        /\ Len(fifo') = Len(fifo) - 1
        /\ \A k \in 1..Len(fifo') : fifo'[k] = fifo[k + 1]
    BY <1>1, <1>5, LineFacts
  <2>2. Shifted' = Shifted + 1 /\ Shifted \in Nat /\ Len(fifo') <= Len(accepted')
    BY <1>2, <2>1 DEF Shifted, QueueInv
  <2>3. ASSUME NEW k \in 1..Len(fifo')
        PROVE  fifo'[k] = accepted'[Shifted' + k]
    <3>1. k + 1 \in 1..Len(fifo) /\ Shifted' + k = Shifted + (k + 1)
      BY <2>1, <2>2
    <3> QED
      BY <2>1, <3>1 DEF QueueInv
  <2> QED
    BY <1>3, <2>2, <2>3 DEF QueueInv
<1> QED
  BY <1>4, <1>5

(* Sending the head of the line keeps the log within one of the line.      *)
LEMMA LogSend ==
    ASSUME LineTypeOK', QueueInv',
           Len(stored)' \in {Shifted', Shifted' + 1},
           Len(stored)' <= Len(accepted)',
           \A k \in 1..Len(stored)' : stored'[k] = accepted'[k],
           \A x \in sent : \E k \in 1..Len(accepted)' : k <= Shifted' + 1 /\ accepted'[k] = x,
           sent' \subseteq sent \/ (fifo' # <<>> /\ sent' = sent \cup {Head(fifo')})
    PROVE  LogInv'
<1>1. CASE sent' \subseteq sent
  BY <1>1 DEF LogInv
<1>2. CASE fifo' # <<>> /\ sent' = sent \cup {Head(fifo')}
  <2>1. fifo' \in Seq(Items) /\ accepted' \in Seq(Items)
    BY DEF LineTypeOK
  <2>2. Len(fifo)' \in Nat \ {0} /\ Head(fifo') = fifo'[1]
    BY <1>2, <2>1, LineFacts
  <2>3. Len(accepted)' \in Nat
    BY <2>1
  <2>4. Shifted' + 1 \in 1..Len(accepted)'
    BY <2>2, <2>3 DEF QueueInv, Shifted
  <2>5. Head(fifo') = accepted'[Shifted' + 1]
    BY <2>2 DEF QueueInv
  <2>6. \E k \in 1..Len(accepted)' : k <= Shifted' + 1 /\ accepted'[k] = Head(fifo')
    BY <2>4, <2>5
  <2> QED
    BY <1>2, <2>6 DEF LogInv
<1> QED
  BY <1>1, <1>2

(* What the test of the loop may send. *)
LEMMA IterateSends ==
    ASSUME NEW d, NEW line, NEW r, NEW raised,
           Iterate(d, line, r, raised)
    PROVE  sent' \subseteq sent \/ (fifo' # <<>> /\ sent' = sent \cup {Head(fifo')})
BY DEF Iterate, Send, Leave

(* A call's loop that tests its line keeps OwnFirst if what it sends is its *)
(* own write, or that is stored already.                                   *)
LEMMA OwnIterate ==
    ASSUME LineTypeOK, OwnFirst,
           NEW d \in Drainers, NEW line, NEW r \in Items \cup {None}, NEW raised,
           Iterate(d, line, r, raised),
           ToSet(stored) \subseteq ToSet(stored)',
           d \in Items => d \in ToSet(stored)' \/ (r = None /\ Head(line) = d)
    PROVE  OwnFirst'
<1> SUFFICES ASSUME NEW i \in Items
             PROVE  /\ phase'[i] = "sent" => current'[i] = i \/ i \in ToSet(stored)'
                    /\ phase'[i] = "shifted" \/ result'[i] # None => i \in ToSet(stored)'
  BY DEF OwnFirst
<1>1. result' = [result EXCEPT ![d] = r]
  BY DEF Iterate
<1>2. i \in Drainers
  BY DEF Drainers
<1>3. CASE i = d
  <2>1. phase'[i] # "shifted" /\ result'[i] = r
    BY <1>1, <1>2, <1>3 DEF Iterate, Send, Leave, LineTypeOK
  <2>2. phase'[i] = "sent" => current'[i] = Head(line)
    BY <1>2, <1>3 DEF Iterate, Send, Leave, LineTypeOK
  <2> QED
    BY <1>3, <2>1, <2>2
<1>4. CASE i # d
  <2>1. phase'[i] = phase[i] /\ result'[i] = result[i] /\ current'[i] = current[i]
    BY <1>1, <1>2, <1>4 DEF Iterate, Send, Leave, LineTypeOK
  <2> QED
    BY <2>1 DEF OwnFirst
<1> QED
  BY <1>3, <1>4

LEMMA WriteOnlyInit == LineInit => WriteOnlyInv
<1> SUFFICES ASSUME LineInit
             PROVE  WriteOnlyInv
  OBVIOUS
<1>1. /\ fifo = <<>> /\ accepted = <<>> /\ stored = <<>> /\ sent = {}
      /\ isTrying = FALSE
      /\ \A d \in Drainers : phase[d] = "idle" /\ result[d] = None
  BY DEF LineInit
<1>2. LockInv
  BY <1>1 DEF LockInv, AtMostOneDrain, Active
<1>3. QueueInv /\ LogInv
  BY <1>1 DEF QueueInv, LogInv, Shifted
<1>4. OwnFirst
  BY <1>1 DEF OwnFirst, Drainers
<1> QED
  BY <1>1, <1>2, <1>3, <1>4 DEF WriteOnlyInv, LoneInv, FlagInv, Active

(* A write that finds the flag raised. *)
LEMMA LoneStack ==
    ASSUME LineTypeOK, LineTypeOK', LoneInv, NEW i \in Items, Stack(i)
    PROVE  LoneInv'
<1> USE DEF LoneInv
<1>1. /\ phase[i] = "idle" /\ isTrying /\ isTrying' = isTrying
      /\ fifo' = Append(fifo, i) /\ accepted' = Append(accepted, i)
      /\ stored' = stored /\ sent' = sent /\ current' = current /\ result' = result
  BY DEF Stack
<1>2. /\ phase'[i] = "done"
      /\ \A e \in Drainers : e # i => phase'[e] = phase[e]
  BY DEF Stack, LineTypeOK
<1>3. QueueInv' /\ Shifted' = Shifted /\ Shifted \in Nat
  BY <1>1, <1>2, QueueAppend
<1>4. fifo \in Seq(Items) /\ accepted \in Seq(Items)
  BY DEF LineTypeOK
<1>5. LockInv'
  <2>1. ASSUME NEW d \in Drainers, Active(d)'
        PROVE  Active(d) /\ d # i
    BY <1>2, <2>1 DEF Active
  <2>2. ASSUME NEW d \in Drainers, phase'[d] = "sent"
        PROVE  fifo' # <<>> /\ current'[d] = Head(fifo')
    <3>1. phase[d] = "sent" /\ fifo # <<>> /\ current[d] = Head(fifo)
      BY <1>2, <2>2 DEF LockInv
    <3>2. Len(fifo) \in Nat \ {0} /\ Head(fifo) = fifo[1]
      BY <1>4, <3>1, LineFacts
    <3>3. fifo' \in Seq(Items) /\ fifo' # <<>> /\ fifo'[1] = fifo[1]
      BY <1>1, <1>4, <3>2, AppendProperties
    <3>4. Head(fifo') = fifo'[1]
      BY <3>3, LineFacts
    <3> QED
      BY <1>1, <3>1, <3>2, <3>3, <3>4
  <2> QED
    BY <1>1, <2>1, <2>2 DEF LockInv, AtMostOneDrain
<1>6. LogInv'
  <2>1. Len(accepted') = Len(accepted) + 1 /\ Len(accepted) \in Nat
    BY <1>1, <1>4, AppendProperties
  <2>2. \A k \in 1..Len(accepted) : accepted'[k] = accepted[k]
    BY <1>1, <1>4, AppendProperties
  <2>3. Len(stored) \in Nat /\ stored' = stored
    BY <1>1 DEF LineTypeOK
  <2>4. \A k \in 1..Len(stored) : stored'[k] = accepted'[k]
    BY <2>1, <2>2, <2>3 DEF LogInv
  <2>5. \A x \in sent : \E k \in 1..Len(accepted') : k <= Shifted' + 1 /\ accepted'[k] = x
    BY <1>3, <2>1, <2>2 DEF LogInv
  <2> QED
    BY <1>1, <1>3, <2>1, <2>3, <2>4, <2>5 DEF LogInv
<1>7. OwnFirst'
  BY <1>1, <1>2 DEF OwnFirst, Drainers
<1> QED
  BY <1>3, <1>5, <1>6, <1>7

(* A write that finds the flag down: the line is empty, and if a loop ran  *)
(* there would be two.                                                     *)
LEMMA LoneStackAndDrain ==
    ASSUME LineTypeOK, LineTypeOK', LoneInv, AtMostOneDrain', NEW i \in Items, StackAndDrain(i)
    PROVE  LoneInv'
<1> USE DEF LoneInv
<1>1. /\ phase[i] = "idle" /\ ~isTrying /\ i \in Drainers
      /\ accepted' = Append(accepted, i) /\ stored' = stored
      /\ Iterate(i, Append(fifo, i), None, TRUE)
  BY DEF StackAndDrain, Drainers
<1>2. fifo = <<>> /\ \A d \in Drainers : Active(d) => d = i
  <2>1. phase' = [phase EXCEPT ![i] = "sent"] /\ fifo = <<>>
    BY <1>1 DEF LockInv, Iterate, Send
  <2> QED
    BY <1>1, <2>1 DEF AtMostOneDrain, Active, LineTypeOK
<1>3. Append(fifo, i) \in Seq(Items) /\ Append(fifo, i) # <<>> /\ Head(Append(fifo, i)) = i
  BY <1>2
<1>4. fifo' = Append(fifo, i)
  BY <1>1 DEF Iterate
<1>5. LockInv'
  BY <1>1, <1>2, <1>3, LockIterate
<1>6. phase'[i] # "idle" /\ \A e \in Drainers : e # i => phase'[e] = phase[e]
  BY <1>1, NotIdleAgain
<1>7. QueueInv' /\ Shifted' = Shifted /\ Shifted \in Nat
  BY <1>1, <1>4, <1>6, QueueAppend
<1>8. LogInv'
  <2>1. accepted \in Seq(Items) /\ Len(accepted') = Len(accepted) + 1 /\ Len(accepted) \in Nat
    BY <1>1, AppendProperties DEF LineTypeOK
  <2>2. \A k \in 1..Len(accepted) : accepted'[k] = accepted[k]
    BY <1>1, <2>1, AppendProperties
  <2>3. Len(stored) \in Nat /\ stored' = stored
    BY <1>1 DEF LineTypeOK
  <2>4. \A k \in 1..Len(stored)' : stored'[k] = accepted'[k]
    BY <2>1, <2>2, <2>3 DEF LogInv
  <2>5. \A x \in sent : \E k \in 1..Len(accepted') : k <= Shifted' + 1 /\ accepted'[k] = x
    BY <1>7, <2>1, <2>2 DEF LogInv
  <2>6. Len(stored)' \in {Shifted', Shifted' + 1} /\ Len(stored)' <= Len(accepted)'
    BY <1>7, <2>1, <2>3 DEF LogInv
  <2> QED
    BY <1>1, <1>7, <2>4, <2>5, <2>6, IterateSends, LogSend
<1>9. OwnFirst'
  BY <1>1, <1>3, OwnIterate
<1> QED
  BY <1>5, <1>7, <1>8, <1>9

(* The store applies the only write it may: the head of the line.          *)
LEMMA AppliesHead ==
    ASSUME LineTypeOK, LoneInv, NEW x \in Items, StoreApplies(x)
    PROVE  /\ Len(stored) = Shifted
           /\ Len(stored) + 1 \in 1..Len(accepted)
           /\ accepted[Len(stored) + 1] = x
<1> USE DEF LoneInv
<1>1. stored \in Seq(Items) /\ Len(stored) \in Nat /\ Len(accepted) \in Nat /\ Len(fifo) \in Nat
  BY DEF LineTypeOK
<1>2. x \in sent /\ x \notin ToSet(stored)
  BY DEF StoreApplies
<1>3. PICK k \in 1..Len(accepted) : k <= Shifted + 1 /\ accepted[k] = x
  BY <1>2 DEF LogInv
<1>4. k \notin 1..Len(stored)
  <2>1. SUFFICES ASSUME k \in 1..Len(stored)
                 PROVE  stored[k] \in ToSet(stored)
    BY <1>2, <1>3 DEF LogInv
  <2> QED
    BY <1>1, <2>1 DEF ToSet
<1> QED
  BY <1>1, <1>3, <1>4 DEF LogInv, Shifted

LEMMA LoneStoreApplies ==
    ASSUME LineTypeOK, LoneInv, NEW x \in Items, StoreApplies(x)
    PROVE  LoneInv'
<1> USE DEF LoneInv
<1>1. /\ stored' = Append(stored, x)
      /\ UNCHANGED <<fifo, isTrying, phase, current, result, sent, accepted>>
  BY DEF StoreApplies
<1>2. stored \in Seq(Items) /\ Len(stored) \in Nat
  BY DEF LineTypeOK
<1>3. /\ Len(stored') = Len(stored) + 1
      /\ \A k \in 1..Len(stored) : stored'[k] = stored[k]
      /\ stored'[Len(stored) + 1] = x
  BY <1>1, <1>2, AppendProperties
<1>4. LockInv' /\ QueueInv'
  BY <1>1 DEF LockInv, AtMostOneDrain, Active, QueueInv, Shifted
<1>5. LogInv'
  BY <1>1, <1>2, <1>3, AppliesHead DEF LogInv, Shifted
<1>6. ToSet(stored) \subseteq ToSet(stored')
  <2>1. DOMAIN stored = 1..Len(stored) /\ DOMAIN stored' = 1..Len(stored')
    BY <1>1, <1>2, AppendProperties
  <2> QED
    BY <1>2, <1>3, <2>1 DEF ToSet
<1>7. OwnFirst'
  BY <1>1, <1>6 DEF OwnFirst
<1> QED
  BY <1>4, <1>5, <1>7

(* The answer to the only request in flight: its write is in the store, so *)
(* shifting the line brings the line level with the log.                   *)
LEMMA ResolvedHead ==
    ASSUME LineTypeOK, LoneInv, NEW d \in Drainers, Resolve(d)
    PROVE  /\ fifo # <<>>
           /\ Shift(fifo) = Tail(fifo)
           /\ Len(Tail(fifo)) = Len(fifo) - 1
           /\ Len(stored) = Shifted + 1
<1> USE DEF LoneInv
<1>1. /\ fifo \in Seq(Items) /\ stored \in Seq(Items) /\ Len(stored) \in Nat
      /\ Len(accepted) \in Nat
  BY DEF LineTypeOK
<1>2. fifo # <<>> /\ current[d] = Head(fifo)
  BY DEF Resolve, LockInv
<1>3. Len(fifo) \in Nat \ {0} /\ Head(fifo) = fifo[1] /\ Len(Tail(fifo)) = Len(fifo) - 1
  BY <1>1, <1>2, LineFacts
<1>4. Shifted \in Nat /\ Shifted + 1 \in 1..Len(accepted) /\ fifo[1] = accepted[Shifted + 1]
  BY <1>1, <1>3 DEF Shifted, QueueInv
<1>5. PICK k \in 1..Len(stored) : stored[k] = current[d]
  BY <1>1 DEF Resolve, ToSet
<1>6. k \in 1..Len(accepted) /\ accepted[k] = accepted[Shifted + 1]
  BY <1>1, <1>2, <1>3, <1>4, <1>5 DEF LogInv
<1>7. k = Shifted + 1
  BY <1>4, <1>6 DEF QueueInv
<1> QED
  BY <1>1, <1>2, <1>3, <1>4, <1>5, <1>7 DEF Shift, LogInv

LEMMA LoneResolve ==
    ASSUME LineTypeOK, LineTypeOK', LoneInv, NEW d \in Drainers, Resolve(d)
    PROVE  LoneInv'
<1> USE DEF LoneInv
<1>1. /\ phase[d] = "sent" /\ isTrying
      /\ stored' = stored /\ accepted' = accepted
      /\ \A e \in Drainers : Active(e) => e = d
  BY DEF Resolve, LockInv, AtMostOneDrain, Active
<1>2. /\ fifo # <<>> /\ Shift(fifo) = Tail(fifo) /\ Len(Tail(fifo)) = Len(fifo) - 1
      /\ Len(stored) = Shifted + 1
  BY ResolvedHead
<1>3. fifo' = Tail(fifo)
  BY <1>2 DEF Resolve, Iterate
<1>4. Len(fifo) \in Nat /\ Len(accepted) \in Nat /\ Len(stored) \in Nat
  BY DEF LineTypeOK
<1>5. Shifted' = Shifted + 1
  BY <1>1, <1>2, <1>3, <1>4 DEF Shifted
<1>6. d \in Items => d \in ToSet(stored)
  BY <1>1 DEF Resolve, OwnFirst
<1>7. /\ Len(stored)' \in {Shifted', Shifted' + 1}
      /\ Len(stored)' <= Len(accepted)'
      /\ \A k \in 1..Len(stored)' : stored'[k] = accepted'[k]
      /\ \A x \in sent : \E k \in 1..Len(accepted)' : k <= Shifted' + 1 /\ accepted'[k] = x
  BY <1>1, <1>2, <1>4, <1>5 DEF LogInv
<1>8. CASE /\ YieldsAfterShift
           /\ fifo' = Shift(fifo)
           /\ phase' = [phase EXCEPT ![d] = "shifted"]
           /\ UNCHANGED <<isTrying, current, result, sent>>
  <2>1. /\ phase'[d] = "shifted"
        /\ \A e \in Drainers : e # d => phase'[e] = phase[e]
    BY <1>8 DEF LineTypeOK
  <2>2. LockInv'
    BY <1>1, <1>8, <2>1 DEF LockInv, AtMostOneDrain, Active
  <2>3. QueueInv'
    BY <1>1, <1>2, <1>3, <2>1, QueueShift
  <2>4. LogInv'
    BY <1>7, <1>8, <2>3, LogSend
  <2>5. OwnFirst'
    BY <1>1, <1>6, <1>8, <2>1 DEF OwnFirst, Drainers
  <2> QED
    BY <2>2, <2>3, <2>4, <2>5
<1>9. CASE Iterate(d, Shift(fifo), current[d], isTrying)
  <2>1. Shift(fifo) \in Seq(Items) /\ current[d] \in Items \cup {None} /\ isTrying = TRUE
    BY <1>1, ShiftType DEF LineTypeOK
  <2>2. Iterate(d, Shift(fifo), current[d], TRUE)
    BY <1>9, <2>1
  <2>3. LockInv'
    BY <1>1, <2>1, <2>2, LockIterate
  <2>4. QueueInv'
    BY <1>1, <1>2, <1>3, <2>2, NotIdleAgain, QueueShift
  <2>5. LogInv'
    BY <1>7, <2>2, <2>4, IterateSends, LogSend
  <2>6. OwnFirst'
    BY <1>1, <1>6, <2>1, <2>2, OwnIterate
  <2> QED
    BY <2>3, <2>4, <2>5, <2>6
<1> QED
  BY <1>8, <1>9 DEF Resolve

LEMMA LoneContinue ==
    ASSUME LineTypeOK, LineTypeOK', LoneInv, NEW d \in Drainers, Continue(d)
    PROVE  LoneInv'
<1> USE DEF LoneInv
<1>1. /\ phase[d] = "shifted"
      /\ stored' = stored /\ accepted' = accepted
      /\ \A e \in Drainers : Active(e) => e = d
  BY DEF Continue, LockInv, AtMostOneDrain, Active
<1>2. fifo \in Seq(Items) /\ current[d] \in Items \cup {None}
  BY DEF LineTypeOK
<1>3. Iterate(d, fifo, current[d], TRUE) /\ fifo' = fifo
  <2>1. fifo # <<>> => isTrying = TRUE
    BY DEF LockInv, LineTypeOK
  <2> QED
    BY <2>1 DEF Continue, Iterate
<1>4. LockInv'
  BY <1>1, <1>2, <1>3, LockIterate
<1>5. QueueInv'
  BY <1>1, <1>3, NotIdleAgain, QueueShift
<1>6. Shifted' = Shifted
  BY <1>1, <1>3 DEF Shifted
<1>7. LogInv'
  BY <1>1, <1>3, <1>5, <1>6, IterateSends, LogSend DEF LogInv
<1>8. d \in Items => d \in ToSet(stored)
  BY <1>1 DEF OwnFirst
<1>9. OwnFirst'
  BY <1>1, <1>2, <1>3, <1>8, OwnIterate
<1> QED
  BY <1>4, <1>5, <1>7, <1>9

LEMMA LoneReject ==
    ASSUME LineTypeOK, LoneInv, NEW d \in Drainers, Reject(d)
    PROVE  LoneInv'
<1> USE DEF LoneInv
<1>1. phase[d] = "sent" /\ UNCHANGED <<fifo, isTrying, sent, stored, accepted>>
  BY DEF Reject
<1>2. /\ phase'[d] = "failed" /\ result'[d] = None
      /\ \A e \in Drainers : e # d => /\ phase'[e] = phase[e]
                                      /\ current'[e] = current[e]
                                      /\ result'[e] = result[e]
  BY DEF Reject, LineTypeOK
<1>3. LockInv'
  BY <1>1, <1>2 DEF LockInv, AtMostOneDrain, Active
<1>4. QueueInv'
  BY <1>1, <1>2, QueueShift
<1>5. LogInv'
  BY <1>1 DEF LogInv, Shifted
<1>6. OwnFirst'
  BY <1>1, <1>2 DEF OwnFirst, Drainers
<1> QED
  BY <1>3, <1>4, <1>5, <1>6

(* A run of connect() that drains alone, or finds the line empty.          *)
LEMMA LoneDrain ==
    ASSUME LineTypeOK, LineTypeOK', LoneInv, AtMostOneDrain', NEW r \in Runs, Drain(r)
    PROVE  LoneInv'
<1> USE DEF LoneInv
<1>1. /\ r \in Drainers /\ ~Active(r) /\ Iterate(r, fifo, None, TRUE)
      /\ fifo' = fifo /\ stored' = stored /\ accepted' = accepted
  BY DEF Drain, Iterate, Drainers
<1>2. fifo \in Seq(Items)
  BY DEF LineTypeOK
<1>3. LockInv'
  <2>1. CASE fifo # <<>> /\ Send(r, Head(fifo), TRUE)
    <3>1. \A e \in Drainers : Active(e) => e = r
      BY <1>1, <2>1 DEF Send, AtMostOneDrain, Active, LineTypeOK
    <3> QED
      BY <1>1, <1>2, <3>1, LockIterate
  <2>2. CASE fifo = <<>> /\ Leave(r)
    BY <1>1, <2>2 DEF Leave, LockInv, LineTypeOK
  <2> QED
    BY <1>1, <2>1, <2>2 DEF Iterate
<1>4. QueueInv'
  BY <1>1, NotIdleAgain, QueueShift
<1>5. Shifted' = Shifted
  BY <1>1 DEF Shifted
<1>6. LogInv'
  BY <1>1, <1>4, <1>5, IterateSends, LogSend DEF LogInv
<1>7. OwnFirst'
  BY <1>1, LineAssumption, OwnIterate
<1> QED
  BY <1>3, <1>4, <1>6, <1>7

LEMMA LoneStep == LineTypeOK /\ LoneInv /\ LineStep /\ AtMostOneDrain' => LoneInv'
<1> SUFFICES ASSUME LineTypeOK, LoneInv, LineStep, AtMostOneDrain'
             PROVE  LoneInv'
  OBVIOUS
<1>1. LineTypeOK'
  BY LineTypeStep
<1>2. ASSUME NEW i \in Items, Stack(i) \/ StackAndDrain(i) \/ StoreApplies(i)
      PROVE  LoneInv'
  BY <1>1, <1>2, LoneStack, LoneStackAndDrain, LoneStoreApplies
<1>3. ASSUME NEW r \in Runs, Drain(r)
      PROVE  LoneInv'
  BY <1>1, <1>3, LoneDrain
<1>4. ASSUME NEW d \in Drainers, Resolve(d) \/ Continue(d) \/ Reject(d)
      PROVE  LoneInv'
  BY <1>1, <1>4, LoneResolve, LoneContinue, LoneReject
<1>5. CASE UNCHANGED lineVars
  BY <1>5 DEF lineVars, LoneInv, LockInv, AtMostOneDrain, Active,
              QueueInv, LogInv, Shifted, OwnFirst
<1> QED
  BY <1>2, <1>3, <1>4, <1>5 DEF LineStep, CallStep
-----------------------------------------------------------------------------
(* A line that only write calls drain: the flag admits one loop.           *)

LEMMA FlagStep ==
    ASSUME LineTypeOK, WriteOnlyInv, CallStep
    PROVE  AtMostOneDrain' /\ FlagInv'
<1> USE DEF WriteOnlyInv, LoneInv
<1>1. ASSUME NEW i \in Items, Stack(i)
      PROVE  AtMostOneDrain' /\ FlagInv'
  BY <1>1 DEF Stack, LockInv, AtMostOneDrain, FlagInv, Active, LineTypeOK
<1>2. ASSUME NEW i \in Items, StackAndDrain(i)
      PROVE  AtMostOneDrain' /\ FlagInv'
  <2>1. i \in Drainers /\ Append(fifo, i) \in Seq(Items)
    BY DEF Drainers, LineTypeOK
  <2>2. Iterate(i, Append(fifo, i), None, TRUE) /\ \A e \in Drainers : ~Active(e)
    BY <1>2 DEF StackAndDrain, FlagInv
  <2> QED
    BY <2>1, <2>2, LockIterate DEF LockInv
<1>3. ASSUME NEW x \in Items, StoreApplies(x)
      PROVE  AtMostOneDrain' /\ FlagInv'
  BY <1>3 DEF StoreApplies, LockInv, AtMostOneDrain, FlagInv, Active
<1>4. ASSUME NEW d \in Drainers, Resolve(d) \/ Continue(d)
      PROVE  AtMostOneDrain' /\ FlagInv'
  <2>1. Active(d) /\ isTrying = TRUE /\ \A e \in Drainers : Active(e) => e = d
    BY <1>4 DEF Resolve, Continue, LockInv, AtMostOneDrain, FlagInv, Active, LineTypeOK
  <2>2. CASE phase' = [phase EXCEPT ![d] = "shifted"] /\ isTrying' = isTrying
    BY <2>1, <2>2 DEF AtMostOneDrain, FlagInv, Active, LineTypeOK
  <2>3. ASSUME NEW line \in Seq(Items), Iterate(d, line, current[d], TRUE)
        PROVE  AtMostOneDrain' /\ FlagInv'
    BY <2>1, <2>3, LockIterate DEF LockInv
  <2>4. fifo \in Seq(Items) /\ Shift(fifo) \in Seq(Items)
    BY ShiftType DEF LineTypeOK
  <2> QED
    BY <1>4, <2>1, <2>2, <2>3, <2>4 DEF Resolve, Continue
<1>5. ASSUME NEW d \in Drainers, Reject(d)
      PROVE  AtMostOneDrain' /\ FlagInv'
  BY <1>5 DEF Reject, LockInv, AtMostOneDrain, FlagInv, Active, LineTypeOK
<1>6. CASE UNCHANGED lineVars
  BY <1>6 DEF lineVars, LockInv, AtMostOneDrain, FlagInv, Active
<1> QED
  BY <1>1, <1>2, <1>3, <1>4, <1>5, <1>6 DEF CallStep

LEMMA WriteOnlyStep == LineTypeOK /\ WriteOnlyInv /\ CallStep => WriteOnlyInv'
BY FlagStep, LoneStep DEF WriteOnlyInv, LineStep

(* A drain of a line at rest changes nothing that matters to the calls.    *)
LEMMA DrainAtRest ==
    ASSUME LineTypeOK, WriteOnlyInv, fifo = <<>>, \A d \in Drainers : ~Active(d),
           NEW r \in Runs, Drain(r)
    PROVE  WriteOnlyInv' /\ fifo' = <<>> /\ \A d \in Drainers : ~Active(d)'
<1>1. phase' = [phase EXCEPT ![r] = "done"] /\ fifo' = <<>>
  BY DEF Drain, Iterate, Leave
<1>2. \A d \in Drainers : ~Active(d)'
  BY <1>1 DEF Active, LineTypeOK
<1>3. AtMostOneDrain' /\ FlagInv'
  BY <1>2 DEF AtMostOneDrain, FlagInv
<1> QED
  BY <1>1, <1>2, <1>3, LoneStep DEF LineStep, WriteOnlyInv

(* What the calls do starts no loop of a run of connect(). *)
LEMMA CallsAreOfItems ==
    ASSUME LineTypeOK, \A r \in Runs : ~Active(r), CallStep
    PROVE  \A r \in Runs : ~Active(r)'
<1> SUFFICES ASSUME NEW r \in Runs
             PROVE  phase'[r] = phase[r]
  BY DEF Active
<1>1. r \notin Items /\ r \in Drainers /\ ~Active(r)
  BY LineAssumption DEF Drainers
<1>2. ASSUME NEW d \in Drainers, NEW line, NEW x, NEW raised, Iterate(d, line, x, raised), d # r
      PROVE  phase'[r] = phase[r]
  BY <1>1, <1>2, NotIdleAgain
<1>3. ASSUME NEW i \in Items, Stack(i) \/ StackAndDrain(i) \/ StoreApplies(i)
      PROVE  phase'[r] = phase[r]
  BY <1>1, <1>2, <1>3 DEF Stack, StackAndDrain, StoreApplies, LineTypeOK, Drainers
<1>4. ASSUME NEW d \in Drainers, Resolve(d) \/ Continue(d) \/ Reject(d)
      PROVE  phase'[r] = phase[r]
  <2>1. d # r
    BY <1>1, <1>4 DEF Resolve, Continue, Reject, Active
  <2> QED
    BY <1>1, <1>2, <1>4, <2>1 DEF Resolve, Continue, Reject, LineTypeOK
<1>5. CASE UNCHANGED lineVars
  BY <1>5 DEF lineVars
<1> QED
  BY <1>3, <1>4, <1>5 DEF CallStep

(* A run of connect() starts to drain only when no loop is in flight.      *)
DrainsAlone == \A r \in Runs : Drain(r) => \A d \in Drainers : ~Active(d)

LEMMA AloneStep == LineTypeOK /\ WriteOnlyInv /\ LineStep /\ DrainsAlone => WriteOnlyInv'
<1> SUFFICES ASSUME LineTypeOK, WriteOnlyInv, DrainsAlone, NEW r \in Runs, Drain(r)
             PROVE  WriteOnlyInv'
  BY WriteOnlyStep DEF LineStep
<1>1. r \in Drainers /\ fifo \in Seq(Items) /\ \A d \in Drainers : ~Active(d)
  BY DEF DrainsAlone, LineTypeOK, Drainers
<1>2. LockInv' /\ FlagInv'
  BY <1>1, LockIterate DEF Drain
<1> QED
  BY <1>2, LoneStep DEF LineStep, WriteOnlyInv, LockInv

(* Write calls keep apart by the flag, whatever fails: two loops overlap   *)
(* only after connect() has started to drain next to one.                  *)
THEOREM OverlapNeedsConnect == Spec /\ [][DrainsAlone]_vars => []AtMostOneDrain
<1>1. Init => LineTypeOK /\ WriteOnlyInv
  BY TypeInit, WriteOnlyInit DEF TypeOK, Init
<1>2. LineTypeOK /\ WriteOnlyInv /\ [Next]_vars /\ [DrainsAlone]_vars
          => (LineTypeOK /\ WriteOnlyInv)'
  <2>1. CASE UNCHANGED vars
    BY <2>1, WriteOnlyStep, LineTypeStep, NextIsLineStep DEF vars, CallStep, LineStep
  <2>2. CASE DrainsAlone
    BY <2>2, AloneStep, LineTypeStep, NextIsLineStep
  <2> QED
    BY <2>1, <2>2
<1>3. WriteOnlyInv => AtMostOneDrain
  BY DEF WriteOnlyInv, LoneInv, LockInv
<1> QED
  BY <1>1, <1>2, <1>3, PTL DEF Spec

(* So in a line that only write calls drain there is one loop at a time.   *)
THEOREM FlagIsALock ==
    ASSUME Runs = {}
    PROVE  Spec => []AtMostOneDrain
<1>1. DrainsAlone
  BY DEF DrainsAlone
<1> QED
  BY <1>1, OverlapNeedsConnect, PTL
-----------------------------------------------------------------------------
(* What LoneInv gives, for any number of writes and of runs of connect():  *)
(* the promise is kept as long as no two loops empty the line at once,     *)
(* whichever calls and runs start them, fail, and start again.             *)

LEMMA Lone == Spec /\ []AtMostOneDrain => [](LineTypeOK /\ LoneInv)
<1>1. Init => LineTypeOK /\ LoneInv
  BY TypeInit, WriteOnlyInit DEF TypeOK, WriteOnlyInv, Init
<1>2. LineTypeOK /\ LoneInv /\ [Next]_vars /\ AtMostOneDrain' => (LineTypeOK /\ LoneInv)'
  BY NextIsLineStep, LineTypeStep, LoneStep
<1> QED
  BY <1>1, <1>2, PTL DEF Spec

LEMMA OrderFromInv == LineTypeOK /\ LoneInv => StoredInOrder
<1> SUFFICES ASSUME LineTypeOK, LoneInv
             PROVE  StoredInOrder
  OBVIOUS
<1>1. /\ stored \in Seq(Items) /\ accepted \in Seq(Items)
      /\ Len(stored) \in Nat /\ Len(accepted) \in Nat
  BY DEF LineTypeOK
<1>2. Len(stored) <= Len(accepted) /\ \A k \in 1..Len(stored) : stored[k] = accepted[k]
  BY DEF LoneInv, LogInv
<1>3. SubSeq(stored, 1, Len(stored)) = stored
  BY <1>1, SubSeqFull
<1>4. \A k \in 1..Len(stored) : accepted[k] \in Items
  BY <1>1, <1>2, ElementOfSeq
<1>5. /\ SubSeq(accepted, 1, Len(stored)) \in Seq(Items)
      /\ Len(SubSeq(accepted, 1, Len(stored))) = Len(stored)
      /\ \A k \in 1..Len(stored) : SubSeq(accepted, 1, Len(stored))[k] = accepted[k]
  BY <1>1, <1>2, <1>4
<1>6. SubSeq(accepted, 1, Len(stored)) = stored
  BY <1>1, <1>2, <1>5, SeqEqual
<1> QED
  BY <1>2, <1>3, <1>6 DEF StoredInOrder, IsPrefix

LEMMA KeptFromInv == LineTypeOK /\ LoneInv => NothingLost
<1> SUFFICES ASSUME LineTypeOK, LoneInv, NEW k \in 1..Len(accepted)
             PROVE  accepted[k] \in ToSet(fifo) \cup ToSet(stored)
  BY DEF NothingLost, ToSet, LineTypeOK
<1>1. /\ stored \in Seq(Items) /\ fifo \in Seq(Items)
      /\ Len(stored) \in Nat /\ Len(accepted) \in Nat /\ Len(fifo) \in Nat
  BY DEF LineTypeOK
<1>2. CASE k <= Shifted
  <2>1. k \in 1..Len(stored) /\ stored[k] = accepted[k]
    BY <1>1, <1>2 DEF LoneInv, LogInv, Shifted
  <2> QED
    BY <1>1, <2>1 DEF ToSet
<1>3. CASE k > Shifted
  <2>1. k - Shifted \in 1..Len(fifo) /\ fifo[k - Shifted] = accepted[Shifted + (k - Shifted)]
    BY <1>1, <1>3 DEF LoneInv, QueueInv, Shifted
  <2>2. Shifted + (k - Shifted) = k
    BY <1>1 DEF Shifted
  <2> QED
    BY <1>1, <2>1, <2>2 DEF ToSet
<1> QED
  BY <1>1, <1>2, <1>3 DEF Shifted

LEMMA OwnFromInv == LoneInv => ResultMeansStored
BY DEF LoneInv, OwnFirst, ResultMeansStored

(* A batch is lost only where two loops overlap: as long as they do not,   *)
(* every accepted write waits in the line or is in the store.              *)
THEOREM LossNeedsOverlap == Spec /\ []AtMostOneDrain => []NothingLost
BY Lone, KeptFromInv, PTL

(* And so does the order: one loop at a time stores the writes in the      *)
(* order of the calls, across failures and reconnections.                  *)
THEOREM DisorderNeedsOverlap == Spec /\ []AtMostOneDrain => []StoredInOrder
BY Lone, OrderFromInv, PTL

(* And so does a result without a stored write.                            *)
THEOREM StaleResultNeedsOverlap == Spec /\ []AtMostOneDrain => []ResultMeansStored
BY Lone, OwnFromInv, PTL

(* So without runs of connect() the store holds the writes in the order of *)
(* the calls.                                                              *)
THEOREM OrderIsKept ==
    ASSUME Runs = {}
    PROVE  Spec => []StoredInOrder
BY FlagIsALock, DisorderNeedsOverlap, PTL

(* Every accepted write waits in the line or is in the store. *)
THEOREM NoWriteIsLost ==
    ASSUME Runs = {}
    PROVE  Spec => []NothingLost
BY FlagIsALock, LossNeedsOverlap, PTL

(* A call that returns a result has its own write in the store. *)
THEOREM ResultIsOwn ==
    ASSUME Runs = {}
    PROVE  Spec => []ResultMeansStored
BY FlagIsALock, StaleResultNeedsOverlap, PTL
-----------------------------------------------------------------------------
(* The line implements the outbox: a write call accepts, the store's       *)
(* application delivers, every other step of the loops is a stutter.       *)

(* A call that was not made has not been accepted. *)
LEMMA IdleNotAccepted ==
    ASSUME LineTypeOK, LoneInv, NEW i \in Items, phase[i] = "idle"
    PROVE  i \notin ToSet(accepted)
BY DEF LoneInv, QueueInv, ToSet, LineTypeOK

LEMMA StepRefines ==
    ASSUME LineTypeOK, LoneInv, LineStep
    PROVE  [Promise!Next]_(Promise!outboxVars)
<1>1. ASSUME NEW i \in Items, Stack(i) \/ StackAndDrain(i)
      PROVE  Promise!Accept(i)
  <2>1. phase[i] = "idle" /\ accepted' = Append(accepted, i) /\ stored' = stored
    BY <1>1 DEF Stack, StackAndDrain
  <2> QED
    BY <2>1, IdleNotAccepted DEF Promise!Accept, Promise!ToSet, ToSet
<1>2. ASSUME NEW x \in Items, StoreApplies(x)
      PROVE  Promise!Deliver
  <2>1. Len(stored) + 1 \in 1..Len(accepted) /\ accepted[Len(stored) + 1] = x
    BY <1>2, AppliesHead
  <2>2. stored' = Append(stored, x) /\ accepted' = accepted
    BY <1>2 DEF StoreApplies
  <2>3. Len(stored) \in Nat /\ Len(accepted) \in Nat
    BY DEF LineTypeOK
  <2> QED
    BY <2>1, <2>2, <2>3 DEF Promise!Deliver
<1>3. ASSUME NEW r \in Runs, Drain(r)
      PROVE  UNCHANGED Promise!outboxVars
  BY <1>3 DEF Drain, Promise!outboxVars
<1>4. ASSUME NEW d \in Drainers, Resolve(d) \/ Continue(d) \/ Reject(d)
      PROVE  UNCHANGED Promise!outboxVars
  BY <1>4 DEF Resolve, Continue, Reject, Promise!outboxVars
<1>5. CASE UNCHANGED lineVars
  BY <1>5 DEF lineVars, Promise!outboxVars
<1> QED
  BY <1>1, <1>2, <1>3, <1>4, <1>5 DEF LineStep, CallStep, Promise!Next

(* As long as loops do not overlap, the line behaves as the outbox.        *)
THEOREM LoneLoopsImplementOutbox == Spec /\ []AtMostOneDrain => OutboxSpec
<1>1. Init => Promise!Init
  BY DEF Init, LineInit, Promise!Init
<1>2. LineTypeOK /\ LoneInv /\ [Next]_vars => [Promise!Next]_(Promise!outboxVars)
  BY NextIsLineStep, StepRefines
<1> QED
  BY <1>1, <1>2, Lone, PTL DEF Spec, OutboxSpec, Promise!Spec

(* Whatever the number of writes, a line without runs of connect() does.   *)
THEOREM ImplementsOutbox ==
    ASSUME Runs = {}
    PROVE  Spec => OutboxSpec
BY FlagIsALock, LoneLoopsImplementOutbox, PTL
=============================================================================
