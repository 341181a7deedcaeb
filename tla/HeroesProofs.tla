---------------------------- MODULE HeroesProofs ----------------------------
(***************************************************************************)
(* Heroes, for any kills, deliveries, faults and runs of connect(): the    *)
(* order of the hero's stream, and what becomes of the items.  As long as  *)
(* no two loops drain the line at a time its head is what was sent last,   *)
(* so that what a write depends on is stored, or ahead of it.              *)
(***************************************************************************)
EXTENDS Heroes, SequenceTheorems, TLAPS

(* What ever was in the line, was sent, or is stored. *)
Asked(w) == w \in ToSet(fifo) \cup sent \cup ToSet(stored)

(* What is not lost for the store. *)
Waits(w) == w \in ToSet(fifo) \cup ToSet(stored)

Ahead(v, w) ==
    \A i \in 1 .. Len(fifo) :
        fifo[i] = w => Stored(v) \/ \E j \in 1 .. i - 1 : fifo[j] = v

(* What holds of the line until two loops drain it at a time. *)
CauseInv ==
    \A d \in Drops :
        /\ Ahead(Found(d), Dropped(d))
        /\ Dropped(d) \in sent => Stored(Found(d))
        /\ Before(Found(d), Dropped(d))

KeepInv ==
    \A d \in Drops :
        /\ drop[d] = "adding" => Waits(Found(d))
        /\ drop[d] = "done" => Waits(Dropped(d))

LoneInv == Line!LockInv /\ CauseInv /\ KeepInv

(* What is delivered is stored, and what is queued may be delivered. *)
GroupInv ==
    \A k \in Kills :
        /\ group[k] # "none" => Stored(Killed(k))
        /\ group[k] = "none" => delivered[k] = 0
        /\ group[k] = "queued" => delivered[k] < MaxDeliveries

(* A command was started by a delivery, and an item is found by a command. *)
Begun == {"adding", "done", "failed", "lost"}

DropInv ==
    \A d \in Drops :
        /\ drop[d] # "none" => d[2] <= delivered[d[1]]
        /\ Asked(Found(d)) => drop[d] \in Begun
        /\ Before(Killed(d[1]), Found(d))

(* A delivery that nobody answers took a fault. *)
FaultInv ==
    autoAck # "absent" => \A k \in Kills :
        /\ delivered[k] <= 1 + faults
        /\ group[k] = "queued" => delivered[k] <= faults
        /\ group[k] = "inFlight" /\ ~Attended(k) => delivered[k] <= faults

Inv ==
    /\ TypeOK
    /\ GroupInv
    /\ DropInv
    /\ FaultInv
    /\ ~overlapped => LoneInv
-----------------------------------------------------------------------------
(* The line. *)

LP == INSTANCE WaitingLineProofs WITH Items <- Writes, YieldsAfterShift <- TRUE

LoopStep ==
    \/ \E d \in Line!Drainers : Line!Answered(d) \/ Line!Continue(d)
    \/ \E r \in Runs : Line!Reconnect(r)

LineMove == LoopStep \/ \E w \in Writes : Write(w) \/ Line!StoreApplies(w)

LEMMA LineAssumed == LP!LineAssumption
  BY HeroesAssumption DEF LP!LineAssumption

LEMMA MoveTypes ==
    ASSUME Line!TypeOK, LineMove
    PROVE  Line!TypeOK'
<1>1. LP!TypeOK
  BY DEF Line!TypeOK, LP!TypeOK, Line!LineTypeOK, LP!LineTypeOK, Line!Drainers, LP!Drainers,
         Line!Phases, LP!Phases
<1>2. LP!Next
  BY DEF LineMove, LoopStep, Write, Line!Answered, Line!Drainers, LP!Drainers,
         Line!Stack, Line!StackAndDrain, Line!StoreApplies, Line!Resolve, Line!Continue,
         Line!Reject, Line!Reconnect, Line!Drain, Line!Active, Line!Iterate, Line!Send,
         Line!Leave, Line!Shift, Line!ToSet,
         LP!Next, LP!Stack, LP!StackAndDrain, LP!StoreApplies, LP!Resolve, LP!Continue,
         LP!Reject, LP!Reconnect, LP!Drain, LP!Active, LP!Iterate, LP!Send,
         LP!Leave, LP!Shift, LP!ToSet
<1>3. LP!TypeOK'
  BY <1>1, <1>2, LineAssumed, LP!TypeStep
<1> QED
  BY <1>3 DEF Line!TypeOK, LP!TypeOK, Line!LineTypeOK, LP!LineTypeOK, Line!Drainers, LP!Drainers,
              Line!Phases, LP!Phases

(* A loop that tests its line sends the head, or leaves. *)
LEMMA Iterates ==
    ASSUME Line!TypeOK, NEW d \in Line!Drainers, NEW l, NEW x, NEW raised,
           Line!Iterate(d, l, x, raised)
    PROVE  /\ fifo' = l
           /\ sent' \subseteq sent \/ (fifo' # <<>> /\ sent' = sent \cup {Head(fifo')})
           /\ \A e \in Line!Drainers : e # d => phase'[e] = phase[e] /\ current'[e] = current[e]
           /\ phase'[d] # "shifted"
           /\ Line!Active(d)' => l # <<>> /\ phase'[d] = "sent" /\ current'[d] = Head(l)
                                 /\ isTrying' = raised
           /\ ~Line!Active(d)' => l = <<>>
  BY DEF Line!Iterate, Line!Send, Line!Leave, Line!TypeOK, Line!LineTypeOK, Line!Active

LEMMA WriteMoves ==
    ASSUME Line!TypeOK, NEW w \in Writes, Write(w)
    PROVE  /\ fifo' = Append(fifo, w) /\ stored' = stored
           /\ sent' \subseteq sent \/ (fifo' # <<>> /\ sent' = sent \cup {Head(fifo')})
<1>1. CASE Line!Stack(w)
  BY <1>1 DEF Line!Stack
<1>2. CASE Line!StackAndDrain(w)
  <2>1. w \in Line!Drainers
    BY DEF Line!Drainers
  <2> QED  BY <1>2, <2>1, Iterates DEF Line!StackAndDrain
<1> QED  BY <1>1, <1>2 DEF Write

LEMMA LoopMoves ==
    ASSUME Line!TypeOK, LoopStep
    PROVE  /\ stored' = stored
           /\ sent' \subseteq sent \/ (fifo' # <<>> /\ sent' = sent \cup {Head(fifo')})
           /\ fifo' = fifo \/ (fifo # <<>> /\ fifo' = Tail(fifo))
           /\ Line!LockInv /\ fifo' # fifo => Stored(Head(fifo))
<1>1. ASSUME NEW d \in Line!Drainers, Line!Resolve(d)
      PROVE  /\ stored' = stored /\ sent' = sent /\ fifo' = Line!Shift(fifo)
             /\ phase[d] = "sent" /\ Stored(current[d])
  BY <1>1 DEF Line!Resolve, Line!ToSet, Stored, ToSet
<1>2. ASSUME NEW d \in Line!Drainers, Line!Reject(d)
      PROVE  UNCHANGED <<stored, sent, fifo>>
  BY <1>2 DEF Line!Reject
<1>3. ASSUME NEW d \in Line!Drainers, Line!Continue(d)
      PROVE  /\ stored' = stored /\ fifo' = fifo
             /\ sent' \subseteq sent \/ (fifo' # <<>> /\ sent' = sent \cup {Head(fifo')})
  BY <1>3, Iterates DEF Line!Continue
<1>4. ASSUME NEW r \in Runs, Line!Reconnect(r)
      PROVE  /\ stored' = stored /\ fifo' = fifo
             /\ sent' \subseteq sent \/ (fifo' # <<>> /\ sent' = sent \cup {Head(fifo')})
  <2>1. r \in Line!Drainers
    BY DEF Line!Drainers
  <2> QED  BY <1>4, <2>1, Iterates DEF Line!Reconnect, Line!Drain
<1> QED
  BY <1>1, <1>2, <1>3, <1>4 DEF LoopStep, Line!Answered, Line!Shift, Line!LockInv

(* One loop at a time has the head of the line in flight.                  *)
LEMMA MoveLock ==
    ASSUME Line!TypeOK, Line!LockInv, LineMove, Line!AtMostOneDrain'
    PROVE  Line!LockInv'
<1> USE DEF Line!LockInv
<1>0. Line!TypeOK' /\ fifo \in Seq(Writes)
  BY MoveTypes DEF Line!TypeOK, Line!LineTypeOK
<1>1. ASSUME NEW w \in Writes, Line!Stack(w) PROVE Line!LockInv'
  <2>1. Append(fifo, w) # <<>> /\ (fifo # <<>> => Head(Append(fifo, w)) = Head(fifo))
    BY <1>0, AppendProperties, HeadTailProperties, EmptySeq
  <2>2. \A d \in Line!Drainers : phase'[d] = "sent" => phase[d] = "sent" /\ current'[d] = current[d]
    BY <1>1 DEF Line!Stack, Line!TypeOK, Line!LineTypeOK
  <2> QED  BY <1>1, <2>1, <2>2 DEF Line!Stack
<1>2. ASSUME NEW d \in Line!Drainers, NEW l, NEW x, Line!Iterate(d, l, x, TRUE),
             \A e \in Line!Drainers : ~Line!Active(e) \/ (e # d => Line!Active(d)')
      PROVE  Line!LockInv'
  <2>1. CASE Line!Active(d)'
    <3>1. \A e \in Line!Drainers : phase'[e] = "sent" => e = d
      BY <2>1 DEF Line!AtMostOneDrain, Line!Active
    <3>2. fifo' = l /\ l # <<>> /\ phase'[d] = "sent" /\ current'[d] = Head(l)
      BY <1>2, <2>1, Iterates
    <3>3. isTrying' = TRUE
      BY <1>2, <2>1, Iterates
    <3> QED  BY <3>1, <3>2, <3>3
  <2>2. CASE ~Line!Active(d)'
    <3>1. l = <<>> /\ fifo' = <<>> /\ \A e \in Line!Drainers : e # d => ~Line!Active(e)'
      BY <1>2, <2>2, Iterates DEF Line!Active
    <3> QED  BY <2>2, <3>1 DEF Line!Active
  <2> QED  BY <2>1, <2>2
<1>3. ASSUME NEW w \in Writes, Line!StackAndDrain(w) PROVE Line!LockInv'
  <2>1. w \in Line!Drainers /\ Line!Iterate(w, Append(fifo, w), None, TRUE)
    BY <1>3 DEF Line!StackAndDrain, Line!Drainers
  <2>2. Line!Active(w)'
    <3>1. Append(fifo, w) # <<>>
      BY <1>0, AppendProperties
    <3> QED  BY <2>1, <3>1, Iterates
  <2> QED  BY <1>2, <2>1, <2>2
<1>4. ASSUME NEW w \in Writes, Line!StoreApplies(w) PROVE Line!LockInv'
  BY <1>4 DEF Line!StoreApplies, Line!Active
<1>5. ASSUME NEW d \in Line!Drainers, Line!Resolve(d) PROVE Line!LockInv'
  <2>1. /\ phase[d] = "sent" /\ phase' = [phase EXCEPT ![d] = "shifted"]
        /\ UNCHANGED <<isTrying, current>> /\ fifo' = Line!Shift(fifo)
    BY <1>5 DEF Line!Resolve
  <2>2. \A e \in Line!Drainers : phase'[e] # "sent"
    BY <2>1 DEF Line!AtMostOneDrain, Line!Active, Line!TypeOK, Line!LineTypeOK
  <2>3. isTrying' \/ fifo' = <<>>
    BY <2>1 DEF Line!Shift
  <2> QED  BY <2>2, <2>3
<1>6. ASSUME NEW d \in Line!Drainers, Line!Reject(d) PROVE Line!LockInv'
  BY <1>6 DEF Line!Reject, Line!TypeOK, Line!LineTypeOK
<1>7. ASSUME NEW d \in Line!Drainers, Line!Continue(d) PROVE Line!LockInv'
  <2>1. Line!Active(d) /\ Line!Iterate(d, fifo, current[d], isTrying)
    BY <1>7 DEF Line!Continue, Line!Active
  <2>2. \A e \in Line!Drainers : e # d => ~Line!Active(e) /\ ~Line!Active(e)'
    BY <2>1, Iterates DEF Line!AtMostOneDrain, Line!Active
  <2>3. CASE isTrying
    BY <1>2, <2>1, <2>2, <2>3
  <2>4. CASE ~isTrying
    <3>1. fifo' = <<>> /\ ~Line!Active(d)'
      BY <2>1, <2>4, Iterates
    <3> QED  BY <2>2, <3>1 DEF Line!Active
  <2> QED  BY <2>3, <2>4 DEF Line!TypeOK, Line!LineTypeOK
<1>8. ASSUME NEW r \in Runs, Line!Reconnect(r) PROVE Line!LockInv'
  <2>1. r \in Line!Drainers /\ Line!Iterate(r, fifo, None, TRUE) /\ ~Line!Active(r)
    BY <1>8 DEF Line!Reconnect, Line!Drain, Line!Drainers
  <2>2. ASSUME ~Line!Active(r)', NEW e \in Line!Drainers, e # r PROVE phase'[e] # "sent"
    BY <2>1, <2>2, Iterates
  <2>3. CASE Line!Active(r)'
    BY <1>2, <2>1, <2>3
  <2>4. CASE ~Line!Active(r)'
    BY <2>1, <2>2, <2>4, Iterates DEF Line!Active
  <2> QED  BY <2>3, <2>4
<1> QED
  BY <1>1, <1>3, <1>4, <1>5, <1>6, <1>7, <1>8 DEF LineMove, LoopStep, Write, Line!Answered
-----------------------------------------------------------------------------
(* What a step of the line does to what was asked for and what is stored.  *)

LEMMA WritesApart ==
    /\ \A d, e \in Drops : Found(d) = Found(e) => d = e
    /\ \A d, e \in Drops : Dropped(d) = Dropped(e) => d = e
    /\ \A k \in Kills, d \in Drops : Killed(k) # Found(d) /\ Killed(k) # Dropped(d)
    /\ \A d, e \in Drops : Found(d) # Dropped(e)
  BY DEF Killed, Found, Dropped, Drops

LEMMA Members ==
    ASSUME NEW q \in Seq(Writes)
    PROVE  /\ Len(q) \in Nat /\ DOMAIN q = 1 .. Len(q)
           /\ \A w : w \in ToSet(q) <=> \E i \in 1 .. Len(q) : q[i] = w
           /\ \A w : w \in ToSet(Append(q, w))
           /\ \A v, w : v \in ToSet(Append(q, w)) <=> v \in ToSet(q) \/ v = w
           /\ q # <<>> => /\ Len(q) >= 1 /\ Head(q) = q[1]
                          /\ Tail(q) \in Seq(Writes) /\ Len(Tail(q)) = Len(q) - 1
                          /\ \A i \in 1 .. Len(q) - 1 : Tail(q)[i] = q[i + 1]
                          /\ \A v : v \in ToSet(q) <=> v = Head(q) \/ v \in ToSet(Tail(q))
<1>1. /\ Len(q) \in Nat /\ DOMAIN q = 1 .. Len(q)
      /\ \A w : w \in ToSet(q) <=> \E i \in 1 .. Len(q) : q[i] = w
  BY LenProperties DEF ToSet
<1>2. ASSUME NEW w
      PROVE  \A v : v \in ToSet(Append(q, w)) <=> v \in ToSet(q) \/ v = w
  <2>1. /\ DOMAIN Append(q, w) = 1 .. Len(q) + 1
        /\ \A i \in 1 .. Len(q) : Append(q, w)[i] = q[i]
        /\ Append(q, w)[Len(q) + 1] = w
    <3>1. q \in Seq(Writes \cup {w})
      BY SeqMonotonic
    <3> QED  BY <3>1, AppendProperties
  <2> QED  BY <1>1, <2>1 DEF ToSet
<1>3. ASSUME q # <<>>
      PROVE  /\ Len(q) >= 1 /\ Head(q) = q[1]
             /\ Tail(q) \in Seq(Writes) /\ Len(Tail(q)) = Len(q) - 1
             /\ \A i \in 1 .. Len(q) - 1 : Tail(q)[i] = q[i + 1]
  BY <1>1, <1>3, HeadTailProperties, EmptySeq
<1>4. ASSUME q # <<>>
      PROVE  \A v : v \in ToSet(q) <=> v = Head(q) \/ v \in ToSet(Tail(q))
  <2>1. DOMAIN Tail(q) = 1 .. Len(q) - 1
    BY <1>3, <1>4, LenProperties
  <2>2. \A v : v \in ToSet(Tail(q)) <=> \E i \in 1 .. Len(q) - 1 : Tail(q)[i] = v
    BY <2>1 DEF ToSet
  <2>3. ASSUME NEW v, v \in ToSet(q) PROVE v = Head(q) \/ v \in ToSet(Tail(q))
    <3>1. PICK i \in 1 .. Len(q) : q[i] = v
      BY <1>1, <2>3
    <3>2. i = 1 \/ (i - 1 \in 1 .. Len(q) - 1 /\ (i - 1) + 1 = i)
      BY <1>1, <3>1
    <3> QED  BY <1>3, <1>4, <2>2, <3>1, <3>2
  <2>4. ASSUME NEW v, v = Head(q) \/ v \in ToSet(Tail(q)) PROVE v \in ToSet(q)
    <3>1. CASE v = Head(q)
      BY <1>1, <1>3, <1>4, <3>1
    <3>2. CASE v \in ToSet(Tail(q))
      <4>1. PICK i \in 1 .. Len(q) - 1 : Tail(q)[i] = v
        BY <2>2, <3>2
      <4>2. i + 1 \in 1 .. Len(q) /\ q[i + 1] = v
        BY <1>1, <1>3, <1>4, <4>1
      <4> QED  BY <1>1, <4>2
    <3> QED  BY <2>4, <3>1, <3>2
  <2> QED  BY <2>3, <2>4
<1> QED  BY <1>1, <1>2, <1>3, <1>4

LEMMA Seqs ==
    ASSUME Line!TypeOK
    PROVE  fifo \in Seq(Writes) /\ stored \in Seq(Writes) /\ sent \subseteq Writes
  BY DEF Line!TypeOK, Line!LineTypeOK

(* A write stands last in the line; what it depends on has to be there.    *)
LEMMA WriteCause ==
    ASSUME Line!TypeOK, NEW w \in Writes, Write(w)
    PROVE  /\ Line!TypeOK'
           /\ \A v : Stored(v)' <=> Stored(v)
           /\ \A v : Asked(v)' => Asked(v) \/ v = w
           /\ \A v, u : Before(v, u)' <=> Before(v, u)
           /\ CauseInv /\ (\A d \in Drops : w = Dropped(d) => Waits(Found(d)))
                => CauseInv' /\ \A v : Waits(v)' <=> Waits(v) \/ v = w
<1>1. Line!TypeOK'
  BY MoveTypes DEF LineMove
<1>2. /\ fifo' = Append(fifo, w) /\ stored' = stored
      /\ sent' \subseteq sent \/ (fifo' # <<>> /\ sent' = sent \cup {Head(fifo')})
  BY WriteMoves
<1>3. /\ fifo \in Seq(Writes) /\ fifo' \in Seq(Writes) /\ Len(fifo) \in Nat
      /\ Len(fifo') = Len(fifo) + 1 /\ fifo'[Len(fifo) + 1] = w
      /\ \A i \in 1 .. Len(fifo) : fifo'[i] = fifo[i]
  BY <1>1, <1>2, Seqs, AppendProperties, Members
<1>4. \A v : Stored(v)' <=> Stored(v)
  BY <1>2 DEF Stored
<1>5. \A v, u : Before(v, u)' <=> Before(v, u)
  BY <1>2 DEF Before
<1>6. \A v : v \in ToSet(fifo') <=> v \in ToSet(fifo) \/ v = w
  BY <1>2, <1>3, Members
<1>7. ASSUME NEW v, Asked(v)' PROVE Asked(v) \/ v = w
  <2>1. fifo' # <<>> => Head(fifo') \in ToSet(fifo')
    BY <1>3, Members
  <2> QED  BY <1>2, <1>6, <1>7, <2>1 DEF Asked
<1>8. ASSUME CauseInv, \A d \in Drops : w = Dropped(d) => Waits(Found(d))
      PROVE  CauseInv'
  <2> SUFFICES ASSUME NEW d \in Drops
               PROVE  /\ Ahead(Found(d), Dropped(d))'
                      /\ (Dropped(d) \in sent => Stored(Found(d)))'
                      /\ Before(Found(d), Dropped(d))'
    BY DEF CauseInv
  <2>1. Ahead(Found(d), Dropped(d))'
    <3> SUFFICES ASSUME NEW i \in 1 .. Len(fifo'), fifo'[i] = Dropped(d), ~Stored(Found(d))
                 PROVE  \E j \in 1 .. i - 1 : fifo'[j] = Found(d)
      BY <1>4 DEF Ahead
    <3>1. CASE i \in 1 .. Len(fifo)
      <4>1. PICK j \in 1 .. i - 1 : fifo[j] = Found(d)
        BY <1>3, <1>8, <3>1 DEF CauseInv, Ahead
      <4> QED  BY <1>3, <3>1, <4>1
    <3>2. CASE i = Len(fifo) + 1
      <4>1. Found(d) \in ToSet(fifo)
        BY <1>3, <1>8, <3>2 DEF Waits, Stored
      <4>2. PICK j \in 1 .. Len(fifo) : fifo[j] = Found(d)
        BY <1>3, <4>1, Members
      <4> QED  BY <1>3, <3>2, <4>2
    <3> QED  BY <1>3, <3>1, <3>2
  <2>2. ASSUME Dropped(d) \in sent', Dropped(d) \notin sent PROVE Stored(Found(d))
    <3>1. Dropped(d) = fifo'[1] /\ Len(fifo') >= 1
      BY <1>2, <1>3, <2>2, Members
    <3> QED  BY <1>3, <1>4, <2>1, <3>1 DEF Ahead
  <2> QED  BY <1>4, <1>5, <1>8, <2>1, <2>2 DEF CauseInv
<1> QED  BY <1>1, <1>2, <1>4, <1>5, <1>6, <1>7, <1>8 DEF Waits

(* A loop sends the head, and shifts it when it is stored. *)
LEMMA LoopCause ==
    ASSUME Line!TypeOK, LoopStep
    PROVE  /\ Line!TypeOK'
           /\ \A v : Stored(v)' <=> Stored(v)
           /\ \A v : Asked(v)' => Asked(v)
           /\ \A v, u : Before(v, u)' <=> Before(v, u)
           /\ Line!LockInv /\ CauseInv => CauseInv' /\ \A v : Waits(v)' <=> Waits(v)
<1>1. Line!TypeOK' /\ fifo \in Seq(Writes) /\ fifo' \in Seq(Writes)
  <2>1. Line!TypeOK'
    BY MoveTypes DEF LineMove
  <2> QED  BY <2>1 DEF Line!TypeOK, Line!LineTypeOK
<1>2. /\ stored' = stored
      /\ sent' \subseteq sent \/ (fifo' # <<>> /\ sent' = sent \cup {Head(fifo')})
      /\ fifo' = fifo \/ (fifo # <<>> /\ fifo' = Tail(fifo))
      /\ Line!LockInv /\ fifo' # fifo => Stored(Head(fifo))
  BY LoopMoves
<1>3. (\A v : Stored(v)' <=> Stored(v)) /\ (\A v, u : Before(v, u)' <=> Before(v, u))
  BY <1>2 DEF Stored, Before
<1>4. \A v : v \in ToSet(fifo') => v \in ToSet(fifo)
  BY <1>1, <1>2, Members
<1>5. ASSUME NEW v, Asked(v)' PROVE Asked(v)
  <2>1. fifo' # <<>> => Head(fifo') \in ToSet(fifo')
    BY <1>1, Members
  <2> QED  BY <1>2, <1>4, <1>5, <2>1 DEF Asked
<1>6. ASSUME Line!LockInv, CauseInv PROVE CauseInv'
  <2> SUFFICES ASSUME NEW d \in Drops
               PROVE  /\ Ahead(Found(d), Dropped(d))'
                      /\ (Dropped(d) \in sent => Stored(Found(d)))'
                      /\ Before(Found(d), Dropped(d))'
    BY DEF CauseInv
  <2>1. Ahead(Found(d), Dropped(d))'
    <3>1. CASE fifo' = fifo
      BY <1>3, <1>6, <3>1 DEF CauseInv, Ahead
    <3>2. CASE fifo # <<>> /\ fifo' = Tail(fifo) /\ Stored(Head(fifo))
      <4> SUFFICES ASSUME NEW i \in 1 .. Len(fifo'), fifo'[i] = Dropped(d), ~Stored(Found(d))
                   PROVE  \E j \in 1 .. i - 1 : fifo'[j] = Found(d)
        BY <1>3 DEF Ahead
      <4>1. /\ Len(fifo) \in Nat /\ Len(fifo') = Len(fifo) - 1 /\ Head(fifo) = fifo[1]
            /\ \A j \in 1 .. Len(fifo) - 1 : fifo'[j] = fifo[j + 1]
        BY <1>1, <3>2, Members
      <4>2. i + 1 \in 1 .. Len(fifo) /\ fifo[i + 1] = Dropped(d)
        BY <4>1
      <4>3. PICK j \in 1 .. i : fifo[j] = Found(d)
        BY <1>6, <4>2 DEF CauseInv, Ahead
      <4>4. j # 1
        BY <3>2, <4>1, <4>3
      <4>5. j - 1 \in 1 .. i - 1 /\ fifo'[j - 1] = Found(d)
        BY <4>1, <4>2, <4>3, <4>4
      <4> QED  BY <4>5
    <3> QED  BY <1>2, <1>6, <3>1, <3>2
  <2>2. ASSUME Dropped(d) \in sent', Dropped(d) \notin sent PROVE Stored(Found(d))
    <3>1. Dropped(d) = fifo'[1] /\ Len(fifo') >= 1 /\ Len(fifo') \in Nat
      BY <1>1, <1>2, <2>2, Members
    <3> QED  BY <1>3, <2>1, <3>1 DEF Ahead
  <2> QED  BY <1>3, <1>6, <2>1, <2>2 DEF CauseInv
<1>7. ASSUME Line!LockInv, NEW v PROVE Waits(v)' <=> Waits(v)
  BY <1>1, <1>2, <1>7, Members DEF Waits, Stored
<1> QED  BY <1>1, <1>3, <1>5, <1>6, <1>7

(* What is applied was sent, maybe by a process that has crashed since.    *)
LEMMA ApplyCause ==
    ASSUME Line!TypeOK, NEW w \in Writes, Line!StoreApplies(w)
    PROVE  /\ Line!TypeOK'
           /\ \A v : Stored(v)' <=> Stored(v) \/ v = w
           /\ ~Stored(w) /\ Asked(w)
           /\ \A v : Asked(v)' => Asked(v)
           /\ \A v : Waits(v) => Waits(v)'
           /\ \A v, u : Before(v, u) /\ (u = w => Stored(v)) => Before(v, u)'
           /\ CauseInv => CauseInv'
<1>1. Line!TypeOK' /\ stored \in Seq(Writes)
  BY MoveTypes, Seqs DEF LineMove
<1>2. /\ w \in sent /\ ~Stored(w) /\ stored' = Append(stored, w)
      /\ fifo' = fifo /\ sent' = sent
  BY DEF Line!StoreApplies, Line!ToSet, Stored, ToSet
<1>3. \A v : Stored(v)' <=> Stored(v) \/ v = w
  BY <1>1, <1>2, Members DEF Stored
<1>4. ASSUME NEW v, NEW u, Before(v, u), u = w => Stored(v) PROVE Before(v, u)'
  <2>1. /\ Len(stored) \in Nat /\ DOMAIN stored = 1 .. Len(stored)
        /\ DOMAIN stored' = 1 .. Len(stored) + 1 /\ stored'[Len(stored) + 1] = w
        /\ \A i \in 1 .. Len(stored) : stored'[i] = stored[i]
    BY <1>1, <1>2, AppendProperties, Members
  <2> SUFFICES ASSUME NEW i \in 1 .. Len(stored) + 1, stored'[i] = u
               PROVE  \E j \in 1 .. i - 1 : stored'[j] = v
    BY <2>1 DEF Before
  <2>2. CASE i \in 1 .. Len(stored)
    <3>1. PICK j \in 1 .. i - 1 : stored[j] = v
      BY <1>4, <2>1, <2>2 DEF Before
    <3> QED  BY <2>1, <2>2, <3>1
  <2>3. CASE i = Len(stored) + 1
    <3>1. Stored(v)
      BY <1>4, <2>1, <2>3
    <3>2. PICK j \in 1 .. Len(stored) : stored[j] = v
      BY <1>1, <3>1, Members DEF Stored
    <3> QED  BY <2>1, <2>3, <3>2
  <2> QED  BY <2>1, <2>2, <2>3
<1>5. CauseInv => CauseInv'
  BY <1>2, <1>3, <1>4 DEF CauseInv, Ahead
<1>6. (\A v : Asked(v)' => Asked(v)) /\ (\A v : Waits(v) => Waits(v)') /\ Asked(w)
  BY <1>2, <1>3 DEF Asked, Waits, Stored
<1> QED  BY <1>1, <1>2, <1>3, <1>4, <1>5, <1>6

LEMMA SameLine ==
    ASSUME UNCHANGED line
    PROVE  /\ Line!TypeOK' <=> Line!TypeOK
           /\ Line!LockInv' <=> Line!LockInv
           /\ CauseInv' <=> CauseInv
           /\ \A v : (Stored(v)' <=> Stored(v)) /\ (Asked(v)' <=> Asked(v))
           /\ \A v : Waits(v)' <=> Waits(v)
           /\ \A v, u : Before(v, u)' <=> Before(v, u)
<1>1. /\ \A v : (Stored(v)' <=> Stored(v)) /\ (Asked(v)' <=> Asked(v))
      /\ \A v : Waits(v)' <=> Waits(v)
      /\ \A v, u : (Before(v, u)' <=> Before(v, u)) /\ (Ahead(v, u)' <=> Ahead(v, u))
  BY DEF line, Stored, Asked, Waits, Before, Ahead
<1>2. CauseInv' <=> CauseInv
  BY <1>1 DEF line, CauseInv
<1> QED
  BY <1>1, <1>2 DEF line, Line!TypeOK, Line!LineTypeOK, Line!LockInv, Line!AtMostOneDrain, Line!Active
-----------------------------------------------------------------------------
LEMMA InvStart == Init => Inv
<1> SUFFICES ASSUME Init PROVE Inv
  OBVIOUS
<1> USE DEF Init
<1>1. /\ fifo = <<>> /\ stored = <<>> /\ sent = {} /\ accepted = <<>> /\ isTrying = FALSE
      /\ phase = [d \in Line!Drainers |-> "idle"]
      /\ current = [d \in Line!Drainers |-> None]
      /\ result = [d \in Line!Drainers |-> None]
      /\ connection \in {"up", "down"}
      /\ DOMAIN stored = {} /\ Len(fifo) = 0
  BY EmptySeq DEF Line!Init, Line!LineInit
<1>2. Line!TypeOK
  BY <1>1, EmptySeq DEF Line!TypeOK, Line!LineTypeOK, Line!Phases
<1>3. TypeOK
  <2>1. connecting \subseteq Runs
    OBVIOUS
  <2>2. faults \in 0 .. MaxFaults
    BY HeroesAssumption
  <2>3. delivered \in [Kills -> 0 .. MaxDeliveries] /\ drop \in [Drops -> Live \cup Ended]
    BY HeroesAssumption DEF Ended
  <2> QED  BY <1>2, <2>1, <2>2, <2>3 DEF TypeOK
<1>4. \A w : ~Asked(w)
  BY <1>1 DEF Asked, ToSet
<1>5. GroupInv /\ DropInv /\ FaultInv
  BY <1>1, <1>4, HeroesAssumption DEF GroupInv, DropInv, FaultInv, Before, Drops
<1>6. LoneInv
  BY <1>1 DEF LoneInv, Line!LockInv, Line!AtMostOneDrain, Line!Active, CauseInv, KeepInv,
              Ahead, Before
<1> QED  BY <1>3, <1>5, <1>6 DEF Inv
-----------------------------------------------------------------------------
(* Steps that leave the line alone. *)

LEMMA SameLone ==
    ASSUME Inv, UNCHANGED line, Watched(TRUE),
           \A d \in Drops : drop'[d] \in {"adding", "done"} => drop'[d] = drop[d]
    PROVE  ~overlapped' => LoneInv'
  BY SameLine DEF Watched, Inv, LoneInv, KeepInv

LEMMA SameDrops ==
    ASSUME Inv, UNCHANGED line,
           \A k \in Kills : delivered'[k] = delivered[k],
           \A d \in Drops : \/ drop'[d] = drop[d]
                            \/ drop[d] # "none" /\ (drop[d] \in Begun => drop'[d] \in Begun)
    PROVE  DropInv'
  BY SameLine DEF Inv, DropInv, Drops

LEMMA KillStep ==
    ASSUME Inv, NEW k \in Kills, Watched(KillDragon(k) \/ CommitsKill(k))
    PROVE  Inv'
<1>1. /\ UNCHANGED <<autoAck, connecting, group, delivered, acks, drop, faults>>
      /\ kill' \in [Kills -> {"none", "fighting", "done", "failed"}]
      /\ overlapped' = (overlapped \/ ~Line!AtMostOneDrain')
  BY DEF Watched, KillDragon, CommitsKill, delivery, Inv, TypeOK
<1>2. FaultInv'
  BY <1>1 DEF Inv, FaultInv, Attended
<1>3. CASE UNCHANGED line
  <2>1. TypeOK' /\ GroupInv'
    BY <1>1, <1>3, SameLine DEF Inv, TypeOK, GroupInv
  <2> QED  BY <1>1, <1>2, <1>3, <2>1, SameLone, SameDrops DEF Inv, Watched
<1>4. CASE Write(Killed(k))
  <2>1. Killed(k) \in Writes /\ Line!TypeOK
    BY DEF Writes, Inv, TypeOK
  <2>2. TypeOK' /\ GroupInv' /\ DropInv'
    BY <1>1, <1>4, <2>1, WriteCause, WritesApart DEF Inv, TypeOK, GroupInv, DropInv
  <2>3. ~overlapped' => LoneInv'
    BY <1>1, <1>4, <2>1, WriteCause, WritesApart, MoveLock DEF LineMove, Inv, LoneInv, KeepInv
  <2> QED  BY <1>2, <2>2, <2>3 DEF Inv
<1> QED  BY <1>3, <1>4 DEF Watched, KillDragon, CommitsKill

LEMMA LoopsStep ==
    ASSUME Inv,
           \/ \E d \in Line!Drainers : Watched(Answered(d)) \/ Watched(Continues(d))
           \/ \E r \in Runs : Watched(Reconnects(r))
    PROVE  Inv'
<1>1. /\ LoopStep /\ connecting' \subseteq Runs
      /\ UNCHANGED <<autoAck, kill, group, delivered, acks, drop, faults>>
      /\ overlapped' = (overlapped \/ ~Line!AtMostOneDrain')
  BY DEF Watched, Answered, Continues, Reconnects, LoopStep, delivery, Inv, TypeOK
<1>2. Line!TypeOK
  BY DEF Inv, TypeOK
<1>3. TypeOK' /\ GroupInv' /\ DropInv'
  BY <1>1, <1>2, LoopCause DEF Inv, TypeOK, GroupInv, DropInv
<1>4. FaultInv'
  BY <1>1 DEF Inv, FaultInv, Attended
<1>5. ~overlapped' => LoneInv'
  BY <1>1, <1>2, LoopCause, MoveLock DEF LineMove, Inv, LoneInv, KeepInv
<1> QED  BY <1>3, <1>4, <1>5 DEF Inv

LEMMA AppendsStep ==
    ASSUME Inv, NEW w \in Writes, Watched(Appends(w))
    PROVE  Inv'
<1>1. /\ Line!StoreApplies(w)
      /\ group' = [k \in Kills |-> IF w = Killed(k) THEN "queued" ELSE group[k]]
      /\ UNCHANGED <<autoAck, connecting, kill, delivered, acks, drop, faults>>
      /\ overlapped' = (overlapped \/ ~Line!AtMostOneDrain')
  BY DEF Watched, Appends
<1>2. Line!TypeOK
  BY DEF Inv, TypeOK
<1>3. TypeOK'
  BY <1>1, <1>2, ApplyCause DEF Inv, TypeOK
<1>4. \A k \in Kills : w = Killed(k) => group[k] = "none" /\ delivered[k] = 0
  BY <1>1, <1>2, ApplyCause DEF Inv, GroupInv
<1>5. GroupInv'
  BY <1>1, <1>2, <1>4, ApplyCause, HeroesAssumption DEF Inv, GroupInv
<1>6. DropInv'
  <2> SUFFICES ASSUME NEW d \in Drops
               PROVE  /\ (drop[d] # "none" => d[2] <= delivered[d[1]])'
                      /\ (Asked(Found(d)) => drop[d] \in Begun)'
                      /\ Before(Killed(d[1]), Found(d))'
    BY DEF DropInv, Drops
  <2>1. w = Found(d) => Stored(Killed(d[1]))
    <3>1. d[1] \in Kills /\ d[2] \in Nat /\ d[2] >= 1
      BY DEF Drops
    <3>2. w = Found(d) => drop[d] # "none"
      BY <1>1, <1>2, ApplyCause DEF Inv, DropInv, Begun
    <3>3. w = Found(d) => delivered[d[1]] # 0
      BY <3>1, <3>2 DEF Inv, DropInv, TypeOK
    <3> QED  BY <3>1, <3>3 DEF Inv, GroupInv
  <2> QED  BY <1>1, <1>2, <2>1, ApplyCause DEF Inv, DropInv
<1>7. FaultInv'
  <2>1. \A k \in Kills : faults \in Nat /\ (Attended(k)' <=> Attended(k))
    BY <1>1 DEF Attended, Inv, TypeOK
  <2> QED  BY <1>1, <1>4, <2>1 DEF Inv, FaultInv, TypeOK
<1>8. ~overlapped' => LoneInv'
  <2>1. ~overlapped => CauseInv' /\ KeepInv'
    BY <1>1, <1>2, ApplyCause DEF Inv, LoneInv, KeepInv
  <2> QED  BY <1>1, <1>2, <2>1, MoveLock DEF LineMove, Inv, LoneInv
<1> QED  BY <1>3, <1>5, <1>6, <1>7, <1>8 DEF Inv

LEMMA AnswerStep ==
    ASSUME Inv, NEW k \in Kills, Watched(TakesAck(k) \/ TimesOut(k))
    PROVE  Inv'
<1>1. /\ UNCHANGED <<line, autoAck, connecting, kill, delivered, drop>>
      /\ overlapped' = (overlapped \/ ~Line!AtMostOneDrain')
  BY DEF Watched, TakesAck, TimesOut
<1>2. TypeOK'
  BY <1>1, SameLine, HeroesAssumption DEF Watched, TakesAck, TimesOut, Again, Inv, TypeOK
<1>3. GroupInv'
  BY <1>1, SameLine DEF Watched, TakesAck, TimesOut, Again, Inv, TypeOK, GroupInv
<1>4. FaultInv'
  <2>1. CASE TakesAck(k)
    <3>1. /\ group'[k] # "inFlight" /\ (group'[k] = "queued" => group[k] = "queued")
          /\ \A l \in Kills : l # k => group'[l] = group[l] /\ (Attended(l)' <=> Attended(l))
      BY <1>1, <2>1 DEF TakesAck, Attended, Inv, TypeOK
    <3> QED  BY <1>1, <2>1, <3>1 DEF TakesAck, Inv, FaultInv
  <2>2. CASE TimesOut(k)
    <3>1. /\ group' = [group EXCEPT ![k] = Again(k)] /\ Again(k) \in {"queued", "parked"}
          /\ acks' = acks /\ group[k] = "inFlight" /\ faults \in Nat
      BY <2>2 DEF TimesOut, Again, Inv, TypeOK
    <3>2. \A l \in Kills : Attended(l)' <=> Attended(l)
      BY <1>1, <3>1 DEF Attended
    <3>3. \/ ~Attended(k) /\ faults' = faults
          \/ faults' = faults + 1
      BY <2>2 DEF TimesOut
    <3>4. \A l \in Kills : delivered[l] \in Nat
      BY DEF Inv, TypeOK
    <3> QED  BY <1>1, <3>1, <3>2, <3>3, <3>4 DEF Inv, FaultInv, TypeOK
  <2> QED  BY <2>1, <2>2 DEF Watched
<1> QED  BY <1>1, <1>2, <1>3, <1>4, SameLone, SameDrops DEF Inv, Watched

LEMMA ReceivesStep ==
    ASSUME Inv, NEW k \in Kills, Watched(Receives(k))
    PROVE  Inv'
<1> DEFINE d0 == <<k, delivered[k] + 1>>
<1>1. /\ UNCHANGED <<line, autoAck, connecting, kill, faults>> /\ group[k] = "queued"
      /\ group' = [group EXCEPT ![k] = "inFlight"]
      /\ delivered' = [delivered EXCEPT ![k] = @ + 1]
      /\ acks \subseteq acks' /\ acks' \subseteq acks \cup {k}
      /\ drop' = [drop EXCEPT ![d0] = "dispatching"]
      /\ overlapped' = (overlapped \/ ~Line!AtMostOneDrain')
  BY DEF Watched, Receives, Goto
<1>2. delivered[k] \in Nat /\ delivered[k] + 1 \in 1 .. MaxDeliveries /\ d0 \in Drops
  BY <1>1, HeroesAssumption DEF Inv, GroupInv, TypeOK, Drops
<1>3. drop[d0] = "none"
  BY <1>2 DEF Inv, DropInv
<1>4. /\ drop'[d0] = "dispatching" /\ \A d \in Drops : d # d0 => drop'[d] = drop[d]
      /\ delivered'[k] = delivered[k] + 1
      /\ \A l \in Kills : l # k => delivered'[l] = delivered[l]
  BY <1>1, <1>2 DEF Inv, TypeOK
<1>5. TypeOK'
  <2>1. /\ drop' \in [Drops -> Live \cup Ended] /\ delivered' \in [Kills -> 0 .. MaxDeliveries]
        /\ acks' \subseteq Kills
        /\ group' \in [Kills -> {"none", "queued", "inFlight", "acked", "parked"}]
    BY <1>1, <1>2 DEF Inv, TypeOK, Live
  <2> QED  BY <1>1, <2>1, SameLine DEF Inv, TypeOK
<1>6. GroupInv'
  BY <1>1, <1>4, SameLine DEF Inv, GroupInv, TypeOK
<1>7. DropInv'
  <2> SUFFICES ASSUME NEW d \in Drops
               PROVE  /\ (drop[d] # "none" => d[2] <= delivered[d[1]])'
                      /\ (Asked(Found(d)) => drop[d] \in Begun)'
                      /\ Before(Killed(d[1]), Found(d))'
    BY DEF DropInv, Drops
  <2>1. d[1] \in Kills /\ d[2] \in Nat
    BY DEF Drops
  <2>2. delivered[d[1]] \in Nat /\ delivered'[d[1]] \in Nat /\ delivered[d[1]] <= delivered'[d[1]]
    BY <1>2, <1>4, <2>1 DEF Inv, TypeOK
  <2>3. CASE d = d0
    <3>1. ~Asked(Found(d))
      BY <1>3, <2>3 DEF Inv, DropInv, Begun
    <3>2. d[2] <= delivered'[d[1]]
      BY <1>2, <1>4, <2>3
    <3> QED  BY <1>1, <3>1, <3>2, SameLine DEF Inv, DropInv
  <2>4. CASE d # d0
    <3>1. drop'[d] = drop[d] /\ (drop[d] # "none" => d[2] <= delivered[d[1]])
      BY <1>4, <2>4 DEF Inv, DropInv
    <3>2. drop'[d] # "none" => d[2] <= delivered'[d[1]]
      BY <2>1, <2>2, <3>1
    <3> QED  BY <1>1, <3>1, <3>2, SameLine DEF Inv, DropInv
  <2> QED  BY <2>3, <2>4
<1>8. FaultInv'
  <2>1. Attended(k)'
    <3>1. drop'[<<k, delivered[k] + 1>>] = "dispatching"
      BY <1>4
    <3> QED  BY <1>2, <3>1 DEF Attended
  <2>2. ASSUME NEW l \in Kills, l # k PROVE Attended(l) => Attended(l)'
    <3>1. ASSUME NEW n \in 1 .. MaxDeliveries PROVE drop'[<<l, n>>] = drop[<<l, n>>]
      BY <1>4, <2>2 DEF Drops
    <3> QED  BY <1>1, <3>1 DEF Attended
  <2>3. \A l \in Kills : delivered[l] \in Nat /\ faults \in Nat
    BY DEF Inv, TypeOK
  <2>4. group'[k] = "inFlight" /\ \A l \in Kills : l # k => group'[l] = group[l]
    BY <1>1 DEF Inv, TypeOK
  <2> QED  BY <1>1, <1>4, <2>1, <2>2, <2>3, <2>4 DEF Inv, FaultInv
<1>9. ~overlapped' => LoneInv'
  BY <1>1, <1>4, SameLone DEF Watched
<1> QED  BY <1>5, <1>6, <1>7, <1>8, <1>9 DEF Inv

(* One command goes on: what that leaves as it was. *)
LEMMA CommandKeeps ==
    ASSUME Inv, NEW d \in Drops, NEW st \in Live \cup Ended, Goto(d, st),
           UNCHANGED <<autoAck, connecting, kill, group, delivered, faults>>,
           Line!TypeOK', overlapped' \in BOOLEAN,
           acks \subseteq acks', acks' \subseteq Kills,
           st \notin {"none", "dispatching"}, drop[d] # "none",
           drop[d] = "dispatching" /\ autoAck # "absent" => d[1] \in acks',
           \A k \in Kills : Stored(Killed(k))' <=> Stored(Killed(k))
    PROVE  /\ TypeOK' /\ GroupInv' /\ FaultInv'
           /\ drop'[d] = st /\ \A e \in Drops : e # d => drop'[e] = drop[e]
<1>1. drop'[d] = st /\ \A e \in Drops : e # d => drop'[e] = drop[e]
  BY DEF Goto, Inv, TypeOK
<1>2. TypeOK' /\ GroupInv'
  BY DEF Goto, Inv, TypeOK, GroupInv
<1>3. ASSUME NEW k \in Kills, Attended(k), autoAck # "absent" PROVE Attended(k)'
  <2>1. CASE k \in acks
    BY <2>1 DEF Attended
  <2>2. ASSUME NEW n \in 1 .. MaxDeliveries, drop[<<k, n>>] = "dispatching" PROVE Attended(k)'
    <3>1. CASE <<k, n>> = d
      BY <1>3, <2>2, <3>1 DEF Attended
    <3>2. CASE <<k, n>> # d
      BY <1>1, <2>2, <3>2 DEF Attended, Drops
    <3> QED  BY <3>1, <3>2
  <2> QED  BY <1>3, <2>1, <2>2 DEF Attended
<1> QED  BY <1>1, <1>2, <1>3 DEF Inv, FaultInv

LEMMA QuietCommandStep ==
    ASSUME Inv, NEW d \in Drops, Watched(Handles(d) \/ Wakes(d) \/ Fails(d))
    PROVE  Inv'
<1>1. PICK st \in {"sleeping", "loading", "failed"} :
        /\ Goto(d, st) /\ drop[d] # "none" /\ (drop[d] \in Begun => st = "failed")
        /\ UNCHANGED <<line, autoAck, connecting, kill, group, delivered, faults>>
        /\ overlapped' = (overlapped \/ ~Line!AtMostOneDrain')
        /\ acks \subseteq acks' /\ acks' \subseteq Kills
        /\ drop[d] = "dispatching" /\ autoAck # "absent" => d[1] \in acks'
  <2>1. CASE Handles(d)
    BY <2>1 DEF Watched, Handles, DragonKilled, Acks, Begun, Drops, Inv, TypeOK
  <2>2. CASE Wakes(d) \/ Fails(d)
    BY <2>2 DEF Watched, Wakes, Fails, delivery, Begun, Inv, TypeOK
  <2> QED  BY <2>1, <2>2 DEF Watched
<1>2. st \in (Live \cup Ended) \ {"none", "dispatching"} /\ overlapped' \in BOOLEAN
  BY <1>1 DEF Live, Commanded, Ended, Inv, TypeOK
<1>3. /\ Line!TypeOK' /\ \A k \in Kills : Stored(Killed(k))' <=> Stored(Killed(k))
  BY <1>1, SameLine DEF Inv, TypeOK
<1>4. /\ TypeOK' /\ GroupInv' /\ FaultInv'
      /\ drop'[d] = st /\ \A e \in Drops : e # d => drop'[e] = drop[e]
  BY <1>1, <1>2, <1>3, CommandKeeps
<1>5. DropInv'
  BY <1>1, <1>4, SameDrops DEF Begun
<1>6. ~overlapped' => LoneInv'
  BY <1>1, <1>4, SameLone DEF Watched
<1> QED  BY <1>4, <1>5, <1>6 DEF Inv

LEMMA AddsStep ==
    ASSUME Inv, NEW d \in Drops, Watched(AddsItem(d))
    PROVE  Inv'
<1>1. /\ drop[d] = "loading" /\ Write(Found(d)) /\ Goto(d, "adding")
      /\ UNCHANGED <<autoAck, connecting, kill, group, delivered, acks, faults>>
      /\ overlapped' = (overlapped \/ ~Line!AtMostOneDrain')
      /\ Found(d) \in Writes /\ Line!TypeOK
  BY DEF Watched, AddsItem, delivery, Writes, Inv, TypeOK
<1>2. "adding" \in Live \cup Ended /\ overlapped' \in BOOLEAN /\ acks' \subseteq Kills
  BY <1>1 DEF Live, Commanded, Inv, TypeOK
<1>3. /\ TypeOK' /\ GroupInv' /\ FaultInv'
      /\ drop'[d] = "adding" /\ \A e \in Drops : e # d => drop'[e] = drop[e]
  BY <1>1, <1>2, WriteCause, CommandKeeps
<1>4. DropInv'
  BY <1>1, <1>3, WriteCause, WritesApart DEF Inv, DropInv, Begun
<1>5. ~overlapped' => LoneInv'
  <2>1. ~overlapped => CauseInv' /\ \A v : Waits(v)' <=> Waits(v) \/ v = Found(d)
    BY <1>1, WriteCause, WritesApart DEF Inv, LoneInv
  <2>2. ~overlapped => KeepInv'
    BY <1>3, <2>1 DEF Inv, LoneInv, KeepInv
  <2> QED  BY <1>1, <2>1, <2>2, MoveLock DEF LineMove, Inv, LoneInv
<1> QED  BY <1>3, <1>4, <1>5 DEF Inv

LEMMA DropsStep ==
    ASSUME Inv, NEW d \in Drops, Watched(DropsItem(d))
    PROVE  Inv'
<1>1. /\ drop[d] = "adding" /\ Write(Dropped(d)) /\ Goto(d, "done")
      /\ UNCHANGED <<autoAck, connecting, kill, group, delivered, acks, faults>>
      /\ overlapped' = (overlapped \/ ~Line!AtMostOneDrain')
      /\ Dropped(d) \in Writes /\ Line!TypeOK
  BY DEF Watched, DropsItem, delivery, Writes, Inv, TypeOK
<1>2. "done" \in Live \cup Ended /\ overlapped' \in BOOLEAN /\ acks' \subseteq Kills
  BY <1>1 DEF Ended, Inv, TypeOK
<1>3. /\ TypeOK' /\ GroupInv' /\ FaultInv'
      /\ drop'[d] = "done" /\ \A e \in Drops : e # d => drop'[e] = drop[e]
  BY <1>1, <1>2, WriteCause, CommandKeeps
<1>4. DropInv'
  BY <1>1, <1>3, WriteCause, WritesApart DEF Inv, DropInv, Begun
<1>5. ~overlapped' => LoneInv'
  <2>1. ~overlapped => CauseInv' /\ \A v : Waits(v)' <=> Waits(v) \/ v = Dropped(d)
    <3>1. ~overlapped => \A e \in Drops : Dropped(d) = Dropped(e) => Waits(Found(e))
      BY <1>1, WritesApart DEF Inv, LoneInv, KeepInv
    <3> QED  BY <1>1, <3>1, WriteCause DEF Inv, LoneInv
  <2>2. ~overlapped => KeepInv'
    BY <1>3, <2>1 DEF Inv, LoneInv, KeepInv
  <2> QED  BY <1>1, <2>1, <2>2, MoveLock DEF LineMove, Inv, LoneInv
<1> QED  BY <1>3, <1>4, <1>5 DEF Inv
-----------------------------------------------------------------------------
(* Faults. *)

LEMMA DisconnectsStep ==
    ASSUME Inv, Disconnects, \A k \in Kills : Stored(Killed(k))' <=> Stored(Killed(k))
    PROVE  /\ GroupInv' /\ FaultInv' /\ faults' \in 0 .. MaxFaults /\ acks' = {}
           /\ UNCHANGED <<autoAck, delivered>>
           /\ group' \in [Kills -> {"none", "queued", "inFlight", "acked", "parked"}]
<1>1. /\ faults' = faults + 1 /\ faults \in Nat /\ faults' \in 0 .. MaxFaults /\ acks' = {}
      /\ UNCHANGED <<autoAck, delivered>>
      /\ group' = [k \in Kills |-> IF group[k] = "inFlight" THEN Again(k) ELSE group[k]]
  BY HeroesAssumption DEF Disconnects, Inv, TypeOK
<1>2. group' \in [Kills -> {"none", "queued", "inFlight", "acked", "parked"}]
  BY <1>1 DEF Again, Inv, TypeOK
<1>3. GroupInv'
  BY <1>1 DEF Again, Inv, GroupInv
<1>4. FaultInv'
  <2>1. \A k \in Kills : group'[k] # "inFlight" /\ delivered[k] \in Nat
    BY <1>1 DEF Again, Inv, TypeOK
  <2> QED  BY <1>1, <2>1 DEF Inv, FaultInv
<1> QED  BY <1>1, <1>2, <1>3, <1>4

LEMMA ClosesStep ==
    ASSUME Inv, Watched(StreamCloses)
    PROVE  Inv'
<1>1. /\ Disconnects /\ UNCHANGED <<line, kill>> /\ connecting' \subseteq Runs
      /\ drop' = [d \in Drops |-> IF drop[d] = "dispatching" THEN "adrift" ELSE drop[d]]
      /\ overlapped' = (overlapped \/ ~Line!AtMostOneDrain')
  BY DEF Watched, StreamCloses, Inv, TypeOK
<1>2. /\ GroupInv' /\ FaultInv' /\ faults' \in 0 .. MaxFaults /\ acks' = {}
      /\ UNCHANGED <<autoAck, delivered>>
      /\ group' \in [Kills -> {"none", "queued", "inFlight", "acked", "parked"}]
  BY <1>1, SameLine, DisconnectsStep
<1>3. TypeOK'
  BY <1>1, <1>2, SameLine DEF Inv, TypeOK, Live
<1>4. DropInv'
  BY <1>1, <1>2, SameDrops DEF Begun
<1>5. ~overlapped' => LoneInv'
  BY <1>1, SameLone DEF Watched
<1> QED  BY <1>2, <1>3, <1>4, <1>5 DEF Inv

LEMMA CrashStep ==
    ASSUME Inv, Watched(Crashes)
    PROVE  Inv'
<1>1. /\ Disconnects /\ fifo' = <<>> /\ isTrying' = FALSE
      /\ phase' = [d \in Line!Drainers |-> IF phase[d] = "idle" THEN "idle" ELSE "failed"]
      /\ current' = [d \in Line!Drainers |-> None]
      /\ result' = [d \in Line!Drainers |-> None]
      /\ connection' \in {"up", "down"} /\ connecting' \subseteq Runs
      /\ UNCHANGED <<sent, stored, accepted>>
      /\ kill' = [k \in Kills |-> IF kill[k] = "fighting" THEN "failed" ELSE kill[k]]
      /\ overlapped' = (overlapped \/ ~Line!AtMostOneDrain')
  BY DEF Watched, Crashes
<1>2. \A v : Stored(v)' <=> Stored(v)
  BY <1>1 DEF Stored
<1>3. /\ GroupInv' /\ FaultInv' /\ faults' \in 0 .. MaxFaults /\ acks' = {}
      /\ UNCHANGED <<autoAck, delivered>>
      /\ group' \in [Kills -> {"none", "queued", "inFlight", "acked", "parked"}]
  BY <1>1, <1>2, DisconnectsStep
<1>4. /\ drop' \in [Drops -> Live \cup Ended]
      /\ \A d \in Drops :
          \/ drop'[d] = drop[d] /\ drop[d] \notin Live /\ (drop[d] = "done" => Stored(Dropped(d)))
          \/ drop'[d] = "lost" /\ drop[d] # "none"
          \/ drop'[d] = "unhandled" /\ drop[d] \in {"dispatching", "adrift"}
  BY DEF Watched, Crashes, Live, Commanded, Ended, Inv, TypeOK
<1>5. Line!TypeOK' /\ \A d \in Line!Drainers : ~Line!Active(d)'
  BY <1>1, EmptySeq DEF Inv, TypeOK, Line!TypeOK, Line!LineTypeOK, Line!Phases, Line!Active
<1>6. TypeOK'
  BY <1>1, <1>3, <1>4, <1>5 DEF Inv, TypeOK
<1>7. /\ \A v : Asked(v)' => Asked(v)
      /\ \A v, u : Before(v, u)' <=> Before(v, u)
  BY <1>1 DEF Asked, Before, ToSet
<1>8. DropInv'
  BY <1>3, <1>4, <1>7 DEF Inv, DropInv, Begun, Drops
<1>9. ~overlapped' => LoneInv'
  <2>1. Line!LockInv'
    BY <1>1, <1>5 DEF Line!LockInv, Line!AtMostOneDrain, Line!Active
  <2>2. ~overlapped => CauseInv'
    <3>1. Len(fifo') = 0
      BY <1>1, EmptySeq
    <3> QED  BY <1>1, <1>2, <1>7, <3>1 DEF Inv, LoneInv, CauseInv, Ahead
  <2>3. KeepInv'
    BY <1>2, <1>4 DEF KeepInv, Waits, Stored, Live, Commanded
  <2> QED  BY <1>1, <2>1, <2>2, <2>3 DEF LoneInv
<1> QED  BY <1>3, <1>6, <1>8, <1>9 DEF Inv

LEMMA InvStep == Inv /\ [Next]_vars => Inv'
<1> SUFFICES ASSUME Inv, [Next]_vars PROVE Inv'
  OBVIOUS
<1>1. CASE UNCHANGED vars
  <2>1. /\ UNCHANGED <<autoAck, connecting, kill, group, delivered, acks, drop, faults, overlapped>>
        /\ UNCHANGED line
    BY <1>1 DEF vars, delivery
  <2>2. TypeOK' /\ GroupInv' /\ DropInv' /\ FaultInv'
    BY <2>1, SameLine DEF Inv, TypeOK, GroupInv, DropInv, FaultInv, Attended
  <2> QED  BY <2>1, <2>2, SameLine DEF Inv, LoneInv, KeepInv
<1>2. CASE Next
  BY <1>2, KillStep, LoopsStep, AppendsStep, AnswerStep, ReceivesStep, QuietCommandStep,
     AddsStep, DropsStep, ClosesStep, CrashStep
  DEF Next, Step, Watched, CommandStep
<1> QED  BY <1>1, <1>2

LEMMA InvAlways == Spec => []Inv
  BY InvStart, InvStep, PTL DEF Spec
-----------------------------------------------------------------------------
(* The state of the example keeps its type: no event is delivered more     *)
(* often than the group allows.                                            *)
THEOREM HeroesTypeCorrect == Spec => []TypeOK
<1>1. Inv => TypeOK
  BY DEF Inv
<1> QED  BY <1>1, InvAlways, PTL

(* For any kills, deliveries, refused requests and crashes the hero's      *)
(* stream shows causes before effects: a kill before its items always, and *)
(* an item found before it is dropped until two loops drain the line.      *)
THEOREM CausesAreFirst == Spec => []CausesFirst
<1>1. Inv => CausesFirst
  BY DEF Inv, DropInv, LoneInv, CauseInv, CausesFirst
<1> QED  BY <1>1, InvAlways, PTL

(* With an _autoAck every item but the first takes a fault.                *)
THEOREM ItemsTakeFaults == Spec => []OneItemPerKill
<1>1. Inv => OneItemPerKill
  <2> SUFFICES ASSUME Inv, autoAck # "absent", NEW d \in Drops, Stored(Found(d))
               PROVE  d[2] <= 1 + faults
    BY DEF OneItemPerKill
  <2>1. d[1] \in Kills /\ d[2] \in Nat
    BY DEF Drops
  <2>2. d[2] <= delivered[d[1]]
    BY DEF Inv, DropInv, Asked, Stored, Begun
  <2>3. delivered[d[1]] <= 1 + faults /\ delivered[d[1]] \in Nat /\ faults \in Nat
    BY <2>1 DEF Inv, FaultInv, TypeOK
  <2> QED  BY <2>1, <2>2, <2>3
<1> QED  BY <1>1, InvAlways, PTL

(* Until two loops drain the line, an item that the hero keeps for good is *)
(* one whose command failed or was lost in a crash.                        *)
THEOREM ItemsAreDropped == Spec => []NothingKept
<1>1. Inv => NothingKept
  <2> SUFFICES ASSUME Inv, ~overlapped, fifo = <<>>, NEW d \in Drops, drop[d] \notin Live,
                      Stored(Found(d)), ~Stored(Dropped(d))
               PROVE  drop[d] \in {"failed", "lost"}
    BY DEF NothingKept
  <2>1. drop[d] \in Begun
    BY DEF Inv, DropInv, Asked, Stored
  <2>2. ~Waits(Dropped(d))
    BY DEF Waits, Stored, ToSet
  <2>3. drop[d] # "done"
    BY <2>2 DEF Inv, LoneInv, KeepInv
  <2> QED  BY <2>1, <2>3 DEF Begun, Live, Commanded
<1> QED  BY <1>1, InvAlways, PTL
=============================================================================
