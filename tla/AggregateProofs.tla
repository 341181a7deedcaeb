-------------------------- MODULE AggregateProofs --------------------------
(***************************************************************************)
(* Theorems about the event store aggregate root, for any events, commits  *)
(* and publishers.                                                         *)
(***************************************************************************)
EXTENDS EventStoreAggregateRoot, TLAPS

-----------------------------------------------------------------------------
(* Sequences, as sets. *)

LEMMA ToSetAppend ==
    ASSUME NEW S, NEW s \in Seq(S), NEW e \in S
    PROVE  ToSet(Append(s, e)) = ToSet(s) \cup {e}
<1> DEFINE t == Append(s, e)
<1>1. t \in Seq(S) /\ Len(t) = Len(s) + 1 /\ Len(s) \in Nat
  OBVIOUS
<1>2. DOMAIN t = 1..(Len(s) + 1) /\ DOMAIN s = 1..Len(s)
  BY <1>1
<1>3. t[Len(s) + 1] = e /\ \A i \in 1..Len(s) : t[i] = s[i]
  OBVIOUS
<1>4. ASSUME NEW x \in ToSet(t)
      PROVE  x \in ToSet(s) \cup {e}
  <2>1. PICK i \in 1..(Len(s) + 1) : x = t[i]
    BY <1>2 DEF ToSet
  <2> QED
    BY <1>1, <1>2, <1>3, <2>1 DEF ToSet
<1>5. ASSUME NEW x \in ToSet(s) \cup {e}
      PROVE  x \in ToSet(t)
  <2>1. CASE x = e
    BY <1>1, <1>2, <1>3, <2>1 DEF ToSet
  <2>2. CASE x \in ToSet(s)
    <3>1. PICK i \in 1..Len(s) : x = s[i]
      BY <1>2, <2>2 DEF ToSet
    <3> QED
      BY <1>1, <1>2, <1>3, <3>1 DEF ToSet
  <2> QED
    BY <2>1, <2>2
<1> QED
  BY <1>4, <1>5

LEMMA ToSetEmpty == ToSet(<<>>) = {}
BY DEF ToSet

LEMMA ToSetElements ==
    ASSUME NEW S, NEW s \in Seq(S)
    PROVE  ToSet(s) \subseteq S
BY DEF ToSet

LEMMA ToSetIndex ==
    ASSUME NEW S, NEW s \in Seq(S), NEW x
    PROVE  x \in ToSet(s) <=> \E i \in 1..Len(s) : s[i] = x
<1>1. DOMAIN s = 1..Len(s)
  OBVIOUS
<1> QED
  BY <1>1 DEF ToSet

(* The number of the awaited publisher is that of a publisher. *)
LEMMA PublisherInRange ==
    ASSUME NEW k \in 1..Len(Publishers)
    PROVE  Publishers[k] \in ToSet(Publishers)
BY AggregateAssumption DEF AggregateAssumption, ToSet
-----------------------------------------------------------------------------
(* Type correctness. *)

LEMMA TypeInit == Init => TypeOK
<1> SUFFICES ASSUME Init
             PROVE  TypeOK
  OBVIOUS
<1>1. 1 \in 1..Len(Publishers)
  BY AggregateAssumption DEF AggregateAssumption
<1>2. <<>> \in Seq(Events)
  OBVIOUS
<1>3. at \in [Commits -> 1..Len(Publishers)]
  BY <1>1 DEF Init
<1>4. /\ batch \in [Commits -> Seq(Events)]
      /\ received \in [ToSet(Publishers) -> Seq(Events)]
  BY <1>2 DEF Init
<1>5. accepted \in [ToSet(Publishers) -> SUBSET Events]
  BY DEF Init
<1>6. stage \in [Commits -> {"idle", "publishing", "done", "failed"}]
  BY DEF Init
<1> QED
  BY <1>2, <1>3, <1>4, <1>5, <1>6 DEF Init, TypeOK

LEMMA TypeStep == TypeOK /\ [Next]_vars => TypeOK'
<1> SUFFICES ASSUME TypeOK, [Next]_vars
             PROVE  TypeOK'
  OBVIOUS
<1>1. ASSUME NEW e \in Events, Apply(e)
      PROVE  TypeOK'
  <2>1. uncommitted' \in Seq(Events) /\ applied' \in Seq(Events)
    BY <1>1 DEF Apply, Add, TypeOK
  <2> QED
    BY <1>1, <2>1 DEF Apply, TypeOK, commitVars, publisherVars
<1>2. ASSUME NEW e \in Events, NEW c \in Commits, ApplyAndCommit(e, c)
      PROVE  TypeOK'
  <2>1. uncommitted' \in Seq(Events) /\ applied' \in Seq(Events)
    BY <1>2 DEF ApplyAndCommit, Add, TypeOK
  <2> QED
    BY <1>2, <2>1 DEF ApplyAndCommit, Starts, TypeOK, publisherVars
<1>3. CASE Uncommit
  <2>1. discarded' \subseteq Events
    BY <1>3, ToSetElements DEF Uncommit, TypeOK
  <2> QED
    BY <1>3, <2>1 DEF Uncommit, TypeOK, commitVars, publisherVars
<1>4. CASE SetAutoCommit
  BY <1>4 DEF SetAutoCommit, TypeOK, commitVars, publisherVars
<1>5. ASSUME NEW c \in Commits, Commit(c)
      PROVE  TypeOK'
  BY <1>5 DEF Commit, Starts, TypeOK, publisherVars
<1>6. ASSUME NEW c \in Commits, Copies(c)
      PROVE  TypeOK'
  <2>1. \A p \in ToSet(Publishers) : received[p] \o uncommitted \in Seq(Events)
    BY DEF TypeOK
  <2>2. received' \in [ToSet(Publishers) -> Seq(Events)]
    BY <1>6, <2>1 DEF Copies, TypeOK
  <2> QED
    BY <1>6, <2>2 DEF Copies, TypeOK
<1>7. ASSUME NEW c \in Commits, CallsNext(c)
      PROVE  TypeOK'
  <2>1. at[c] + 1 \in 1..Len(Publishers)
    BY <1>7, AggregateAssumption DEF CallsNext, TypeOK, AggregateAssumption
  <2>2. accepted' \in [ToSet(Publishers) -> SUBSET Events]
    BY <1>7, ToSetElements DEF CallsNext, TypeOK
  <2> QED
    BY <1>7, <2>1, <2>2 DEF CallsNext, TypeOK
<1>8. ASSUME NEW c \in Commits, Finish(c)
      PROVE  TypeOK'
  <2>1. accepted' \in [ToSet(Publishers) -> SUBSET Events]
    BY <1>8, ToSetElements DEF Finish, Returns, TypeOK
  <2> QED
    BY <1>8, <2>1 DEF Finish, Returns, TypeOK
<1>9. ASSUME NEW c \in Commits, Fail(c)
      PROVE  TypeOK'
  BY <1>9 DEF Fail, Throws, TypeOK, publisherVars
<1>10. CASE UNCHANGED vars
  BY <1>10 DEF vars, commitVars, publisherVars, TypeOK
<1> QED
  BY <1>1, <1>2, <1>3, <1>4, <1>5, <1>6, <1>7, <1>8, <1>9, <1>10 DEF Next

(* The aggregate keeps its state well typed: its commits never count past  *)
(* the last of their publishers.                                           *)
THEOREM AggregateTypeCorrect == Spec => []TypeOK
  BY TypeInit, TypeStep, PTL DEF Spec
-----------------------------------------------------------------------------
(* Nothing is cleared that is not published, in an application that does   *)
(* not apply or discard events while a commit is at work.                  *)

(* A commit at work has given the publishers before the one it awaits all  *)
(* that is in the array now, and that one too, once it has copied it: the  *)
(* array only shrinks meanwhile.                                           *)
CommitInv ==
    \A c \in Commits :
        /\ stage[c] = "idle" => at[c] = 1 /\ ~copied[c]
        /\ stage[c] = "publishing" =>
            /\ \A k \in 1..(at[c] - 1) : ToSet(uncommitted) \subseteq accepted[Publishers[k]]
            /\ copied[c] => ToSet(uncommitted) \subseteq ToSet(batch[c])

PublishedByAll == {e \in Events : \A p \in ToSet(Publishers) : e \in accepted[p]}

LEMMA CommitInit == Init => CommitInv /\ ClearedMeansPublished
BY ToSetEmpty DEF Init, CommitInv, ClearedMeansPublished

(* While no commit is at work there is nothing to say of the array. *)
LEMMA NoneAtWork ==
    ASSUME CommitInv, ~Committing,
           UNCHANGED commitVars
    PROVE  CommitInv'
BY DEF CommitInv, Committing, commitVars

(* A commit that starts has given nothing yet. *)
LEMMA StartsKeeps ==
    ASSUME TypeOK, CommitInv,
           NEW c \in Commits, Starts(c),
           accepted' = accepted,
           uncommitted' = uncommitted \/ ~Committing
    PROVE  CommitInv'
<1> SUFFICES ASSUME NEW d \in Commits
             PROVE  CommitInv!(d)'
  BY DEF CommitInv
<1>1. CASE d = c
  BY <1>1 DEF CommitInv, Starts, TypeOK
<1>2. CASE d # c
  BY <1>2 DEF CommitInv, Starts, TypeOK, Committing
<1> QED
  BY <1>1, <1>2

LEMMA CommitStep ==
    ASSUME AppliesDuringCommit = FALSE,
           TypeOK, CommitInv, [Next]_vars
    PROVE  CommitInv'
<1>1. ASSUME NEW e \in Events, Apply(e)
      PROVE  CommitInv'
  BY <1>1, NoneAtWork DEF Apply, MayApply
<1>2. ASSUME NEW e \in Events, NEW c \in Commits, ApplyAndCommit(e, c)
      PROVE  CommitInv'
  BY <1>2, StartsKeeps DEF ApplyAndCommit, MayApply, publisherVars
<1>3. CASE Uncommit
  BY <1>3, NoneAtWork DEF Uncommit, MayApply
<1>4. CASE SetAutoCommit
  BY <1>4 DEF SetAutoCommit, CommitInv, commitVars, publisherVars
<1>5. ASSUME NEW c \in Commits, Commit(c)
      PROVE  CommitInv'
  BY <1>5, StartsKeeps DEF Commit, publisherVars
<1>6. ASSUME NEW c \in Commits, Copies(c)
      PROVE  CommitInv'
  BY <1>6 DEF Copies, CommitInv, TypeOK
<1>7. ASSUME NEW c \in Commits, CallsNext(c)
      PROVE  CommitInv'
  <2> SUFFICES ASSUME NEW d \in Commits
               PROVE  CommitInv!(d)'
    BY DEF CommitInv
  <2>1. /\ \A p \in ToSet(Publishers) : accepted[p] \subseteq accepted'[p]
        /\ uncommitted' = uncommitted /\ stage' = stage /\ batch' = batch
    BY <1>7 DEF CallsNext, TypeOK
  <2>2. \A k \in 1..(at[d] - 1) : Publishers[k] \in ToSet(Publishers)
    BY PublisherInRange DEF TypeOK
  <2>3. CASE d # c
    BY <1>7, <2>1, <2>2, <2>3 DEF CallsNext, CommitInv, TypeOK
  <2>4. CASE d = c
    <3>1. stage[c] = "publishing" /\ copied[c] /\ at'[c] = at[c] + 1 /\ ~copied'[c]
      BY <1>7 DEF CallsNext, TypeOK
    <3>2. ToSet(uncommitted) \subseteq accepted'[Publishers[at[c]]]
      <4>1. Publisher(c) \in ToSet(Publishers)
        BY PublisherInRange DEF Publisher, TypeOK
      <4> QED
        BY <1>7, <3>1, <4>1 DEF CallsNext, CommitInv, TypeOK, Publisher
    <3>3. \A k \in 1..at[c] : ToSet(uncommitted) \subseteq accepted'[Publishers[k]]
      <4> TAKE k \in 1..at[c]
      <4>1. CASE k = at[c]
        BY <3>2, <4>1
      <4>2. CASE k # at[c]
        <5>1. k \in 1..(at[c] - 1)
          BY <4>2 DEF TypeOK
        <5> QED
          BY <2>1, <2>2, <2>4, <3>1, <5>1 DEF CommitInv
      <4> QED
        BY <4>1, <4>2
    <3>4. at[c] \in Nat
      BY DEF TypeOK
    <3> QED
      BY <2>1, <2>4, <3>1, <3>3, <3>4
  <2> QED
    BY <2>3, <2>4
<1>8. ASSUME NEW c \in Commits, Finish(c)
      PROVE  CommitInv'
  <2>1. ToSet(uncommitted') = {}
    BY <1>8, ToSetEmpty DEF Finish
  <2> QED
    BY <1>8, <2>1 DEF Finish, Returns, CommitInv, TypeOK
<1>9. ASSUME NEW c \in Commits, Fail(c)
      PROVE  CommitInv'
  BY <1>9 DEF Fail, Throws, CommitInv, TypeOK, publisherVars
<1>10. CASE UNCHANGED vars
  BY <1>10 DEF vars, commitVars, publisherVars, CommitInv
<1> QED
  BY <1>1, <1>2, <1>3, <1>4, <1>5, <1>6, <1>7, <1>8, <1>9, <1>10 DEF Next

(* The last publisher of a commit that returns has all that is cleared,    *)
(* and so have those before it.                                            *)
LEMMA FinishPublished ==
    ASSUME TypeOK, CommitInv, NEW c \in Commits, Finish(c)
    PROVE  ToSet(uncommitted) \subseteq PublishedByAll'
<1> SUFFICES ASSUME NEW e \in ToSet(uncommitted), NEW p \in ToSet(Publishers)
             PROVE  e \in accepted'[p]
  BY ToSetElements DEF PublishedByAll, TypeOK
<1>1. PICK k \in 1..Len(Publishers) : p = Publishers[k]
  BY AggregateAssumption DEF AggregateAssumption, ToSet
<1>2. CASE k = at[c]
  BY <1>1, <1>2 DEF Finish, Returns, CommitInv, TypeOK, Publisher
<1>3. CASE k # at[c]
  <2>1. k \in 1..(at[c] - 1) /\ stage[c] = "publishing"
    BY <1>3, AggregateAssumption DEF Finish, Returns, TypeOK, AggregateAssumption
  <2>2. e \in accepted[p]
    BY <1>1, <2>1 DEF CommitInv
  <2> QED
    BY <2>2 DEF Finish, Returns, TypeOK
<1> QED
  BY <1>2, <1>3

LEMMA ClearedStep ==
    ASSUME TypeOK, CommitInv, ClearedMeansPublished, [Next]_vars
    PROVE  ClearedMeansPublished'
<1> USE DEF PublishedByAll
<1> SUFFICES ToSet(applied') \subseteq
                 ToSet(uncommitted') \cup discarded' \cup PublishedByAll'
  BY DEF ClearedMeansPublished
<1>0. ToSet(applied) \subseteq ToSet(uncommitted) \cup discarded \cup PublishedByAll
  BY DEF ClearedMeansPublished
<1>1. ASSUME NEW e \in Events, uncommitted' = Append(uncommitted, e),
             Add(e), UNCHANGED <<discarded, publisherVars>>
      PROVE  ToSet(applied') \subseteq
                 ToSet(uncommitted') \cup discarded' \cup PublishedByAll'
  <2>1. /\ ToSet(applied') = ToSet(applied) \cup {e}
        /\ ToSet(uncommitted') = ToSet(uncommitted) \cup {e}
    BY <1>1, ToSetAppend DEF Add, TypeOK
  <2> QED
    BY <1>0, <1>1, <2>1 DEF publisherVars
<1>2. ASSUME UNCHANGED <<uncommitted, applied, discarded>>,
             \A p \in ToSet(Publishers) : accepted[p] \subseteq accepted'[p]
      PROVE  ToSet(applied') \subseteq
                 ToSet(uncommitted') \cup discarded' \cup PublishedByAll'
  BY <1>0, <1>2
<1>3. CASE \E e \in Events : Apply(e)
  BY <1>1, <1>3 DEF Apply
<1>4. CASE \E e \in Events, c \in Commits : ApplyAndCommit(e, c)
  BY <1>1, <1>4 DEF ApplyAndCommit
<1>5. CASE Uncommit
  BY <1>0, <1>5 DEF Uncommit, publisherVars
<1>6. CASE SetAutoCommit
  BY <1>2, <1>6 DEF SetAutoCommit, publisherVars
<1>7. CASE \E c \in Commits : Commit(c)
  BY <1>2, <1>7 DEF Commit, publisherVars
<1>8. CASE \E c \in Commits : Copies(c)
  BY <1>2, <1>8 DEF Copies
<1>9. ASSUME NEW c \in Commits, CallsNext(c)
      PROVE  \A p \in ToSet(Publishers) : accepted[p] \subseteq accepted'[p]
  BY <1>9 DEF CallsNext, TypeOK
<1>10. CASE \E c \in Commits : CallsNext(c)
  BY <1>2, <1>9, <1>10 DEF CallsNext
<1>11. ASSUME NEW c \in Commits, Finish(c)
       PROVE  ToSet(applied') \subseteq
                  ToSet(uncommitted') \cup discarded' \cup PublishedByAll'
  <2>1. ToSet(uncommitted) \subseteq PublishedByAll'
    BY <1>11, FinishPublished
  <2>2. PublishedByAll \subseteq PublishedByAll'
    BY <1>11 DEF Finish, Returns, TypeOK
  <2>3. applied' = applied /\ discarded' = discarded
    BY <1>11 DEF Finish, Returns
  <2> QED
    BY <1>0, <2>1, <2>2, <2>3
<1>12. CASE \E c \in Commits : Fail(c)
  BY <1>2, <1>12 DEF Fail, Throws, publisherVars
<1>13. CASE UNCHANGED vars
  BY <1>2, <1>13 DEF vars, publisherVars
<1> QED
  BY <1>3, <1>4, <1>5, <1>6, <1>7, <1>8, <1>10, <1>11, <1>12, <1>13 DEF Next

(* commit() of the event store aggregate root clears only what all         *)
(* publishers have published, however many commits overlap and fail, in an *)
(* application that applies no event while a commit is at work.            *)
THEOREM ClearedIsPublished ==
    ASSUME AppliesDuringCommit = FALSE
    PROVE  Spec => []ClearedMeansPublished
<1>1. TypeOK /\ CommitInv /\ ClearedMeansPublished /\ [Next]_vars
        => (CommitInv /\ ClearedMeansPublished)'
  BY CommitStep, ClearedStep
<1> QED
  BY <1>1, CommitInit, AggregateTypeCorrect, PTL DEF Spec
-----------------------------------------------------------------------------
(* Publishers get the events in the order in which they were applied.      *)

LEMMA ToSetSubSeq ==
    ASSUME NEW S, NEW s \in Seq(S), NEW k \in 0..Len(s), NEW x
    PROVE  x \in ToSet(SubSeq(s, 1, k)) <=> \E i \in 1..k : s[i] = x
<1>1. /\ SubSeq(s, 1, k) \in Seq(S) /\ Len(SubSeq(s, 1, k)) = k
      /\ \A i \in 1..k : SubSeq(s, 1, k)[i] = s[i]
  OBVIOUS
<1>2. DOMAIN SubSeq(s, 1, k) = 1..k
  BY <1>1
<1> QED
  BY <1>1, <1>2 DEF ToSet

LEMMA ToSetConcat ==
    ASSUME NEW S, NEW s \in Seq(S), NEW t \in Seq(S)
    PROVE  /\ ToSet(s) \subseteq ToSet(s \o t)
           /\ ToSet(t) \subseteq ToSet(s \o t)
<1>1. /\ s \o t \in Seq(S) /\ Len(s \o t) = Len(s) + Len(t)
      /\ \A i \in 1..Len(s) : (s \o t)[i] = s[i]
      /\ \A i \in 1..Len(t) : (s \o t)[Len(s) + i] = t[i]
  OBVIOUS
<1>2. /\ DOMAIN (s \o t) = 1..(Len(s) + Len(t))
      /\ DOMAIN s = 1..Len(s) /\ DOMAIN t = 1..Len(t)
      /\ Len(s) \in Nat /\ Len(t) \in Nat
  BY <1>1
<1>3. ASSUME NEW x \in ToSet(s) PROVE x \in ToSet(s \o t)
  <2>1. PICK i \in 1..Len(s) : x = s[i]
    BY <1>2 DEF ToSet
  <2>2. i \in 1..(Len(s) + Len(t)) /\ x = (s \o t)[i]
    BY <1>1, <1>2, <2>1
  <2> QED
    BY <1>2, <2>2 DEF ToSet
<1>4. ASSUME NEW x \in ToSet(t) PROVE x \in ToSet(s \o t)
  <2>1. PICK i \in 1..Len(t) : x = t[i]
    BY <1>2 DEF ToSet
  <2>2. Len(s) + i \in 1..(Len(s) + Len(t)) /\ x = (s \o t)[Len(s) + i]
    BY <1>1, <1>2, <2>1
  <2> QED
    BY <1>2, <2>2 DEF ToSet
<1> QED
  BY <1>3, <1>4

LEMMA ConcatElements ==
    ASSUME NEW S, NEW s \in Seq(S), NEW t \in Seq(S), NEW x \in ToSet(s \o t)
    PROVE  x \in ToSet(s) \cup ToSet(t)
<1>1. /\ DOMAIN (s \o t) = 1..(Len(s) + Len(t))
      /\ DOMAIN s = 1..Len(s) /\ DOMAIN t = 1..Len(t)
      /\ Len(s) \in Nat /\ Len(t) \in Nat
  OBVIOUS
<1>2. PICK i \in 1..(Len(s) + Len(t)) : x = (s \o t)[i]
  BY <1>1 DEF ToSet
<1>3. CASE i <= Len(s)
  BY <1>1, <1>2, <1>3 DEF ToSet
<1>4. CASE i > Len(s)
  <2>1. x = t[i - Len(s)] /\ i - Len(s) \in 1..Len(t)
    BY <1>1, <1>2, <1>4
  <2> QED
    BY <1>1, <2>1 DEF ToSet
<1> QED
  BY <1>1, <1>3, <1>4

(* What a publisher published it had read, and what it read was applied.   *)
ReadInv ==
    /\ ToSet(uncommitted) \subseteq ToSet(applied)
    /\ \A p \in ToSet(Publishers) :
        accepted[p] \subseteq ToSet(received[p]) /\ ToSet(received[p]) \subseteq ToSet(applied)
    /\ \A c \in Commits :
        stage[c] = "publishing" /\ copied[c] =>
            ToSet(batch[c]) \subseteq ToSet(received[Publisher(c)])

(* An event that was applied before one in the array is ahead of it there, *)
(* or discarded, or published by all.                                      *)
OrderInv ==
    \A m \in 1..Len(uncommitted) : \A j, i \in 1..Len(applied) :
        j < i /\ applied[i] = uncommitted[m] =>
            \/ \E l \in 1..m : uncommitted[l] = applied[j]
            \/ applied[j] \in discarded \cup PublishedByAll

LEMMA ReadInit == Init => ReadInv /\ OrderInv /\ ReceivedInOrder
<1> SUFFICES ASSUME Init
             PROVE  ReadInv /\ OrderInv /\ ReceivedInOrder
  OBVIOUS
<1>1. ReadInv
  BY ToSetEmpty DEF Init, ReadInv
<1>2. Len(uncommitted) = 0 /\ \A p \in ToSet(Publishers) : DOMAIN received[p] = {}
  BY DEF Init
<1> QED
  BY <1>1, <1>2 DEF OrderInv, ReceivedInOrder

LEMMA ReadStep ==
    ASSUME TypeOK, CommitInv, ReadInv, [Next]_vars
    PROVE  ReadInv'
<1>1. ASSUME NEW e \in Events, Add(e), uncommitted' = Append(uncommitted, e)
      PROVE  /\ ToSet(uncommitted') \subseteq ToSet(applied')
             /\ ToSet(applied) \subseteq ToSet(applied')
  <2>1. /\ ToSet(applied') = ToSet(applied) \cup {e}
        /\ ToSet(uncommitted') = ToSet(uncommitted) \cup {e}
    BY <1>1, ToSetAppend DEF Add, TypeOK
  <2> QED
    BY <2>1 DEF ReadInv
<1>2. ASSUME NEW e \in Events, Apply(e)
      PROVE  ReadInv'
  <2>1. /\ ToSet(uncommitted') \subseteq ToSet(applied')
        /\ ToSet(applied) \subseteq ToSet(applied')
    BY <1>1, <1>2 DEF Apply
  <2> QED
    BY <1>2, <2>1 DEF Apply, ReadInv, commitVars, publisherVars, Publisher
<1>3. ASSUME NEW e \in Events, NEW c \in Commits, ApplyAndCommit(e, c)
      PROVE  ReadInv'
  <2>1. /\ ToSet(uncommitted') \subseteq ToSet(applied')
        /\ ToSet(applied) \subseteq ToSet(applied')
    BY <1>1, <1>3 DEF ApplyAndCommit
  <2>2. ~copied[c]
    BY <1>3 DEF ApplyAndCommit, Starts, CommitInv
  <2> QED
    BY <1>3, <2>1, <2>2 DEF ApplyAndCommit, Starts, ReadInv, publisherVars, Publisher, TypeOK
<1>4. CASE Uncommit
  BY <1>4, ToSetEmpty DEF Uncommit, ReadInv, commitVars, publisherVars, Publisher
<1>5. CASE SetAutoCommit
  BY <1>5 DEF SetAutoCommit, ReadInv, commitVars, publisherVars, Publisher
<1>6. ASSUME NEW c \in Commits, Commit(c)
      PROVE  ReadInv'
  <2>1. ~copied[c]
    BY <1>6 DEF Commit, Starts, CommitInv
  <2> QED
    BY <1>6, <2>1 DEF Commit, Starts, ReadInv, publisherVars, Publisher, TypeOK
<1>7. ASSUME NEW c \in Commits, Copies(c)
      PROVE  ReadInv'
  <2>1. Publisher(c) \in ToSet(Publishers)
    BY PublisherInRange DEF Publisher, TypeOK
  <2>2. \A p \in ToSet(Publishers) :
            received'[p] = IF p = Publisher(c) THEN received[p] \o uncommitted ELSE received[p]
    BY <1>7, <2>1 DEF Copies, TypeOK
  <2>3. \A p \in ToSet(Publishers) :
            /\ ToSet(received[p]) \subseteq ToSet(received'[p])
            /\ p = Publisher(c) => ToSet(uncommitted) \subseteq ToSet(received'[p])
    BY <2>2, ToSetConcat DEF TypeOK
  <2>4. \A p \in ToSet(Publishers) : ToSet(received'[p]) \subseteq ToSet(applied)
    <3> SUFFICES ASSUME NEW p \in ToSet(Publishers), NEW x \in ToSet(received'[p])
                 PROVE  x \in ToSet(applied)
      OBVIOUS
    <3>1. CASE p # Publisher(c)
      BY <2>2, <3>1 DEF ReadInv
    <3>2. CASE p = Publisher(c)
      BY <2>2, <3>2, ConcatElements DEF ReadInv, TypeOK
    <3> QED
      BY <3>1, <3>2
  <2>5. ASSUME NEW d \in Commits, stage'[d] = "publishing", copied'[d]
        PROVE  ToSet(batch'[d]) \subseteq ToSet(received'[Publisher(d)'])
    <3>1. Publisher(d)' = Publisher(d) /\ Publisher(d) \in ToSet(Publishers)
      BY <1>7, PublisherInRange DEF Copies, Publisher, TypeOK
    <3>2. CASE d = c
      BY <1>7, <2>3, <3>1, <3>2 DEF Copies, TypeOK
    <3>3. CASE d # c
      BY <1>7, <2>3, <2>5, <3>1, <3>3 DEF Copies, ReadInv, TypeOK
    <3> QED
      BY <3>2, <3>3
  <2>6. UNCHANGED <<uncommitted, applied, accepted>>
    BY <1>7 DEF Copies
  <2> QED
    BY <2>3, <2>4, <2>5, <2>6 DEF ReadInv
<1>8. ASSUME NEW c \in Commits, CallsNext(c)
      PROVE  ReadInv'
  <2>1. Publisher(c) \in ToSet(Publishers)
    BY PublisherInRange DEF Publisher, TypeOK
  <2>2. \A p \in ToSet(Publishers) : accepted'[p] \subseteq ToSet(received[p])
    BY <1>8, <2>1 DEF CallsNext, ReadInv, TypeOK
  <2> QED
    BY <1>8, <2>2 DEF CallsNext, ReadInv, TypeOK, Publisher
<1>9. ASSUME NEW c \in Commits, Finish(c)
      PROVE  ReadInv'
  <2>1. Publisher(c) \in ToSet(Publishers)
    BY PublisherInRange DEF Publisher, TypeOK
  <2>2. \A p \in ToSet(Publishers) : accepted'[p] \subseteq ToSet(received[p])
    BY <1>9, <2>1 DEF Finish, Returns, ReadInv, TypeOK
  <2> QED
    BY <1>9, <2>2, ToSetEmpty DEF Finish, Returns, ReadInv, TypeOK, Publisher
<1>10. ASSUME NEW c \in Commits, Fail(c)
       PROVE  ReadInv'
  BY <1>10 DEF Fail, Throws, ReadInv, publisherVars, Publisher, TypeOK
<1>11. CASE UNCHANGED vars
  BY <1>11 DEF vars, commitVars, publisherVars, ReadInv, Publisher
<1> QED
  BY <1>2, <1>3, <1>4, <1>5, <1>6, <1>7, <1>8, <1>9, <1>10, <1>11 DEF Next

(* The steps but applying, in terms of what the order depends on.          *)
LEMMA OtherSteps ==
    ASSUME TypeOK, Next,
           ~(\E e \in Events : Apply(e) \/ \E c \in Commits : ApplyAndCommit(e, c))
    PROVE  /\ applied' = applied
           /\ discarded \subseteq discarded'
           /\ uncommitted' \in {uncommitted, <<>>}
           /\ PublishedByAll \subseteq PublishedByAll'
<1>1. ASSUME \A p \in ToSet(Publishers) : accepted[p] \subseteq accepted'[p]
      PROVE  PublishedByAll \subseteq PublishedByAll'
  BY <1>1 DEF PublishedByAll
<1>2. CASE Uncommit
  BY <1>1, <1>2 DEF Uncommit, publisherVars
<1>3. CASE SetAutoCommit
  BY <1>1, <1>3 DEF SetAutoCommit, publisherVars
<1>4. ASSUME NEW c \in Commits, Commit(c) \/ Copies(c) \/ Fail(c)
      PROVE  UNCHANGED <<uncommitted, applied, discarded, accepted>>
  BY <1>4 DEF Commit, Copies, Fail, Throws, publisherVars
<1>5. ASSUME NEW c \in Commits, CallsNext(c) \/ Finish(c)
      PROVE  /\ UNCHANGED <<applied, discarded>> /\ uncommitted' \in {uncommitted, <<>>}
             /\ \A p \in ToSet(Publishers) : accepted[p] \subseteq accepted'[p]
  BY <1>5 DEF CallsNext, Finish, Returns, TypeOK
<1> QED
  BY <1>1, <1>2, <1>3, <1>4, <1>5 DEF Next

LEMMA OrderStep ==
    ASSUME TypeOK, ReadInv, ClearedMeansPublished, OrderInv, [Next]_vars
    PROVE  OrderInv'
<1>1. ASSUME NEW e \in Events, Add(e), uncommitted' = Append(uncommitted, e),
             UNCHANGED <<discarded, publisherVars>>
      PROVE  OrderInv'
  <2> SUFFICES ASSUME NEW m \in 1..Len(uncommitted'),
                      NEW j \in 1..Len(applied'), NEW i \in 1..Len(applied'),
                      j < i, applied'[i] = uncommitted'[m]
               PROVE  \/ \E l \in 1..m : uncommitted'[l] = applied'[j]
                      \/ applied'[j] \in discarded \cup PublishedByAll
    BY <1>1 DEF OrderInv, PublishedByAll, publisherVars
  <2>1. /\ Len(applied) \in Nat /\ Len(uncommitted) \in Nat
        /\ Len(applied') = Len(applied) + 1 /\ Len(uncommitted') = Len(uncommitted) + 1
        /\ applied'[Len(applied) + 1] = e /\ uncommitted'[Len(uncommitted) + 1] = e
        /\ \A k \in 1..Len(applied) : applied'[k] = applied[k]
        /\ \A k \in 1..Len(uncommitted) : uncommitted'[k] = uncommitted[k]
    BY <1>1 DEF Add, TypeOK
  <2>2. j \in 1..Len(applied)
    BY <2>1
  <2>3. CASE m \in 1..Len(uncommitted)
    <3>1. uncommitted[m] # e
      <4>1. uncommitted[m] \in ToSet(uncommitted)
        BY <2>3, ToSetIndex DEF TypeOK
      <4> QED
        BY <1>1, <4>1 DEF Add, ReadInv
    <3>2. i \in 1..Len(applied)
      BY <2>1, <2>3, <3>1
    <3>3. \/ \E l \in 1..m : uncommitted[l] = applied[j]
          \/ applied[j] \in discarded \cup PublishedByAll
      BY <2>1, <2>2, <2>3, <3>2 DEF OrderInv
    <3> QED
      BY <2>1, <2>2, <2>3, <3>3
  <2>4. CASE m = Len(uncommitted) + 1
    <3>1. applied[j] \in ToSet(uncommitted) \cup discarded \cup PublishedByAll
      <4>1. applied[j] \in ToSet(applied)
        BY <2>2, ToSetIndex DEF TypeOK
      <4> QED
        BY <4>1 DEF ClearedMeansPublished, PublishedByAll
    <3>2. CASE applied[j] \in ToSet(uncommitted)
      <4>1. PICK l \in 1..Len(uncommitted) : uncommitted[l] = applied[j]
        BY <3>2, ToSetIndex DEF TypeOK
      <4>2. l \in 1..m /\ uncommitted'[l] = applied'[j]
        BY <2>1, <2>2, <2>4, <4>1
      <4> QED
        BY <4>2
    <3> QED
      BY <2>1, <2>2, <3>1, <3>2
  <2> QED
    BY <2>1, <2>3, <2>4
<1>2. CASE \E e \in Events : Apply(e) \/ \E c \in Commits : ApplyAndCommit(e, c)
  BY <1>1, <1>2 DEF Apply, ApplyAndCommit
<1>3. CASE Next /\ ~(\E e \in Events : Apply(e) \/ \E c \in Commits : ApplyAndCommit(e, c))
  <2>1. /\ applied' = applied /\ discarded \subseteq discarded'
        /\ PublishedByAll \subseteq PublishedByAll'
        /\ uncommitted' = uncommitted \/ uncommitted' = <<>>
    BY <1>3, OtherSteps
  <2>2. CASE uncommitted' = uncommitted
    BY <2>1, <2>2 DEF OrderInv
  <2>3. CASE uncommitted' = <<>>
    <3>1. Len(uncommitted') = 0
      BY <2>3
    <3> QED
      BY <3>1 DEF OrderInv
  <2> QED
    BY <2>1, <2>2, <2>3
<1>4. CASE UNCHANGED vars
  BY <1>4 DEF vars, publisherVars, OrderInv, PublishedByAll
<1> QED
  BY <1>2, <1>3, <1>4

(* A copy of the array brings its publisher, ahead of each event, those    *)
(* that were applied before it.                                            *)
LEMMA CopyInOrder ==
    ASSUME TypeOK, ReadInv, OrderInv, ReceivedInOrder,
           NEW c \in Commits, Copies(c)
    PROVE  ReceivedInOrder'
<1> DEFINE q == Publisher(c)
           old == received[q]
           new == old \o uncommitted
<1>1. q \in ToSet(Publishers)
  BY PublisherInRange DEF Publisher, TypeOK
<1>2. /\ \A p \in ToSet(Publishers) : received'[p] = IF p = q THEN new ELSE received[p]
      /\ UNCHANGED <<applied, discarded>>
  BY <1>1 DEF Copies, TypeOK
<1>3. old \in Seq(Events) /\ uncommitted \in Seq(Events) /\ applied \in Seq(Events)
  BY <1>1 DEF TypeOK
<1>4. /\ new \in Seq(Events) /\ Len(new) = Len(old) + Len(uncommitted)
      /\ Len(old) \in Nat /\ Len(uncommitted) \in Nat
      /\ \A k \in 1..Len(old) : new[k] = old[k]
      /\ \A k \in 1..Len(uncommitted) : new[Len(old) + k] = uncommitted[k]
      /\ DOMAIN new = 1..Len(new) /\ DOMAIN old = 1..Len(old)
  BY <1>3
<1> SUFFICES ASSUME NEW p \in ToSet(Publishers),
                    NEW k \in DOMAIN received'[p], NEW j \in DOMAIN applied
             PROVE  \/ applied[j] \in discarded \cup ToSet(SubSeq(received'[p], 1, k))
                    \/ \E i \in 1..(j - 1) : applied[i] = received'[p][k]
  BY <1>2 DEF ReceivedInOrder
<1>5. CASE p # q
  BY <1>2, <1>5 DEF ReceivedInOrder
<1> SUFFICES ASSUME p = q, k \in DOMAIN new
             PROVE  \/ applied[j] \in discarded \cup ToSet(SubSeq(new, 1, k))
                    \/ \E i \in 1..(j - 1) : applied[i] = new[k]
  BY <1>2, <1>5
<1> HIDE DEF q, old, new
<1>6. \A x : x \in ToSet(SubSeq(new, 1, k)) <=> \E i \in 1..k : new[i] = x
  <2>1. k \in 0..Len(new)
    BY <1>4
  <2> QED
    BY <1>4, <2>1, ToSetSubSeq
<1>7. CASE k \in 1..Len(old)
  <2>1. \A x : x \in ToSet(SubSeq(old, 1, k)) <=> \E i \in 1..k : old[i] = x
    <3>1. k \in 0..Len(old)
      BY <1>7
    <3> QED
      BY <1>3, <3>1, ToSetSubSeq
  <2>2. ToSet(SubSeq(old, 1, k)) \subseteq ToSet(SubSeq(new, 1, k))
    <3> SUFFICES ASSUME NEW x \in ToSet(SubSeq(old, 1, k))
                 PROVE  x \in ToSet(SubSeq(new, 1, k))
      OBVIOUS
    <3>1. PICK i \in 1..k : old[i] = x
      BY <2>1
    <3>2. new[i] = x
      BY <1>4, <1>7, <3>1
    <3> QED
      BY <1>6, <3>2
  <2>3. \/ applied[j] \in discarded \cup ToSet(SubSeq(old, 1, k))
        \/ \E i \in 1..(j - 1) : applied[i] = old[k]
    BY <1>1, <1>4, <1>7 DEF ReceivedInOrder, old
  <2> QED
    BY <1>4, <1>7, <2>2, <2>3
<1>8. CASE k > Len(old)
  <2> DEFINE m == k - Len(old)
  <2>1. m \in 1..Len(uncommitted) /\ new[k] = uncommitted[m] /\ k = Len(old) + m
    BY <1>4, <1>8
  <2> HIDE DEF m
  <2>2. PICK i \in 1..Len(applied) : applied[i] = uncommitted[m]
    <3>1. uncommitted[m] \in ToSet(applied)
      BY <1>3, <2>1, ToSetIndex DEF ReadInv
    <3> QED
      BY <1>3, <3>1, ToSetIndex
  <2>3. j \in 1..Len(applied)
    BY <1>3
  <2>4. CASE i < j
    BY <2>1, <2>2, <2>3, <2>4
  <2>5. CASE i = j
    <3>1. k \in 1..k /\ new[k] = applied[j]
      BY <1>4, <2>1, <2>2, <2>5
    <3> QED
      BY <1>6, <3>1
  <2>6. CASE j < i
    <3>1. CASE \E l \in 1..m : uncommitted[l] = applied[j]
      <4>1. PICK l \in 1..m : uncommitted[l] = applied[j]
        BY <3>1
      <4>2. Len(old) + l \in 1..k /\ new[Len(old) + l] = applied[j]
        BY <1>4, <2>1, <4>1
      <4> QED
        BY <1>6, <4>2
    <3>2. CASE applied[j] \in discarded
      BY <3>2
    <3>3. CASE applied[j] \in PublishedByAll
      <4>1. applied[j] \in ToSet(old)
        BY <1>1, <3>3 DEF PublishedByAll, ReadInv, old
      <4>2. PICK l \in 1..Len(old) : old[l] = applied[j]
        BY <1>3, <4>1, ToSetIndex
      <4>3. l \in 1..k /\ new[l] = applied[j]
        BY <1>4, <2>1, <4>2
      <4> QED
        BY <1>6, <4>3
    <3> QED
      BY <2>1, <2>2, <2>3, <2>6, <3>1, <3>2, <3>3 DEF OrderInv
  <2> QED
    BY <2>2, <2>3, <2>4, <2>5, <2>6
<1> QED
  BY <1>4, <1>7, <1>8

LEMMA ReceivedStep ==
    ASSUME TypeOK, ReadInv, OrderInv, ReceivedInOrder, [Next]_vars
    PROVE  ReceivedInOrder'
<1>1. ASSUME NEW e \in Events, Add(e), UNCHANGED <<discarded, received>>
      PROVE  ReceivedInOrder'
  <2> SUFFICES ASSUME NEW p \in ToSet(Publishers), NEW k \in DOMAIN received[p],
                      NEW j \in DOMAIN applied'
               PROVE  \/ applied'[j] \in discarded \cup ToSet(SubSeq(received[p], 1, k))
                      \/ \E i \in 1..(j - 1) : applied'[i] = received[p][k]
    BY <1>1 DEF ReceivedInOrder
  <2>1. /\ Len(applied) \in Nat /\ DOMAIN applied = 1..Len(applied)
        /\ DOMAIN applied' = 1..(Len(applied) + 1)
        /\ \A i \in 1..Len(applied) : applied'[i] = applied[i]
    BY <1>1 DEF Add, TypeOK
  <2>2. CASE j \in 1..Len(applied)
    <3>1. \/ applied[j] \in discarded \cup ToSet(SubSeq(received[p], 1, k))
          \/ \E i \in 1..(j - 1) : applied[i] = received[p][k]
      BY <2>1, <2>2 DEF ReceivedInOrder
    <3> QED
      BY <2>1, <2>2, <3>1
  <2>3. CASE j = Len(applied) + 1
    <3>1. received[p][k] \in ToSet(received[p])
      BY DEF ToSet
    <3>2. received[p][k] \in ToSet(applied)
      BY <3>1 DEF ReadInv
    <3>3. PICK i \in 1..Len(applied) : applied[i] = received[p][k]
      BY <3>2, ToSetIndex DEF TypeOK
    <3> QED
      BY <2>1, <2>3, <3>3
  <2> QED
    BY <2>1, <2>2, <2>3
<1>2. CASE \E e \in Events : Apply(e) \/ \E c \in Commits : ApplyAndCommit(e, c)
  BY <1>1, <1>2 DEF Apply, ApplyAndCommit, publisherVars
<1>3. CASE \E c \in Commits : Copies(c)
  BY <1>3, CopyInOrder
<1>4. ASSUME UNCHANGED <<applied, received>>, discarded \subseteq discarded'
      PROVE  ReceivedInOrder'
  BY <1>4 DEF ReceivedInOrder
<1>5. CASE Uncommit \/ SetAutoCommit
  BY <1>4, <1>5 DEF Uncommit, SetAutoCommit, publisherVars
<1>6. CASE \E c \in Commits : Commit(c) \/ CallsNext(c) \/ Finish(c) \/ Fail(c)
  BY <1>4, <1>6 DEF Commit, CallsNext, Finish, Returns, Fail, Throws, publisherVars
<1>7. CASE UNCHANGED vars
  BY <1>4, <1>7 DEF vars, publisherVars
<1> QED
  BY <1>2, <1>3, <1>5, <1>6, <1>7 DEF Next

(* However many commits overlap and fail, a publisher gets the events of   *)
(* the event store aggregate root in the order in which they were applied, *)
(* those of an earlier attempt again, if none is applied meanwhile.        *)
THEOREM PublishersReceiveInOrder ==
    ASSUME AppliesDuringCommit = FALSE
    PROVE  Spec => []ReceivedInOrder
<1> DEFINE Inv == /\ CommitInv /\ ClearedMeansPublished
                  /\ ReadInv /\ OrderInv /\ ReceivedInOrder
<1>1. TypeOK /\ Inv /\ [Next]_vars => Inv'
  BY CommitStep, ClearedStep, ReadStep, OrderStep, ReceivedStep
<1>2. Init => Inv
  BY CommitInit, ReadInit
<1>3. Inv => ReceivedInOrder
  OBVIOUS
<1> HIDE DEF Inv
<1> QED
  BY <1>1, <1>2, <1>3, AggregateTypeCorrect, PTL DEF Spec
-----------------------------------------------------------------------------
(* What a commit gave the publishers when it returned is out of the array  *)
(* for good.                                                               *)

(* The last copy of a commit that returned has nothing that is still in    *)
(* the array; copies and array hold applied events, and a new one is none  *)
(* of these.                                                               *)
ReturnInv ==
    /\ ToSet(uncommitted) \subseteq ToSet(applied)
    /\ \A c \in Commits :
        /\ ToSet(batch[c]) \subseteq ToSet(applied)
        /\ stage[c] = "done" => ToSet(batch[c]) \cap ToSet(uncommitted) = {}

LEMMA ReturnInit == Init => ReturnInv
BY ToSetEmpty DEF Init, ReturnInv

LEMMA ReturnStep ==
    ASSUME TypeOK, ReturnInv, [Next]_vars
    PROVE  ReturnInv'
<1>1. ASSUME NEW e \in Events, Add(e), uncommitted' = Append(uncommitted, e), batch' = batch,
             \A c \in Commits : stage'[c] = "done" => stage[c] = "done"
      PROVE  ReturnInv'
  <2>1. /\ ToSet(applied') = ToSet(applied) \cup {e}
        /\ ToSet(uncommitted') = ToSet(uncommitted) \cup {e}
        /\ e \notin ToSet(applied)
    BY <1>1, ToSetAppend DEF Add, TypeOK
  <2> QED
    BY <1>1, <2>1 DEF ReturnInv
<1>2. ASSUME UNCHANGED <<batch, applied>>, uncommitted' \in {uncommitted, <<>>},
             \A c \in Commits :
                stage'[c] = "done" => stage[c] = "done" \/ uncommitted' = <<>>
      PROVE  ReturnInv'
  BY <1>2, ToSetEmpty DEF ReturnInv
<1>3. ASSUME NEW e \in Events, Apply(e)
      PROVE  ReturnInv'
  BY <1>1, <1>3 DEF Apply, commitVars
<1>4. ASSUME NEW e \in Events, NEW c \in Commits, ApplyAndCommit(e, c)
      PROVE  ReturnInv'
  BY <1>1, <1>4 DEF ApplyAndCommit, Starts, TypeOK
<1>5. CASE Uncommit \/ SetAutoCommit
  BY <1>2, <1>5 DEF Uncommit, SetAutoCommit, commitVars
<1>6. ASSUME NEW c \in Commits, Commit(c) \/ CallsNext(c) \/ Finish(c) \/ Fail(c)
      PROVE  ReturnInv'
  BY <1>2, <1>6 DEF Commit, Starts, CallsNext, Finish, Returns, Fail, Throws, TypeOK
<1>7. ASSUME NEW c \in Commits, Copies(c)
      PROVE  ReturnInv'
  BY <1>7 DEF Copies, ReturnInv, TypeOK
<1>8. CASE UNCHANGED vars
  BY <1>2, <1>8 DEF vars, commitVars
<1> QED
  BY <1>3, <1>4, <1>5, <1>6, <1>7, <1>8 DEF Next

(* A copy is one of the array, and that has nothing of a returned commit.  *)
LEMMA ReturnedStep ==
    ASSUME TypeOK, ReturnInv, [Next]_vars,
           NEW c \in Commits, NEW d \in Commits,
           stage[c] = "done", ~copied[d], copied'[d]
    PROVE  ToSet(batch'[d]) \cap ToSet(batch[c]) = {}
<1>1. ASSUME NEW b \in Commits, Copies(b)
      PROVE  ToSet(batch'[d]) \cap ToSet(batch[c]) = {}
  <2>1. b = d /\ batch'[d] = uncommitted
    BY <1>1 DEF Copies, TypeOK
  <2> QED
    BY <2>1 DEF ReturnInv
<1>2. CASE Next /\ ~\E b \in Commits : Copies(b)
  <2>1. copied'[d] = FALSE
    BY <1>2 DEF Next, Apply, ApplyAndCommit, Uncommit, SetAutoCommit, Commit, Starts,
           CallsNext, Finish, Returns, Fail, Throws, commitVars, TypeOK
  <2> QED
    BY <2>1
<1>3. CASE UNCHANGED vars
  BY <1>3 DEF vars, commitVars
<1> QED
  BY <1>1, <1>2, <1>3

(* Whatever the application applies, discards and commits meanwhile, and   *)
(* whatever fails: no publisher copies, for another commit, an event that  *)
(* the last copy of a commit that returned brought.                        *)
THEOREM ReturnedStays == Spec => ReturnedForGood
<1>1. TypeOK /\ ReturnInv /\ [Next]_vars
        => [\A c, d \in Commits : stage[c] = "done" /\ ~copied[d] /\ copied'[d] =>
                ToSet(batch'[d]) \cap ToSet(batch[c]) = {}]_vars
  BY ReturnedStep
<1>2. TypeOK /\ ReturnInv /\ [Next]_vars => ReturnInv'
  BY ReturnStep
<1> QED
  BY <1>1, <1>2, ReturnInit, AggregateTypeCorrect, PTL DEF Spec, ReturnedForGood
=============================================================================
