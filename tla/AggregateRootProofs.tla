------------------------- MODULE AggregateRootProofs -------------------------
(***************************************************************************)
(* The base class of the aggregates, for any events, commits and           *)
(* publishers: how general the loss is that TLC finds in it.               *)
(***************************************************************************)
EXTENDS AggregateRoot, TLAPS

(* No publisher ever gets, or publishes, an event. *)
NothingPublished ==
    \A p \in ToSet(Publishers) : received[p] = <<>> /\ accepted[p] = {}

(* The array that a commit at work has given away was cleared first, and   *)
(* nothing is applied before the commit is over: all copies of it are      *)
(* empty, and a failure puts an empty array in front of itself.            *)
EmptyInv ==
    /\ received = [p \in ToSet(Publishers) |-> <<>>]
    /\ accepted = [p \in ToSet(Publishers) |-> {}]
    /\ batch = [c \in Commits |-> <<>>]
    /\ Committing => uncommitted = <<>>

LEMMA EmptyIsNothing == EmptyInv => NothingPublished
  BY DEF EmptyInv, NothingPublished

LEMMA ToSetEmpty == ToSet(<<>>) = {}
  BY DEF ToSet

LEMMA ConcatEmpty == <<>> \o <<>> = <<>>
  OBVIOUS

LEMMA EmptyStart == Init => EmptyInv
  BY DEF Init, EmptyInv

LEMMA EmptyStep ==
    ASSUME AppliesDuringCommit = FALSE, EmptyInv, [Next]_vars
    PROVE  EmptyInv'
<1>1. ASSUME NEW e \in Events, Apply(e)
      PROVE  EmptyInv'
  BY <1>1 DEF Apply, MayApply, Committing, commitVars, publisherVars, EmptyInv
<1>2. ASSUME NEW c \in Commits, uncommitted' = <<>>, Starts(c), UNCHANGED publisherVars
      PROVE  EmptyInv'
  BY <1>2 DEF Starts, publisherVars, EmptyInv
<1>3. ASSUME NEW e \in Events, NEW c \in Commits, ApplyAndCommit(e, c)
      PROVE  EmptyInv'
  BY <1>2, <1>3 DEF ApplyAndCommit
<1>4. CASE Uncommit
  BY <1>4 DEF Uncommit, commitVars, publisherVars, EmptyInv
<1>5. CASE SetAutoCommit
  BY <1>5 DEF SetAutoCommit, Committing, commitVars, publisherVars, EmptyInv
<1>6. ASSUME NEW c \in Commits, Commit(c)
      PROVE  EmptyInv'
  BY <1>2, <1>6 DEF Commit
<1>7. ASSUME NEW c \in Commits, Copies(c)
      PROVE  EmptyInv'
  <2>1. uncommitted = <<>> /\ UNCHANGED <<stage, uncommitted, accepted>>
    BY <1>7 DEF Copies, Committing, EmptyInv
  <2>2. received' = received /\ batch' = batch
    BY <1>7, <2>1, ConcatEmpty DEF Copies, EmptyInv
  <2> QED
    BY <2>1, <2>2 DEF Committing, EmptyInv
<1>8. ASSUME NEW c \in Commits, CallsNext(c)
      PROVE  EmptyInv'
  <2>1. accepted' = accepted
    BY <1>8, ToSetEmpty DEF CallsNext, EmptyInv
  <2> QED
    BY <1>8, <2>1 DEF CallsNext, Committing, EmptyInv
<1>9. ASSUME NEW c \in Commits, Finish(c)
      PROVE  EmptyInv'
  <2>1. accepted' = accepted /\ uncommitted = <<>>
    BY <1>9, ToSetEmpty DEF Finish, Returns, Committing, EmptyInv
  <2> QED
    BY <1>9, <2>1 DEF Finish, Returns, EmptyInv
<1>10. ASSUME NEW c \in Commits, Fail(c)
       PROVE  EmptyInv'
  <2>1. uncommitted = <<>>
    BY <1>10 DEF Fail, Throws, Committing, EmptyInv
  <2>2. uncommitted' = <<>>
    BY <1>10, <2>1, ConcatEmpty DEF Fail
  <2> QED
    BY <1>10, <2>2 DEF Fail, Throws, publisherVars, EmptyInv
<1>11. CASE UNCHANGED vars
  BY <1>11 DEF vars, Committing, commitVars, publisherVars, EmptyInv
<1> QED
  BY <1>1, <1>3, <1>4, <1>5, <1>6, <1>7, <1>8, <1>9, <1>10, <1>11 DEF Next

(* In an application that waits for a commit before it applies the next    *)
(* event, commit() of the base class publishes nothing at all, whatever    *)
(* the publishers, however many commits there are, overlapping or not, and *)
(* whichever of them fail.                                                 *)
THEOREM BaseClassPublishesNothing ==
    ASSUME AppliesDuringCommit = FALSE
    PROVE  Spec => []NothingPublished
<1>1. EmptyInv /\ [Next]_vars => EmptyInv'
  BY EmptyStep
<1> QED
  BY <1>1, EmptyStart, EmptyIsNothing, PTL DEF Spec
=============================================================================
