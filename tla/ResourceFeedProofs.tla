-------------------------- MODULE ResourceFeedProofs --------------------------
(***************************************************************************)
(* What the abstract feed is worth to a receiver, for every set of objects *)
(* and any number of changes on their way: the manager is shown to         *)
(* implement it, so its receivers may rely on it.                          *)
(***************************************************************************)
EXTENDS ResourceFeed, Integers, TLAPS

\* Nothing is on its way to a receiver that has not attached.
NothingSent == phase # "live" => \A x \in Object : pending[x] = 0

FInv == FeedTypeOK /\ NothingSent /\ BehindByPending

\* One change more, or one less, turns even into odd.
LEMMA OddStep == \A n \in Nat : (Odd(n + 1) <=> ~Odd(n)) /\ (n > 0 => (Odd(n - 1) <=> ~Odd(n)))
  BY DEF Odd

\* Toggling an object changes its own membership only.
LEMMA ToggleMembers == \A S, x, y : (y \in Toggle(S, x)) <=> (IF y = x THEN x \notin S ELSE y \in S)
  BY DEF Toggle

\* Nobody has attached at first.
LEMMA FeedInit == Init => FInv
  BY DEF Init, FInv, FeedTypeOK, NothingSent, BehindByPending

\* Each step of the feed keeps the receiver behind by what is pending.
LEMMA FeedStep == FInv /\ [Next]_feedVars => FInv'
<1> SUFFICES ASSUME FInv, [Next]_feedVars PROVE FInv'
  OBVIOUS
<1> USE DEF FInv
<1>1. CASE Prepare
  BY <1>1 DEF Prepare, FeedTypeOK, NothingSent, BehindByPending
<1>2. CASE Read
  BY <1>2 DEF Read, FeedTypeOK, NothingSent, BehindByPending, Odd
<1>3. CASE Attach
  BY <1>3 DEF Attach, FeedTypeOK, NothingSent, BehindByPending
<1>4. ASSUME NEW x \in Object, Change(x) PROVE FInv'
  <2>1. FeedTypeOK'
    BY <1>4, ToggleMembers DEF Change, FeedTypeOK
  <2>2. NothingSent'
    BY <1>4 DEF Change, NothingSent
  <2>3. \A y \in Object : (y \in listed') <=> (IF y = x THEN x \notin listed ELSE y \in listed)
    BY <1>4, ToggleMembers DEF Change
  <2>4. CASE phase = "live"
    <3>1. \A y \in Object : pending'[y] = IF y = x THEN pending[x] + 1 ELSE pending[y]
      BY <1>4, <2>4 DEF Change, FeedTypeOK
    <3>2. QED
      BY <1>4, <2>1, <2>2, <2>3, <2>4, <3>1, OddStep DEF Change, FeedTypeOK, BehindByPending
  <2>5. CASE phase # "live"
    BY <1>4, <2>1, <2>2, <2>3, <2>5 DEF Change, BehindByPending
  <2>6. QED
    BY <2>4, <2>5
<1>5. ASSUME NEW x \in Object, Learn(x) PROVE FInv'
  <2>1. FeedTypeOK'
    BY <1>5, ToggleMembers DEF Learn, FeedTypeOK
  <2>2. NothingSent'
    BY <1>5 DEF Learn, FeedTypeOK, NothingSent
  <2>3. \A y \in Object : pending'[y] = IF y = x THEN pending[x] - 1 ELSE pending[y]
    BY <1>5 DEF Learn, FeedTypeOK
  <2>4. \A y \in Object \ stale :
          (y \in known') <=> (IF y = x THEN x \notin known ELSE y \in known)
    BY <1>5, ToggleMembers DEF Learn
  <2>5. phase' = phase /\ listed' = listed /\ stale' = stale /\ pending[x] \in Nat /\ pending[x] > 0
    BY <1>5 DEF Learn, FeedTypeOK
  <2>6. BehindByPending'
    BY <2>3, <2>4, <2>5, OddStep DEF BehindByPending
  <2>7. QED
    BY <2>1, <2>2, <2>6
<1>6. CASE UNCHANGED feedVars
  BY <1>6 DEF feedVars, FeedTypeOK, NothingSent, BehindByPending
<1>7. QED
  BY <1>1, <1>2, <1>3, <1>4, <1>5, <1>6 DEF Next

\* A receiver that has nothing left to learn agrees with the lists on every object that is not stale.
THEOREM ReceiverBehind == Spec => []BehindByPending
<1>1. FInv => BehindByPending
  BY DEF FInv
<1>2. QED
  BY <1>1, FeedInit, FeedStep, PTL DEF Spec
=============================================================================
