---------------------------- MODULE ResourceFeed ----------------------------
(***************************************************************************)
(* What KyNetworkResourceManager promises to its receivers, without lists, *)
(* slots or signals: objects become listed and unlisted one at a time, and *)
(* a receiver that has attached learns of every such change, once and in   *)
(* order, some time later.  Changes of an object between the receiver's    *)
(* reading of the lists and its attaching are lost: the object is stale.   *)
(***************************************************************************)
EXTENDS Naturals

CONSTANT Object

VARIABLES
  listed,   \* the objects listed now
  known,    \* the objects the receiver takes to be listed
  pending,  \* changes of each object the receiver has still to learn of
  phase,    \* of the receiver: "none", "read", "live"
  stale     \* objects that changed in phase "read"

feedVars == <<listed, known, pending, phase, stale>>

Init ==
  /\ listed = {} /\ known = {} /\ stale = {}
  /\ pending = [x \in Object |-> 0]
  /\ phase = "none"

\* Nobody has read the lists yet.
Prepare ==
  /\ phase = "none"
  /\ listed' \in SUBSET Object
  /\ UNCHANGED <<known, pending, phase, stale>>

Read ==
  /\ phase = "none"
  /\ known' = listed /\ phase' = "read"
  /\ UNCHANGED <<listed, pending, stale>>

Attach ==
  /\ phase = "read" /\ phase' = "live"
  /\ UNCHANGED <<listed, known, pending, stale>>

Toggle(S, x) == IF x \in S THEN S \ {x} ELSE S \cup {x}

Change(x) ==
  /\ phase # "none"
  /\ listed' = Toggle(listed, x)
  /\ IF phase = "live"
       THEN pending' = [pending EXCEPT ![x] = @ + 1] /\ UNCHANGED stale
       ELSE stale' = stale \cup {x} /\ UNCHANGED pending
  /\ UNCHANGED <<known, phase>>

Learn(x) ==
  /\ pending[x] > 0
  /\ pending' = [pending EXCEPT ![x] = @ - 1]
  /\ IF x \in stale THEN known' \in {known, Toggle(known, x)} ELSE known' = Toggle(known, x)
  /\ UNCHANGED <<listed, phase, stale>>

Next == Prepare \/ Read \/ Attach \/ \E x \in Object : Change(x) \/ Learn(x)

Spec == Init /\ [][Next]_feedVars

-----------------------------------------------------------------------------
FeedTypeOK ==
  /\ listed \subseteq Object /\ known \subseteq Object /\ stale \subseteq Object
  /\ pending \in [Object -> Nat]
  /\ phase \in {"none", "read", "live"}

Odd(n) == n % 2 = 1

\* The receiver is behind by exactly the changes it has still to learn of: with
\* none left it agrees with the lists on every object that is not stale.
BehindByPending ==
  phase # "none" =>
    \A x \in Object \ stale : (x \in known <=> x \in listed) <=> ~Odd(pending[x])
=============================================================================
