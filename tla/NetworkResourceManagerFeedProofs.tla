------------------- MODULE NetworkResourceManagerFeedProofs -------------------
(***************************************************************************)
(* The order of the manager's queue, and the manager, its queue and a      *)
(* receiver as an implementation of ResourceFeed, for every set of         *)
(* objects, every bound and every interleaving of the two threads.         *)
(*                                                                         *)
(* The signals of one object alternate, and an update comes only between   *)
(* the two.  Both look at what a receiver will know in the middle of the   *)
(* queue; the argument is about its two ends.  What may be appended is     *)
(* known from the lists, since a receiver that handles the whole queue     *)
(* ends with them (QueueInv); what is taken from the front moves from the  *)
(* queue into what the receiver knows (KnownAfterHead).                    *)
(*                                                                         *)
(* The abstract feed's `pending' counts the signals in the queue that list *)
(* or unlist an object.  The oldest signal of an object always changes     *)
(* what the receiver knows (WellOrdered), so each delivery is one Learn of *)
(* the abstract feed and never a repetition.                               *)
(***************************************************************************)
EXTENDS NetworkResourceManagerProofs, FiniteSetTheorems

USE DEF Object, Network

-----------------------------------------------------------------------------
(* Facts about queues.                                                     *)

\* A signal that fits what a receiver knows of x once it has handled f.
MayFollow(f, v, x, m) ==
  /\ Changes(m, x) => (m.sig \in AddSignal <=> ~KnownAfter(f, v, x))
  /\ (m.obj = x /\ m.sig \in OtherSignal) => KnownAfter(f, v, x)

Before(f, i) == SubSeq(f, 1, i - 1)

WellOrdered(f, v, x) == \A i \in DOMAIN f : MayFollow(Before(f, i), v, x, f[i])

\* What comes before the i-th element of a queue.
LEMMA BeforeProperties ==
  ASSUME NEW s \in Seq(Signal), NEW i \in 1..Len(s)
  PROVE  /\ Before(s, i) \in Seq(Signal) /\ Len(Before(s, i)) = i - 1
         /\ \A k \in 1..i - 1 : Before(s, i)[k] = s[k]
<1>1. \A k \in 1..i - 1 : s[k] \in Signal
  OBVIOUS
<1>2. 1 \in Int /\ i - 1 \in Int
  OBVIOUS
<1>3. /\ SubSeq(s, 1, i - 1) \in Seq(Signal)
      /\ Len(SubSeq(s, 1, i - 1)) = IF 1 <= i - 1 THEN (i - 1) - 1 + 1 ELSE 0
      /\ \A k \in 1..(i - 1) - 1 + 1 : SubSeq(s, 1, i - 1)[k] = s[1 + k - 1]
  BY <1>1, <1>2, SubSeqProperties
<1>4. QED
  BY <1>3 DEF Before

\* What comes before an element of a queue stays when the queue grows.
LEMMA BeforeConcat ==
  ASSUME NEW f \in Seq(Signal), NEW g \in Seq(Signal)
  PROVE  /\ \A i \in DOMAIN f : Before(f \o g, i) = Before(f, i) /\ (f \o g)[i] = f[i]
         /\ \A i \in DOMAIN g : /\ Before(f \o g, Len(f) + i) = f \o Before(g, i)
                                /\ (f \o g)[Len(f) + i] = g[i]
         /\ \A i \in DOMAIN (f \o g) : i \in DOMAIN f \/ \E j \in DOMAIN g : i = Len(f) + j
<1> DEFINE h == f \o g
<1>1. /\ h \in Seq(Signal) /\ Len(h) = Len(f) + Len(g)
      /\ \A i \in 1..Len(f) + Len(g) : h[i] = IF i <= Len(f) THEN f[i] ELSE g[i - Len(f)]
  BY ConcatProperties
<1>2. \A i \in 1..Len(h) : /\ Before(h, i) \in Seq(Signal) /\ Len(Before(h, i)) = i - 1
                           /\ \A k \in 1..i - 1 : Before(h, i)[k] = h[k]
  BY <1>1, BeforeProperties
<1> HIDE DEF h
<1>3. ASSUME NEW i \in DOMAIN f
      PROVE  Before(h, i) = Before(f, i) /\ h[i] = f[i]
  <2> DEFINE p == Before(h, i)
             q == Before(f, i)
  <2>1. i \in 1..Len(h) /\ i \in 1..Len(f)
    BY <1>1
  <2>2. p \in Seq(Signal) /\ Len(p) = i - 1 /\ \A k \in 1..i - 1 : p[k] = h[k]
    BY <1>2, <2>1
  <2>3. q \in Seq(Signal) /\ Len(q) = i - 1 /\ \A k \in 1..i - 1 : q[k] = f[k]
    BY <2>1, BeforeProperties
  <2>4. \A k \in 1..i - 1 : h[k] = f[k]
    BY <1>1, <2>1
  <2> HIDE DEF p, q
  <2>5. p = q
    BY <2>2, <2>3, <2>4, SeqEqual
  <2>6. h[i] = f[i]
    BY <1>1, <2>1
  <2>7. QED
    BY <2>5, <2>6 DEF p, q
<1>4. ASSUME NEW i \in DOMAIN g
      PROVE  Before(h, Len(f) + i) = f \o Before(g, i) /\ h[Len(f) + i] = g[i]
  <2>1. i \in 1..Len(g) /\ Len(f) \in Nat
    OBVIOUS
  <2>2. PICK n \in 1..Len(h) : n = Len(f) + i
    BY <1>1, <2>1
  <2> DEFINE p == Before(h, n)
             b == Before(g, i)
             q == f \o b
  <2>3. p \in Seq(Signal) /\ Len(p) = n - 1 /\ \A k \in 1..n - 1 : p[k] = h[k]
    BY <1>2
  <2>4. b \in Seq(Signal) /\ Len(b) = i - 1 /\ \A k \in 1..i - 1 : b[k] = g[k]
    BY <2>1, BeforeProperties
  <2> HIDE DEF p, b
  <2>5. q \in Seq(Signal) /\ Len(q) = Len(f) + Len(b)
        /\ \A k \in 1..Len(f) + Len(b) : q[k] = IF k <= Len(f) THEN f[k] ELSE b[k - Len(f)]
    BY <2>4, ConcatProperties
  <2> HIDE DEF q
  <2>6. Len(p) = Len(q)
    BY <2>1, <2>2, <2>3, <2>4, <2>5
  <2>7. ASSUME NEW k \in 1..Len(p)
        PROVE  p[k] = q[k]
    <3>1. k \in 1..n - 1 /\ k \in 1..Len(f) + Len(b) /\ k \in 1..Len(f) + Len(g)
      BY <1>1, <2>1, <2>2, <2>3, <2>5, <2>6
    <3>2. CASE k <= Len(f)
      BY <1>1, <2>3, <2>5, <3>1, <3>2
    <3>3. CASE ~(k <= Len(f))
      <4>1. k - Len(f) \in 1..i - 1
        BY <2>1, <2>2, <3>1, <3>3
      <4>2. h[k] = g[k - Len(f)] /\ q[k] = b[k - Len(f)]
        BY <1>1, <2>5, <3>1, <3>3
      <4>3. QED
        BY <2>3, <2>4, <3>1, <4>1, <4>2
    <3>4. QED
      BY <3>2, <3>3
  <2>8. p = q
    BY <2>3, <2>5, <2>6, <2>7, SeqEqual
  <2>9. h[n] = g[i]
    <3>1. n \in 1..Len(f) + Len(g) /\ ~(n <= Len(f)) /\ n - Len(f) = i
      BY <1>1, <2>1, <2>2
    <3>2. QED
      BY <1>1, <3>1
  <2>10. QED
    BY <2>2, <2>8, <2>9 DEF p, b, q
<1>5. \A i \in DOMAIN h : i \in DOMAIN f \/ \E j \in DOMAIN g : i = Len(f) + j
  <2> SUFFICES ASSUME NEW i \in DOMAIN h, i \notin DOMAIN f
               PROVE  \E j \in DOMAIN g : i = Len(f) + j
    OBVIOUS
  <2>1. i - Len(f) \in DOMAIN g /\ i = Len(f) + (i - Len(f))
    BY <1>1
  <2>2. QED
    BY <2>1
<1>6. QED
  BY <1>3, <1>4, <1>5 DEF h

\* A queue stays well ordered when a signal that fits is appended.
LEMMA OrderAppend ==
  ASSUME NEW f \in Seq(Signal), NEW m \in Signal, NEW v, NEW x,
         WellOrdered(f, v, x), MayFollow(f, v, x, m)
  PROVE  WellOrdered(f \o <<m>>, v, x)
<1> DEFINE g == <<m>>
<1>1. g \in Seq(Signal) /\ DOMAIN g = {1} /\ g[1] = m
  OBVIOUS
<1>2. Before(g, 1) = <<>>
  BY SubSeqEmpty DEF Before
<1>3. f \o Before(g, 1) = f
  BY <1>2, ConcatEmptySeq
<1> HIDE DEF g
<1>4. \A j \in DOMAIN g : MayFollow(Before(f \o g, Len(f) + j), v, x, (f \o g)[Len(f) + j])
  <2>1. \A i \in DOMAIN g : /\ Before(f \o g, Len(f) + i) = f \o Before(g, i)
                            /\ (f \o g)[Len(f) + i] = g[i]
    BY <1>1, BeforeConcat
  <2>2. /\ Before(f \o g, Len(f) + 1) = f
        /\ (f \o g)[Len(f) + 1] = m
    BY <1>1, <1>3, <2>1, Zenon
  <2>3. QED
    BY <1>1, <2>2
<1>5. \A i \in DOMAIN f : MayFollow(Before(f \o g, i), v, x, (f \o g)[i])
  BY <1>1, BeforeConcat DEF WellOrdered
<1>6. \A i \in DOMAIN (f \o g) : i \in DOMAIN f \/ \E j \in DOMAIN g : i = Len(f) + j
  BY <1>1, BeforeConcat
<1>7. QED
  BY <1>4, <1>5, <1>6 DEF WellOrdered, g

\* And when updates are appended, if those of x find it known.
LEMMA OrderUpdates ==
  ASSUME NEW f \in Seq(Signal), NEW g \in Seq(Signal), NEW v, NEW x,
         WellOrdered(f, v, x),
         \A i \in DOMAIN g : g[i].sig \in OtherSignal /\ (g[i].obj = x => KnownAfter(f, v, x))
  PROVE  WellOrdered(f \o g, v, x)
<1>1. \A i \in DOMAIN g : ~Listing(g[i])
  BY DEF Listing, OtherSignal, AddSignal, RemoveSignal
<1>2. ASSUME NEW j \in DOMAIN g
      PROVE  MayFollow(f \o Before(g, j), v, x, g[j])
  <2>1. /\ Before(g, j) \in Seq(Signal)
        /\ \A i \in DOMAIN Before(g, j) : ~Changes(Before(g, j)[i], x)
    <3>1. \A k \in 1..j - 1 : k \in DOMAIN g /\ g[k] \in Signal
      OBVIOUS
    <3>2. /\ SubSeq(g, 1, j - 1) \in Seq(Signal)
          /\ Len(SubSeq(g, 1, j - 1)) = IF 1 <= j - 1 THEN (j - 1) - 1 + 1 ELSE 0
          /\ \A k \in 1..(j - 1) - 1 + 1 : SubSeq(g, 1, j - 1)[k] = g[1 + k - 1]
      BY <3>1, SubSeqProperties
    <3>3. \A i \in DOMAIN Before(g, j) : i \in 1..j - 1 /\ Before(g, j)[i] = g[i]
      BY <3>2 DEF Before
    <3>4. QED
      BY <1>1, <3>1, <3>2, <3>3 DEF Before, Changes
  <2>2. KnownAfter(f \o Before(g, j), v, x) <=> KnownAfter(f, v, x)
    BY <2>1, KnownAfterOther
  <2>3. QED
    BY <1>1, <2>2 DEF MayFollow, Changes
<1>3. \A i \in DOMAIN f : MayFollow(Before(f \o g, i), v, x, (f \o g)[i])
  BY BeforeConcat DEF WellOrdered
<1>4. \A j \in DOMAIN g : MayFollow(Before(f \o g, Len(f) + j), v, x, (f \o g)[Len(f) + j])
  BY <1>2, BeforeConcat
<1>5. \A i \in DOMAIN (f \o g) : i \in DOMAIN f \/ \E j \in DOMAIN g : i = Len(f) + j
  BY BeforeConcat
<1>6. QED
  BY <1>3, <1>4, <1>5 DEF WellOrdered

\* Handling the oldest signal leaves the rest well ordered.
LEMMA OrderHead ==
  ASSUME NEW f \in Seq(Signal), f # <<>>, NEW v, NEW x \in Object, WellOrdered(f, v, x)
  PROVE  WellOrdered(Tail(f), Apply(v, Head(f)), x)
<1> DEFINE t == Tail(f)
           w == Apply(v, Head(f))
<1>1. t \in Seq(Signal) /\ Len(t) = Len(f) - 1 /\ \A i \in 1..Len(t) : t[i] = f[i + 1]
  BY HeadTailProperties
<1>2. ASSUME NEW i \in DOMAIN t
      PROVE  MayFollow(Before(t, i), w, x, t[i])
  <2> DEFINE b == Before(f, i + 1)
  <2>1. i \in 1..Len(t) /\ i + 1 \in 1..Len(f) /\ i \in 1..Len(f) /\ 1 \in 1..Len(f) /\ i \in 1..i
    BY <1>1
  <2>2. b = SubSeq(f, 1, i)
    BY <2>1 DEF Before
  <2>3. b \in Seq(Signal) /\ Len(b) = i /\ \A k \in 1..i : b[k] = f[k]
    <3>1. \A k \in 1..i : f[k] \in Signal
      BY <2>1
    <3>2. /\ SubSeq(f, 1, i) \in Seq(Signal)
          /\ Len(SubSeq(f, 1, i)) = IF 1 <= i THEN i - 1 + 1 ELSE 0
          /\ \A k \in 1..i - 1 + 1 : SubSeq(f, 1, i)[k] = f[1 + k - 1]
      BY <2>1, <3>1, SubSeqProperties
    <3>3. 1 <= i /\ i - 1 + 1 = i /\ \A k \in 1..i : 1 + k - 1 = k
      BY <2>1
    <3>4. QED
      BY <2>2, <3>2, <3>3
  <2>4. b # <<>> /\ Head(b) = Head(f)
    BY <2>1, <2>3
  <2>5. Before(t, i) = Tail(b)
    <3>1. Tail(b) \in Seq(Signal) /\ Len(Tail(b)) = i - 1 /\ \A k \in 1..i - 1 : Tail(b)[k] = f[k + 1]
      BY <2>1, <2>3, <2>4, HeadTailProperties
    <3>2. \A k \in 1..i - 1 : t[k] \in Signal /\ t[k] = f[k + 1]
      BY <1>1, <2>1
    <3>3. /\ SubSeq(t, 1, i - 1) \in Seq(Signal)
          /\ Len(SubSeq(t, 1, i - 1)) = IF 1 <= i - 1 THEN (i - 1) - 1 + 1 ELSE 0
          /\ \A k \in 1..(i - 1) - 1 + 1 : SubSeq(t, 1, i - 1)[k] = t[1 + k - 1]
      BY <2>1, <3>2, SubSeqProperties
    <3>4. Len(SubSeq(t, 1, i - 1)) = i - 1 /\ \A k \in 1..i - 1 : SubSeq(t, 1, i - 1)[k] = f[k + 1]
      BY <2>1, <3>2, <3>3
    <3>5. QED
      BY <2>1, <3>1, <3>3, <3>4, SeqEqual DEF Before
  <2> HIDE DEF b
  <2>6. KnownAfter(Before(t, i), w, x) <=> KnownAfter(b, v, x)
    <3>1. KnownAfter(Tail(b), Apply(v, Head(b)), x) <=> KnownAfter(b, v, x)
      BY <2>3, <2>4, KnownAfterHead
    <3>2. QED
      BY <2>4, <2>5, <3>1
  <2>7. MayFollow(b, v, x, f[i + 1])
    BY <2>1 DEF WellOrdered, b
  <2>8. QED
    BY <1>1, <2>1, <2>6, <2>7 DEF MayFollow
<1>3. QED
  BY <1>2 DEF WellOrdered

-----------------------------------------------------------------------------
(* The steps.                                                              *)

\* The queue is empty until the receiver has connected, and well ordered from
\* then on.
OrderInv == sub = "live" => \A x \in Object \ missed : WellOrdered(feed, view, x)

\* A signal that says what the lists say.
Justified(m) ==
  /\ m.sig \in AddSignal => m.obj \notin Cached
  /\ m.sig \in RemoveSignal => m.obj \in Cached
  /\ m.sig \in OtherSignal /\ m.obj \in Object => m.obj \in Cached

\* A step that emits one such signal.
LEMMA OrderOne ==
  ASSUME TypeOK, QueueInv, OrderInv, NEW m \in Signal, Justified(m), Emit(<<m>>),
         UNCHANGED <<sub, view>>
  PROVE  OrderInv'
<1> SUFFICES ASSUME sub = "live", NEW x \in Object \ missed
             PROVE  WellOrdered(feed', view, x)
  BY DEF OrderInv, Emit
<1>1. feed' = feed \o <<m>> /\ feed \in Seq(Signal)
  BY DEF Emit, TypeOK
<1>2. KnownAfter(feed, view, x) <=> x \in Cached
  BY DEF QueueInv, FeedLeadsToLists
<1>3. MayFollow(feed, view, x, m)
  BY <1>2 DEF MayFollow, Justified, Changes, Listing, AddSignal, RemoveSignal
<1>4. QED
  BY <1>1, <1>3, OrderAppend DEF OrderInv

\* A step that emits updates, of listed objects or of none.
LEMMA OrderOthers ==
  ASSUME TypeOK, QueueInv, OrderInv, NEW msgs \in Seq(Signal), Emit(msgs),
         \A i \in DOMAIN msgs : msgs[i].sig \in OtherSignal /\ Justified(msgs[i]),
         UNCHANGED <<sub, view>>
  PROVE  OrderInv'
<1>1. \A i \in DOMAIN msgs : ~Listing(msgs[i])
  BY DEF Listing, OtherSignal, AddSignal, RemoveSignal
<1> SUFFICES ASSUME sub = "live", NEW x \in Object \ missed
             PROVE  WellOrdered(feed', view, x)
  BY DEF OrderInv, Emit
<1>2. feed' = feed \o msgs /\ feed \in Seq(Signal)
  BY DEF Emit, TypeOK
<1>3. KnownAfter(feed, view, x) <=> x \in Cached
  BY DEF QueueInv, FeedLeadsToLists
<1>4. \A i \in DOMAIN msgs :
        msgs[i].sig \in OtherSignal /\ (msgs[i].obj = x => KnownAfter(feed, view, x))
  BY <1>3 DEF Justified
<1>5. QED
  BY <1>2, <1>4, OrderUpdates DEF OrderInv

\* A step that emits nothing.
LEMMA OrderUntouched ==
  ASSUME OrderInv, UNCHANGED <<queue, sub, view>>
  PROVE  OrderInv'
  BY DEF OrderInv, queue

\* What is listed, kind by kind.
LEMMA CachedIs ==
  /\ \A d \in Device : d \in Cached <=> m_devices[d] > 0
  /\ \A c \in Conn : c \in Cached <=> m_connections[c] > 0
  /\ \A a \in Active : a \in Cached <=> m_activeConns[a] > 0
  BY ConstantsAssumption DEF Cached

\* onDeviceRemoved.
LEMMA OrderDevice ==
  ASSUME TypeOK, QueueInv, OrderInv, NEW d \in Device, ForgetDevice(d), UNCHANGED <<sub, view>>
  PROVE  OrderInv'
<1>1. CASE m_devices[d] > 0
  <2>1. AboutDevice("deviceRemove", d) \in Signal
    BY SignalTypes DEF RemoveSignal
  <2>2. Justified(AboutDevice("deviceRemove", d))
    BY <1>1, CachedIs DEF Justified, AboutDevice, AddSignal, RemoveSignal, OtherSignal
  <2>3. QED
    BY <1>1, <2>1, <2>2, OrderOne DEF ForgetDevice
<1>2. CASE ~(m_devices[d] > 0)
  BY <1>2, OrderUntouched DEF ForgetDevice
<1>3. QED
  BY <1>1, <1>2

\* onActiveConnectionRemoved.
LEMMA OrderActive ==
  ASSUME TypeOK, QueueInv, OrderInv, NEW a \in Active, ForgetActive(a), UNCHANGED <<sub, view>>
  PROVE  OrderInv'
<1>1. CASE m_activeConns[a] > 0
  <2>1. About("activeConnectionRemove", a) \in Signal
    BY SignalTypes DEF RemoveSignal
  <2>2. Justified(About("activeConnectionRemove", a))
    BY <1>1, CachedIs DEF Justified, About, AddSignal, RemoveSignal, OtherSignal
  <2>3. QED
    BY <1>1, <2>1, <2>2, OrderOne DEF ForgetActive
<1>2. CASE ~(m_activeConns[a] > 0)
  BY <1>2, OrderUntouched DEF ForgetActive
<1>3. QED
  BY <1>1, <1>2

\* removeConnection(pos).
LEMMA OrderConnection ==
  ASSUME TypeOK, QueueInv, OrderInv, NEW c \in Conn, m_connections[c] > 0, TakeConnection(c),
         UNCHANGED <<sub, view>>
  PROVE  OrderInv'
<1>1. About("connectionRemove", c) \in Signal
  BY SignalTypes DEF RemoveSignal
<1>2. Justified(About("connectionRemove", c))
  BY CachedIs DEF Justified, About, AddSignal, RemoveSignal, OtherSignal
<1>3. QED
  BY <1>1, <1>2, OrderOne DEF TakeConnection

\* The signals of networks name no object.
LEMMA NetworkJustified ==
  ASSUME NEW net \in Network, NEW sig \in OtherSignal
  PROVE  Justified(AboutNetwork(sig, net)) /\ AboutNetwork(sig, net).sig \in OtherSignal
  BY ConstantsAssumption DEF Justified, AboutNetwork, OtherSignal, AddSignal, RemoveSignal

\* An update of a listed object.
LEMMA UpdateJustified ==
  ASSUME NEW x \in Cached, NEW arg
  PROVE  \A sig \in OtherSignal : LET m == [sig |-> sig, obj |-> x, arg |-> arg]
                                  IN Justified(m) /\ m.sig \in OtherSignal
  BY DEF Justified, OtherSignal, AddSignal, RemoveSignal

\* Both calls of a disappearing network.
LEMMA OrderDisappeared ==
  ASSUME TypeOK, QueueInv, OrderInv, NEW net \in Network, NEW first \in BOOLEAN,
         OnWifiNetworkDisappeared(net, first)
  PROVE  OrderInv'
<1> DEFINE Fine == {m \in Signal : m.sig \in OtherSignal /\ Justified(m)}
           e0 == m_wifiNets[net]
           e1 == IF first THEN RemoveFound(e0) ELSE RemoveSender(e0)
           e2 == IF first THEN IF e1.live < e0.live THEN e1 ELSE RemoveSender(e1)
                          ELSE RemoveFound(e1)
           update == <<AboutDevice("deviceUpdate", net[1])>>
           msgs == IF first
                     THEN Removed(net, e0, e1) \o update \o Removed(net, e1, e2)
                     ELSE Removed(net, e0, e1) \o Removed(net, e1, e2) \o update
<1>1. \A e, f : Removed(net, e, f) \in Seq(Fine)
  <2>1. AboutNetwork("wifiNetworkRemoved", net) \in Fine
    BY SignalTypes, NetworkJustified DEF OtherSignal
  <2>2. QED
    BY <2>1 DEF Removed
<1>2. update \in Seq(Fine)
  <2>1. net[1] \in Cached
    BY CachedIs DEF OnWifiNetworkDisappeared
  <2>2. AboutDevice("deviceUpdate", net[1]) \in Fine
    BY <2>1, SignalTypes, UpdateJustified DEF AboutDevice, OtherSignal
  <2>3. QED
    BY <2>2
<1>3. msgs \in Seq(Fine)
  <2>1. Removed(net, e0, e1) \in Seq(Fine) /\ Removed(net, e1, e2) \in Seq(Fine)
    BY <1>1
  <2> HIDE DEF Fine, e0, e1, e2, update
  <2>2. QED
    BY <1>2, <2>1
<1>4. Emit(msgs) /\ UNCHANGED <<sub, view>>
  BY DEF OnWifiNetworkDisappeared
<1> HIDE DEF msgs
<1>5. msgs \in Seq(Signal) /\ \A i \in DOMAIN msgs : msgs[i] \in Fine
  BY <1>3
<1>6. QED
  BY <1>4, <1>5, OrderOthers

\* Every step keeps the queue well ordered.
LEMMA OrderStep ==
  ASSUME TypeOK, QueueInv, OrderInv, [Next]_vars
  PROVE  OrderInv'
<1> USE DEF Quiet, InNM
<1>1. CASE OnInitNetwork \/ ServiceDisappears \/ OnServiceAppear \/ InsertTimeout \/ InsertDone
              \/ ServiceDisappeared \/ ClearWifiNetworks \/ UNCHANGED vars
  BY <1>1, OrderUntouched
     DEF OnInitNetwork, ServiceDisappears, OnServiceAppear, InsertTimeout, InsertDone,
         ServiceDisappeared, ClearWifiNetworks, vars
<1>2. ASSUME NEW d \in Device, NEW n \in Name, NEW have \in SUBSET Ssid, OnDeviceAdded(d, n, have)
      PROVE  OrderInv'
  <2> DEFINE m == [sig |-> "deviceAdd", obj |-> d, arg |-> <<n, "name">>]
  <2>1. CASE m_devices[d] = 0
    <3>1. m \in Signal
      BY SignalTypes DEF AddSignal
    <3>2. Justified(m)
      BY <2>1, CachedIs DEF Justified, AddSignal, RemoveSignal, OtherSignal
    <3>3. QED
      BY <1>2, <2>1, <3>1, <3>2, OrderOne DEF OnDeviceAdded
  <2>2. CASE m_devices[d] # 0
    BY <1>2, <2>2, OrderUntouched DEF OnDeviceAdded
  <2>3. QED
    BY <2>1, <2>2
<1>3. ASSUME NEW d \in Device, OnDeviceRemoved(d) \/ LoseDevice(d)
      PROVE  OrderInv'
  BY <1>3, OrderDevice DEF OnDeviceRemoved, LoseDevice
<1>4. ASSUME NEW d \in Device, NEW n \in Name, OnDeviceUpdated(d, n)
      PROVE  OrderInv'
  <2> DEFINE m == [sig |-> "deviceUpdate", obj |-> d, arg |-> <<n, "name">>]
  <2>1. m \in Signal
    BY SignalTypes DEF OtherSignal
  <2>2. Justified(m)
    BY <1>4, CachedIs, UpdateJustified DEF OnDeviceUpdated, OtherSignal
  <2>3. QED
    BY <1>4, <2>1, <2>2, OrderOne DEF OnDeviceUpdated
<1>5. ASSUME NEW net \in Network, OnWifiNetworkAppeared(net)
      PROVE  OrderInv'
  <2> DEFINE m1 == AboutNetwork("wifiNetworkAdded", net)
             m2 == AboutDevice("deviceUpdate", net[1])
  <2>1. m1 \in Signal /\ m2 \in Signal
    BY SignalTypes DEF OtherSignal
  <2>2. m1.sig \in OtherSignal /\ Justified(m1)
    BY NetworkJustified DEF OtherSignal
  <2>3. m2.sig \in OtherSignal /\ Justified(m2)
    <3>1. net[1] \in Cached
      BY <1>5, CachedIs DEF OnWifiNetworkAppeared
    <3>2. QED
      BY <3>1, UpdateJustified DEF AboutDevice, OtherSignal
  <2>4. Emit(<<m1, m2>>) /\ UNCHANGED <<sub, view>>
    BY <1>5 DEF OnWifiNetworkAppeared
  <2> HIDE DEF m1, m2
  <2>5. <<m1, m2>> \in Seq(Signal)
        /\ \A i \in DOMAIN <<m1, m2>> : <<m1, m2>>[i].sig \in OtherSignal /\ Justified(<<m1, m2>>[i])
    BY <2>1, <2>2, <2>3
  <2>6. QED
    BY <2>4, <2>5, OrderOthers
<1>6. ASSUME NEW net \in Network, OnWifiNetworkUpdate(net)
      PROVE  OrderInv'
  <2>1. DeviceDisappear \in Signal /\ AboutNetwork("wifiNetworkPropertyChange", net) \in Signal
    BY SignalTypes DEF OtherSignal
  <2>2. Justified(DeviceDisappear)
    BY ConstantsAssumption
       DEF Justified, DeviceDisappear, About, OtherSignal, AddSignal, RemoveSignal
  <2>3. Justified(AboutNetwork("wifiNetworkPropertyChange", net))
    BY NetworkJustified DEF OtherSignal
  <2>4. QED
    BY <1>6, <2>1, <2>2, <2>3, OrderOne DEF OnWifiNetworkUpdate
<1>7. ASSUME NEW net \in Network, NEW first \in BOOLEAN, OnWifiNetworkDisappeared(net, first)
      PROVE  OrderInv'
  BY <1>7, OrderDisappeared
<1>8. ASSUME NEW c \in Conn, OnConnectionAdded(c)
      PROVE  OrderInv'
  <2>1. CASE c \notin Unnamed /\ m_connections[c] = 0
    <3>1. About("connectionAdd", c) \in Signal
      BY SignalTypes DEF AddSignal
    <3>2. Justified(About("connectionAdd", c))
      BY <2>1, CachedIs DEF Justified, About, AddSignal, RemoveSignal, OtherSignal
    <3>3. QED
      BY <1>8, <2>1, <3>1, <3>2, OrderOne DEF OnConnectionAdded
  <2>2. CASE ~(c \notin Unnamed /\ m_connections[c] = 0)
    BY <1>8, <2>2, OrderUntouched DEF OnConnectionAdded
  <2>3. QED
    BY <2>1, <2>2
<1>9. ASSUME NEW c \in Conn, OnConnectionRemoved(c) \/ ClearConnection(c)
      PROVE  OrderInv'
  BY <1>9, OrderConnection, OrderUntouched DEF OnConnectionRemoved, ClearConnection
<1>10. ASSUME NEW c \in Conn, OnConnectionUpdated(c)
       PROVE  OrderInv'
  <2>1. About("connectionUpdate", c) \in Signal
    BY SignalTypes DEF OtherSignal
  <2>2. Justified(About("connectionUpdate", c))
    BY <1>10, CachedIs, UpdateJustified DEF OnConnectionUpdated, About, OtherSignal
  <2>3. QED
    BY <1>10, <2>1, <2>2, OrderOne DEF OnConnectionUpdated
<1>11. ASSUME NEW a \in Active, OnActiveConnectionAdded(a)
       PROVE  OrderInv'
  <2>1. CASE m_activeConns[a] = 0
    <3>1. About("activeConnectionAdd", a) \in Signal
      BY SignalTypes DEF AddSignal
    <3>2. Justified(About("activeConnectionAdd", a))
      BY <2>1, CachedIs DEF Justified, About, AddSignal, RemoveSignal, OtherSignal
    <3>3. QED
      BY <1>11, <2>1, <3>1, <3>2, OrderOne DEF OnActiveConnectionAdded
  <2>2. CASE m_activeConns[a] # 0
    BY <1>11, <2>2, OrderUntouched DEF OnActiveConnectionAdded
  <2>3. QED
    BY <2>1, <2>2
<1>12. ASSUME NEW a \in Active, OnActiveConnectionRemoved(a) \/ LoseActive(a)
       PROVE  OrderInv'
  BY <1>12, OrderActive DEF OnActiveConnectionRemoved, LoseActive
<1>13. ASSUME NEW a \in Active, OnActiveConnectionChanged(a)
       PROVE  OrderInv'
  <2>1. About("activeConnectStateChangeReason", a) \in Signal
    BY SignalTypes DEF OtherSignal
  <2>2. Justified(About("activeConnectStateChangeReason", a))
    BY <1>13, CachedIs, UpdateJustified DEF OnActiveConnectionChanged, About, OtherSignal
  <2>3. QED
    BY <1>13, <2>1, <2>2, OrderOne DEF OnActiveConnectionChanged
<1>14. ASSUME NEW net \in Network, InsertWifiNetwork(net)
       PROVE  OrderInv'
  <2>1. AddedByName(net) \in Signal
    BY SignalTypes DEF OtherSignal
  <2>2. Justified(AddedByName(net))
    BY ConstantsAssumption DEF Justified, AddedByName, AddSignal, RemoveSignal
  <2>3. QED
    BY <1>14, <2>1, <2>2, OrderOne DEF InsertWifiNetwork
<1>15. CASE ReadLists \/ Connect
  <2>1. feed' = <<>>
    BY <1>15 DEF ReadLists, Connect, QueueInv, queue
  <2>2. QED
    BY <2>1 DEF OrderInv, WellOrdered
<1>16. CASE Deliver
  <2>1. \A x \in Object \ missed : WellOrdered(feed, view, x)
    BY <1>16 DEF Deliver, QueueInv, OrderInv
  <2>2. feed \in Seq(Signal) /\ feed # <<>> /\ feed' = Tail(feed) /\ view' = Apply(view, Head(feed))
        /\ missed' = missed
    BY <1>16 DEF Deliver, TypeOK
  <2>3. QED
    BY <2>1, <2>2, OrderHead DEF OrderInv
<1>17. QED
  BY <1>1, <1>2, <1>3, <1>4, <1>5, <1>6, <1>7, <1>8, <1>9, <1>10, <1>11, <1>12, <1>13,
     <1>14, <1>15, <1>16 DEF Next, ManagerNext, LibraryEvent, Continue

\* The queue is well ordered all the time.
LEMMA OrderInvariant == Spec => []OrderInv
<1>1. Init => OrderInv
  BY DEF Init, OrderInv
<1>2. TypeOK /\ QueueInv /\ OrderInv /\ [Next]_vars => OrderInv'
  BY OrderStep
<1>3. QED
  BY <1>1, <1>2, TypeCorrect, QueueInvariant, PTL DEF Spec

\* No object is announced twice without a removal between, nor removed twice: a
\* receiver that counts, or that fails on what it does not know, is safe.
THEOREM FeedAlternation == Spec => []FeedAlternates
<1>1. QueueInv /\ OrderInv => FeedAlternates
  BY DEF QueueInv, OrderInv, FeedAlternates, WellOrdered, MayFollow, Before, Earlier
<1>2. QED
  BY <1>1, OrderInvariant, QueueInvariant, PTL

\* No update or change of state overtakes the announcement of its object, or
\* comes after its removal.
THEOREM UpdatesBetween == Spec => []UpdatesOfKnown
<1>1. QueueInv /\ OrderInv => UpdatesOfKnown
  BY DEF QueueInv, OrderInv, UpdatesOfKnown, WellOrdered, MayFollow, Before, Earlier
<1>2. QED
  BY <1>1, OrderInvariant, QueueInvariant, PTL
-----------------------------------------------------------------------------
(* Counting the changes of an object in a queue.                           *)

ChangesIn(f, x) == {i \in DOMAIN f : Changes(f[i], x)}
Count(f, x) == Cardinality(ChangesIn(f, x))

\* The places of the changes are finite in number.
LEMMA CountType ==
  ASSUME NEW f \in Seq(Signal), NEW x
  PROVE  IsFiniteSet(ChangesIn(f, x)) /\ Count(f, x) \in Nat
<1>1. IsFiniteSet(1..Len(f))
  BY FS_Interval
<1>2. ChangesIn(f, x) \in SUBSET (1..Len(f))
  BY DEF ChangesIn
<1>3. IsFiniteSet(ChangesIn(f, x))
  BY <1>1, <1>2, FS_Subset
<1>4. QED
  BY <1>3, FS_CardinalityType DEF Count

\* Signals that list nothing do not count.
LEMMA CountOthers ==
  ASSUME NEW f \in Seq(Signal), NEW g \in Seq(Signal), NEW x,
         \A i \in DOMAIN g : ~Changes(g[i], x)
  PROVE  Count(f \o g, x) = Count(f, x)
<1> DEFINE h == f \o g
<1>1. /\ h \in Seq(Signal) /\ Len(h) = Len(f) + Len(g)
      /\ \A i \in 1..Len(f) : h[i] = f[i]
      /\ \A i \in DOMAIN h : i > Len(f) => i - Len(f) \in DOMAIN g /\ h[i] = g[i - Len(f)]
  OBVIOUS
<1>2. \A i \in DOMAIN h : Changes(h[i], x) => i \in DOMAIN f /\ Changes(f[i], x)
  BY <1>1
<1>3. \A i \in DOMAIN f : i \in DOMAIN h /\ h[i] = f[i]
  BY <1>1
<1>4. ChangesIn(h, x) = ChangesIn(f, x)
  BY <1>2, <1>3 DEF ChangesIn
<1>5. QED
  BY <1>4 DEF Count

\* A change appended counts for its object.
LEMMA CountAppend ==
  ASSUME NEW f \in Seq(Signal), NEW m \in Signal, NEW x, Changes(m, x)
  PROVE  Count(f \o <<m>>, x) = Count(f, x) + 1
<1> DEFINE h == f \o <<m>>
           n == Len(f) + 1
<1>1. /\ DOMAIN h = 1..n /\ h[n] = m /\ DOMAIN f = 1..n - 1 /\ n \in DOMAIN h /\ n \notin DOMAIN f
      /\ \A i \in 1..n - 1 : h[i] = f[i]
  OBVIOUS
<1>2. \A i \in DOMAIN h : i = n \/ i \in DOMAIN f
  BY <1>1
<1>3. \A i \in DOMAIN f : i \in DOMAIN h /\ h[i] = f[i]
  BY <1>1
<1>4. ChangesIn(h, x) = ChangesIn(f, x) \cup {n} /\ n \notin ChangesIn(f, x)
  BY <1>1, <1>2, <1>3 DEF ChangesIn
<1>5. QED
  BY <1>4, CountType, FS_AddElement DEF Count

\* The oldest signal taken, there is one change less of its object.
LEMMA CountHead ==
  ASSUME NEW f \in Seq(Signal), f # <<>>, NEW x
  PROVE  Count(f, x) = Count(Tail(f), x) + IF Changes(Head(f), x) THEN 1 ELSE 0
<1> DEFINE t == Tail(f)
           S == ChangesIn(f, x) \ {1}
           T == ChangesIn(t, x)
           shift == [i \in T |-> i + 1]
<1>1. /\ t \in Seq(Signal) /\ Len(t) = Len(f) - 1 /\ Len(f) \in Nat /\ Len(f) > 0
      /\ \A i \in 1..Len(t) : t[i] = f[i + 1]
      /\ Head(f) = f[1]
  BY HeadTailProperties
<1>2. \A i \in DOMAIN t : i \in Nat /\ i + 1 \in DOMAIN f /\ i + 1 # 1 /\ t[i] = f[i + 1]
  BY <1>1
<1>3. \A i \in DOMAIN f : i # 1 => i - 1 \in DOMAIN t /\ (i - 1) + 1 = i /\ f[i] = t[i - 1]
  BY <1>1
<1>4. shift \in Bijection(T, S)
  <2>1. \A i \in T : i + 1 \in S
    BY <1>2 DEF ChangesIn
  <2>2. \A i, j \in T : i + 1 = j + 1 => i = j
    BY <1>2 DEF ChangesIn
  <2>3. \A i \in S : i - 1 \in T /\ (i - 1) + 1 = i
    BY <1>3 DEF ChangesIn
  <2> HIDE DEF S, T
  <2>4. shift \in [T -> S]
    BY <2>1
  <2>5. \A i, j \in T : shift[i] = shift[j] => i = j
    BY <2>2
  <2>6. \A i \in S : \E j \in T : shift[j] = i
    BY <2>3
  <2>7. QED
    BY <2>4, <2>5, <2>6 DEF Bijection, Injection, Surjection, IsInjective
<1>5. Cardinality(S) = Cardinality(T)
  <2>1. ExistsBijection(T, S)
    BY <1>4 DEF ExistsBijection
  <2>2. IsFiniteSet(T)
    BY <1>1, CountType
  <2>3. QED
    BY <2>1, <2>2, FS_Bijection
<1>6. Cardinality(S) = IF 1 \in ChangesIn(f, x) THEN Count(f, x) - 1 ELSE Count(f, x)
  BY CountType, FS_RemoveElement DEF Count
<1>7. 1 \in ChangesIn(f, x) <=> Changes(Head(f), x)
  BY <1>1 DEF ChangesIn
<1>8. QED
  BY <1>5, <1>6, <1>7, CountType DEF Count

-----------------------------------------------------------------------------
(* Two kinds of step of the manager's thread.                              *)

\* An object is listed, or no longer is, and its signal is sent.
Lists(m) ==
  /\ m \in Signal /\ Listing(m) /\ Emit(<<m>>) /\ m.obj \in Object
  /\ IF m.sig \in AddSignal THEN m.obj \notin Cached /\ Cached' = Cached \cup {m.obj}
                            ELSE m.obj \in Cached /\ Cached' = Cached \ {m.obj}
  /\ UNCHANGED <<sub, view, m_initFinished>>

\* No list changes, and nothing is said of what is listed.
Keeps ==
  /\ Cached' = Cached /\ UNCHANGED <<sub, view>>
  /\ \/ UNCHANGED queue
     \/ \E msgs \in Seq(Signal) : Emit(msgs) /\ \A i \in DOMAIN msgs : ~Listing(msgs[i])

-----------------------------------------------------------------------------
(* Each kind is a step of the abstract feed, or none.                      *)

\* A listing step is a Change, or a Prepare if nobody has read the lists.
LEMMA ListsImplements ==
  ASSUME TypeOK, QueueInv, NEW m, Lists(m)
  PROVE  Feed!Next
<1>1. Cached' = Feed!Toggle(Cached, m.obj)
  BY DEF Lists, Feed!Toggle
<1>2. \A x \in Object : Changes(m, x) <=> x = m.obj
  BY DEF Lists, Changes
<1>3. CASE sub = "none"
  <2>1. feed' = feed /\ missed' = missed /\ Cached' \in SUBSET Object
    BY <1>3 DEF Lists, Emit, Cached
  <2>2. Pending' = Pending
    BY <2>1 DEF Pending
  <2>3. Feed!Prepare
    BY <1>3, <2>1, <2>2 DEF Lists, Feed!Prepare
  <2>4. QED
    BY <2>3 DEF Feed!Next
<1>4. CASE sub = "read"
  <2>1. feed' = feed /\ missed' = missed \cup {m.obj}
    BY <1>4 DEF Lists, Emit
  <2>2. Pending' = Pending
    BY <2>1 DEF Pending
  <2>3. Feed!Change(m.obj)
    BY <1>1, <1>4, <2>1, <2>2 DEF Lists, Feed!Change
  <2>4. QED
    BY <2>3 DEF Feed!Next, Lists
<1>5. CASE sub = "live"
  <2>1. feed' = feed \o <<m>> /\ missed' = missed /\ feed \in Seq(Signal) /\ m \in Signal
    BY <1>5 DEF Lists, Emit, TypeOK
  <2>2. \A x \in Object : Count(feed', x) = IF x = m.obj THEN Count(feed, x) + 1 ELSE Count(feed, x)
    <3> SUFFICES ASSUME NEW x \in Object
                 PROVE  Count(feed', x) = IF x = m.obj THEN Count(feed, x) + 1 ELSE Count(feed, x)
      OBVIOUS
    <3>1. CASE x = m.obj
      BY <1>2, <2>1, <3>1, CountAppend
    <3>2. CASE x # m.obj
      <4>1. <<m>> \in Seq(Signal) /\ \A i \in DOMAIN <<m>> : ~Changes(<<m>>[i], x)
        BY <1>2, <2>1, <3>2
      <4>2. QED
        BY <2>1, <3>2, <4>1, CountOthers
    <3>3. QED
      BY <3>1, <3>2
  <2>3. Pending = [x \in Object |-> Count(feed, x)] /\ Pending' = [x \in Object |-> Count(feed', x)]
    BY DEF Pending, Count, ChangesIn
  <2>4. Pending' = [Pending EXCEPT ![m.obj] = @ + 1]
    BY <2>2, <2>3 DEF Lists
  <2>5. Feed!Change(m.obj)
    BY <1>1, <1>5, <2>1, <2>4 DEF Lists, Feed!Change
  <2>6. QED
    BY <2>5 DEF Feed!Next, Lists
<1>6. QED
  BY <1>3, <1>4, <1>5 DEF TypeOK

\* A step that keeps the lists is none of the feed's.
LEMMA KeepsImplements ==
  ASSUME TypeOK, Keeps
  PROVE  UNCHANGED Feed!feedVars
<1>1. missed' = missed
  BY DEF Keeps, Emit, queue
<1>2. \A x \in Object : Count(feed', x) = Count(feed, x)
  <2>1. CASE UNCHANGED queue
    BY <2>1 DEF queue
  <2>2. ASSUME NEW msgs \in Seq(Signal), Emit(msgs), \A i \in DOMAIN msgs : ~Listing(msgs[i])
        PROVE  \A x \in Object : Count(feed', x) = Count(feed, x)
    <3>1. \A x \in Object : Count(feed \o msgs, x) = Count(feed, x)
      <4> SUFFICES ASSUME NEW x \in Object
                   PROVE  Count(feed \o msgs, x) = Count(feed, x)
        OBVIOUS
      <4>1. \A i \in DOMAIN msgs : ~Changes(msgs[i], x)
        BY <2>2 DEF Changes
      <4>2. QED
        BY <4>1, CountOthers DEF TypeOK
    <3>2. QED
      BY <2>2, <3>1 DEF Emit
  <2>3. QED
    BY <2>1, <2>2 DEF Keeps
<1>3. Pending' = Pending
  BY <1>2 DEF Pending, Count, ChangesIn
<1>4. QED
  BY <1>1, <1>3 DEF Keeps, Feed!feedVars

\* Delivering a signal that lists or unlists an object is one Learn of it.
LEMMA DeliverImplements ==
  ASSUME TypeOK, QueueInv, OrderInv, Deliver
  PROVE  [Feed!Next]_(Feed!feedVars)
<1> DEFINE m == Head(feed)
<1>1. /\ feed \in Seq(Signal) /\ feed # <<>> /\ m \in Signal /\ sub = "live"
      /\ feed' = Tail(feed) /\ view' = Apply(view, m) /\ missed' = missed /\ sub' = sub
  BY DEF Deliver, TypeOK, QueueInv
<1>2. Cached' = Cached
  BY CachedChange DEF Deliver, lists
<1>3. \A x \in Object : Count(feed, x) = Count(feed', x) + IF Changes(m, x) THEN 1 ELSE 0
  BY <1>1, CountHead
<1>4. \A x \in Object : Count(feed, x) \in Nat /\ Count(feed', x) \in Nat
  BY <1>1, CountType, HeadTailProperties
<1>5. Pending = [x \in Object |-> Count(feed, x)] /\ Pending' = [x \in Object |-> Count(feed', x)]
  BY DEF Pending, Count, ChangesIn
<1>6. CASE ~Listing(m)
  <2>1. view' = view
    BY <1>1, <1>6 DEF Apply, Listing
  <2>2. \A x \in Object : Count(feed', x) = Count(feed, x)
    BY <1>3, <1>4, <1>6 DEF Changes
  <2>3. Pending' = Pending
    BY <1>5, <2>2
  <2>4. QED
    BY <1>1, <1>2, <2>1, <2>3 DEF Feed!feedVars
<1>7. CASE Listing(m)
  <2> DEFINE x == m.obj
  <2>1. x \in Object
    BY <1>1, <1>7 DEF Signal, Listing, OtherSignal, AddSignal, RemoveSignal
  <2>2. \A y \in Object : Changes(m, y) <=> y = x
    BY <1>7 DEF Changes
  <2>3. \A y \in Object : Count(feed', y) = IF y = x THEN Count(feed, x) - 1 ELSE Count(feed, y)
    BY <1>3, <1>4, <2>1, <2>2
  <2>4. Count(feed, x) > 0
    BY <1>3, <1>4, <2>1, <2>2
  <2>5. Pending[x] > 0 /\ Pending' = [Pending EXCEPT ![x] = @ - 1]
    BY <1>5, <2>1, <2>3, <2>4
  <2>6. view' = IF m.sig \in AddSignal THEN view \cup {x} ELSE view \ {x}
    <3>1. CASE m.sig \in AddSignal
      BY <1>1, <3>1 DEF Apply, AddSignal, RemoveSignal
    <3>2. CASE m.sig \notin AddSignal
      <4>1. m.sig \in RemoveSignal
        BY <1>7, <3>2 DEF Listing
      <4>2. QED
        BY <1>1, <3>2, <4>1 DEF Apply
    <3>3. QED
      BY <3>1, <3>2
  <2>7. IF x \in missed THEN view' \in {view, Feed!Toggle(view, x)} ELSE view' = Feed!Toggle(view, x)
    <3>1. CASE x \in missed
      BY <2>6, <3>1 DEF Feed!Toggle
    <3>2. CASE x \notin missed
      <4>1. WellOrdered(feed, view, x)
        BY <1>1, <2>1, <3>2 DEF OrderInv
      <4>2. 1 \in DOMAIN feed /\ feed[1] = m /\ Before(feed, 1) = <<>>
        BY <1>1, SubSeqEmpty DEF Before
      <4>3. MayFollow(<<>>, view, x, m)
        BY <4>1, <4>2 DEF WellOrdered
      <4>4. KnownAfter(<<>>, view, x) <=> x \in view
        BY DEF KnownAfter
      <4>5. m.sig \in AddSignal <=> x \notin view
        BY <2>1, <2>2, <4>3, <4>4 DEF MayFollow
      <4>6. QED
        BY <2>6, <3>2, <4>5 DEF Feed!Toggle
    <3>3. QED
      BY <3>1, <3>2
  <2>8. Feed!Learn(x)
    BY <1>1, <1>2, <2>5, <2>7 DEF Feed!Learn
  <2>9. QED
    BY <2>1, <2>8 DEF Feed!Next
<1>8. QED
  BY <1>6, <1>7

-----------------------------------------------------------------------------
(* The steps of the manager's thread, by kind.                             *)

\* onDeviceRemoved.
LEMMA DeviceKind ==
  ASSUME TypeOK, ListsInv, m_initFinished, NEW d \in Device, ForgetDevice(d),
         UNCHANGED <<sub, view, m_initFinished, m_connections, m_activeConns>>
  PROVE  Keeps \/ \E m \in Signal : Lists(m)
<1>1. CASE m_devices[d] > 0
  <2> DEFINE m == AboutDevice("deviceRemove", d)
  <2>1. m_devices[d] = 1
    BY <1>1 DEF ListsInv, One
  <2>2. d \in Cached /\ Cached' = Cached \ {d}
    BY <1>1, <2>1, CachedIs, CachedChange DEF ForgetDevice
  <2>3. m \in Signal
    BY SignalTypes DEF RemoveSignal
  <2>4. Lists(m)
    BY <1>1, <2>2, <2>3 DEF Lists, ForgetDevice, AboutDevice, Listing, AddSignal, RemoveSignal
  <2>5. QED
    BY <2>3, <2>4
<1>2. CASE ~(m_devices[d] > 0)
  BY <1>2, CachedChange DEF Keeps, ForgetDevice
<1>3. QED
  BY <1>1, <1>2

\* onActiveConnectionRemoved.
LEMMA ActiveKind ==
  ASSUME TypeOK, ListsInv, m_initFinished, NEW a \in Active, ForgetActive(a),
         UNCHANGED <<sub, view, m_initFinished, m_connections, m_devices>>
  PROVE  Keeps \/ \E m \in Signal : Lists(m)
<1>1. CASE m_activeConns[a] > 0
  <2> DEFINE m == About("activeConnectionRemove", a)
  <2>1. m_activeConns[a] = 1
    BY <1>1 DEF ListsInv, One
  <2>2. a \in Cached /\ Cached' = Cached \ {a}
    BY <1>1, <2>1, CachedIs, CachedChange DEF ForgetActive
  <2>3. m \in Signal
    BY SignalTypes DEF RemoveSignal
  <2>4. Lists(m)
    BY <1>1, <2>2, <2>3 DEF Lists, ForgetActive, About, Listing, AddSignal, RemoveSignal
  <2>5. QED
    BY <2>3, <2>4
<1>2. CASE ~(m_activeConns[a] > 0)
  BY <1>2, CachedChange DEF Keeps, ForgetActive
<1>3. QED
  BY <1>1, <1>2

\* removeConnection(pos).
LEMMA ConnectionKind ==
  ASSUME TypeOK, ListsInv, m_initFinished, NEW c \in Conn, m_connections[c] > 0,
         TakeConnection(c), UNCHANGED <<sub, view, m_initFinished, m_devices, m_activeConns>>
  PROVE  \E m \in Signal : Lists(m)
<1> DEFINE m == About("connectionRemove", c)
<1>1. m_connections[c] = 1
  BY DEF ListsInv, ConnectionsInv, One
<1>2. c \in Cached /\ Cached' = Cached \ {c}
  BY <1>1, CachedIs, CachedChange DEF TakeConnection
<1>3. m \in Signal
  BY SignalTypes DEF RemoveSignal
<1>4. Lists(m)
  BY <1>2, <1>3 DEF Lists, TakeConnection, About, Listing, AddSignal, RemoveSignal
<1>5. QED
  BY <1>3, <1>4

\* A slot that emits one signal of another kind.
LEMMA OtherKind ==
  ASSUME TypeOK, NEW m \in Signal, m.sig \in OtherSignal, Emit(<<m>>),
         UNCHANGED <<sub, view, m_devices, m_connections, m_activeConns>>
  PROVE  Keeps
<1>1. ~Listing(m)
  BY DEF Listing, OtherSignal, AddSignal, RemoveSignal
<1>2. <<m>> \in Seq(Signal) /\ \A i \in DOMAIN <<m>> : ~Listing(<<m>>[i])
  BY <1>1
<1>3. QED
  BY <1>2, CachedChange DEF Keeps

\* The two calls of a disappearing network.
LEMMA DisappearedKind ==
  ASSUME TypeOK, NEW net \in Network, NEW first \in BOOLEAN,
         OnWifiNetworkDisappeared(net, first)
  PROVE  Keeps
<1> DEFINE Fine == {m \in Signal : ~Listing(m)}
           e0 == m_wifiNets[net]
           e1 == IF first THEN RemoveFound(e0) ELSE RemoveSender(e0)
           e2 == IF first THEN IF e1.live < e0.live THEN e1 ELSE RemoveSender(e1)
                          ELSE RemoveFound(e1)
           update == <<AboutDevice("deviceUpdate", net[1])>>
           msgs == IF first
                     THEN Removed(net, e0, e1) \o update \o Removed(net, e1, e2)
                     ELSE Removed(net, e0, e1) \o Removed(net, e1, e2) \o update
<1>1. \A e, f : Removed(net, e, f) \in Seq(Fine)
  <2>1. AboutNetwork("wifiNetworkRemoved", net) \in Fine
    BY SignalTypes DEF AboutNetwork, OtherSignal, Listing, AddSignal, RemoveSignal
  <2>2. QED
    BY <2>1 DEF Removed
<1>2. update \in Seq(Fine)
  <2>1. AboutDevice("deviceUpdate", net[1]) \in Fine
    BY SignalTypes DEF AboutDevice, OtherSignal, Listing, AddSignal, RemoveSignal
  <2>2. QED
    BY <2>1
<1>3. msgs \in Seq(Fine)
  <2>1. Removed(net, e0, e1) \in Seq(Fine) /\ Removed(net, e1, e2) \in Seq(Fine)
    BY <1>1
  <2> HIDE DEF Fine, e0, e1, e2, update
  <2>2. QED
    BY <1>2, <2>1
<1>4. Emit(msgs) /\ UNCHANGED <<sub, view, m_devices, m_connections, m_activeConns>>
  BY DEF OnWifiNetworkDisappeared
<1> HIDE DEF msgs
<1>5. msgs \in Seq(Signal) /\ \A i \in DOMAIN msgs : ~Listing(msgs[i])
  BY <1>3
<1>6. QED
  BY <1>4, <1>5, CachedChange DEF Keeps

\* Every step but those of the main thread, and the filling of the lists.
LEMMA StepKind ==
  ASSUME TypeOK, ListsInv, LibraryEvent \/ InsertTimeout \/ Continue
  PROVE  Keeps \/ \E m \in Signal : Lists(m)
<1> USE DEF Quiet, InNM
<1>1. CASE ServiceDisappears \/ OnServiceAppear \/ InsertTimeout \/ InsertDone
              \/ ServiceDisappeared \/ ClearWifiNetworks
  BY <1>1, CachedChange
     DEF ServiceDisappears, OnServiceAppear, InsertTimeout, InsertDone,
         ServiceDisappeared, ClearWifiNetworks, Keeps, lists
<1>2. ASSUME NEW d \in Device, NEW n \in Name, NEW have \in SUBSET Ssid, OnDeviceAdded(d, n, have)
      PROVE  \E m \in Signal : Lists(m)
  <2> DEFINE m == [sig |-> "deviceAdd", obj |-> d, arg |-> <<n, "name">>]
  <2>1. m_devices[d] = 0
    BY <1>2 DEF OnDeviceAdded, ListsInv, One
  <2>2. m_devices' = [m_devices EXCEPT ![d] = 1] /\ Emit(<<m>>)
    BY <1>2, <2>1 DEF OnDeviceAdded
  <2>3. d \notin Cached /\ Cached' = Cached \cup {d}
    <3>1. d \notin Cached
      BY <2>1, CachedIs
    <3>2. UNCHANGED <<m_connections, m_activeConns>>
      BY <1>2 DEF OnDeviceAdded
    <3>3. QED
      BY <2>2, <3>1, <3>2, CachedChange
  <2>4. m \in Signal
    BY SignalTypes DEF AddSignal
  <2>5. Lists(m)
    BY <1>2, <2>2, <2>3, <2>4 DEF Lists, OnDeviceAdded, AddSignal, Listing
  <2>6. QED
    BY <2>4, <2>5
<1>3. ASSUME NEW d \in Device, OnDeviceRemoved(d) \/ LoseDevice(d)
      PROVE  Keeps \/ \E m \in Signal : Lists(m)
  BY <1>3, DeviceKind DEF OnDeviceRemoved, LoseDevice, ListsInv
<1>4. ASSUME NEW d \in Device, NEW n \in Name, OnDeviceUpdated(d, n)
      PROVE  Keeps
  <2>1. [sig |-> "deviceUpdate", obj |-> d, arg |-> <<n, "name">>] \in Signal
    BY SignalTypes DEF OtherSignal
  <2>2. QED
    BY <1>4, <2>1, OtherKind DEF OnDeviceUpdated, OtherSignal, lists
<1>5. ASSUME NEW net \in Network, OnWifiNetworkAppeared(net)
      PROVE  Keeps
  <2> DEFINE msgs == <<AboutNetwork("wifiNetworkAdded", net), AboutDevice("deviceUpdate", net[1])>>
  <2>1. msgs \in Seq(Signal)
    BY SignalTypes DEF OtherSignal
  <2>2. \A i \in DOMAIN msgs : ~Listing(msgs[i])
    BY DEF AboutNetwork, AboutDevice, Listing, AddSignal, RemoveSignal
  <2>3. QED
    BY <1>5, <2>1, <2>2, CachedChange DEF OnWifiNetworkAppeared, Keeps
<1>6. ASSUME NEW net \in Network, OnWifiNetworkUpdate(net)
      PROVE  Keeps
  <2>1. DeviceDisappear \in Signal /\ AboutNetwork("wifiNetworkPropertyChange", net) \in Signal
    BY SignalTypes DEF OtherSignal
  <2>2. /\ DeviceDisappear.sig \in OtherSignal
        /\ AboutNetwork("wifiNetworkPropertyChange", net).sig \in OtherSignal
    BY DEF DeviceDisappear, About, AboutNetwork, OtherSignal
  <2>3. QED
    BY <1>6, <2>1, <2>2, OtherKind DEF OnWifiNetworkUpdate, lists
<1>7. ASSUME NEW net \in Network, NEW first \in BOOLEAN, OnWifiNetworkDisappeared(net, first)
      PROVE  Keeps
  BY <1>7, DisappearedKind
<1>8. ASSUME NEW c \in Conn, OnConnectionAdded(c)
      PROVE  Keeps \/ \E m \in Signal : Lists(m)
  <2>1. CASE c \in Unnamed
    BY <1>8, <2>1, CachedChange DEF OnConnectionAdded, Keeps
  <2>2. CASE c \notin Unnamed
    <3> DEFINE m == About("connectionAdd", c)
    <3>1. m_connections[c] = 0
      BY <1>8, <2>2 DEF OnConnectionAdded, ListsInv, ConnectionsInv, One
    <3>2. c \notin Cached /\ Cached' = Cached \cup {c}
      BY <1>8, <2>2, <3>1, CachedIs, CachedChange DEF OnConnectionAdded
    <3>3. m \in Signal
      BY SignalTypes DEF AddSignal
    <3>4. Lists(m)
      BY <1>8, <2>2, <3>1, <3>2, <3>3 DEF Lists, OnConnectionAdded, About, Listing, AddSignal
    <3>5. QED
      BY <3>3, <3>4
  <2>3. QED
    BY <2>1, <2>2
<1>9. ASSUME NEW c \in Conn, OnConnectionRemoved(c)
      PROVE  Keeps \/ \E m \in Signal : Lists(m)
  <2>1. CASE m_connections[c] > 0
    BY <1>9, <2>1, ConnectionKind DEF OnConnectionRemoved
  <2>2. CASE ~(m_connections[c] > 0)
    BY <1>9, <2>2, CachedChange DEF OnConnectionRemoved, Keeps
  <2>3. QED
    BY <2>1, <2>2
<1>10. ASSUME NEW c \in Conn, ClearConnection(c)
       PROVE  \E m \in Signal : Lists(m)
  BY <1>10, ConnectionKind DEF ClearConnection, ListsInv
<1>11. ASSUME NEW c \in Conn, OnConnectionUpdated(c)
       PROVE  Keeps
  <2>1. About("connectionUpdate", c) \in Signal
    BY SignalTypes DEF OtherSignal
  <2>2. QED
    BY <1>11, <2>1, OtherKind DEF OnConnectionUpdated, About, OtherSignal, lists
<1>12. ASSUME NEW a \in Active, OnActiveConnectionAdded(a)
       PROVE  \E m \in Signal : Lists(m)
  <2> DEFINE m == About("activeConnectionAdd", a)
  <2>1. m_activeConns[a] = 0
    BY <1>12 DEF OnActiveConnectionAdded, ListsInv, One
  <2>2. a \notin Cached /\ Cached' = Cached \cup {a}
    BY <1>12, <2>1, CachedIs, CachedChange DEF OnActiveConnectionAdded
  <2>3. m \in Signal
    BY SignalTypes DEF AddSignal
  <2>4. Lists(m)
    BY <1>12, <2>1, <2>2, <2>3 DEF Lists, OnActiveConnectionAdded, About, Listing, AddSignal
  <2>5. QED
    BY <2>3, <2>4
<1>13. ASSUME NEW a \in Active, OnActiveConnectionRemoved(a) \/ LoseActive(a)
       PROVE  Keeps \/ \E m \in Signal : Lists(m)
  BY <1>13, ActiveKind DEF OnActiveConnectionRemoved, LoseActive, ListsInv
<1>14. ASSUME NEW a \in Active, OnActiveConnectionChanged(a)
       PROVE  Keeps
  <2>1. About("activeConnectStateChangeReason", a) \in Signal
    BY SignalTypes DEF OtherSignal
  <2>2. QED
    BY <1>14, <2>1, OtherKind DEF OnActiveConnectionChanged, About, OtherSignal, lists
<1>15. ASSUME NEW net \in Network, InsertWifiNetwork(net)
       PROVE  Keeps
  <2>1. AddedByName(net) \in Signal
    BY SignalTypes DEF OtherSignal
  <2>2. QED
    BY <1>15, <2>1, OtherKind DEF InsertWifiNetwork, AddedByName, OtherSignal
<1>16. QED
  BY <1>1, <1>2, <1>3, <1>4, <1>5, <1>6, <1>7, <1>8, <1>9, <1>10, <1>11, <1>12, <1>13, <1>14,
     <1>15 DEF LibraryEvent, Continue

\* The initial states map to the feed's.
LEMMA FeedInitially == Init => Feed!Init
<1> SUFFICES ASSUME Init
             PROVE  Feed!Init
  OBVIOUS
<1>1. Cached = {}
  BY DEF Init, Cached
<1>2. \A x \in Object : {i \in DOMAIN feed : Changes(feed[i], x)} = {}
  BY DEF Init
<1>3. Pending = [x \in Object |-> 0]
  BY <1>2, FS_EmptySet DEF Pending
<1>4. QED
  BY <1>1, <1>3 DEF Init, Feed!Init

\* Every step maps to a step of the feed, or to none.
LEMMA FeedStepwise ==
  ASSUME TypeOK, ListsInv, QueueInv, OrderInv, [Next]_vars
  PROVE  [Feed!Next]_(Feed!feedVars)
<1>1. CASE LibraryEvent \/ InsertTimeout \/ Continue
  BY <1>1, StepKind, ListsImplements, KeepsImplements
<1>2. CASE OnInitNetwork
  <2>1. sub = "none" /\ Pending' = Pending /\ UNCHANGED <<view, sub, missed>>
    BY <1>2 DEF OnInitNetwork, QueueInv, queue, Pending
  <2>2. Cached' \in SUBSET Object
    BY DEF Cached
  <2>3. Feed!Prepare
    BY <2>1, <2>2 DEF Feed!Prepare
  <2>4. QED
    BY <2>3 DEF Feed!Next
<1>3. CASE ReadLists
  <2>1. Cached' = Cached /\ Pending' = Pending /\ missed' = missed
    BY <1>3, CachedChange DEF ReadLists, queue, Pending, lists
  <2>2. Feed!Read
    BY <1>3, <2>1 DEF ReadLists, Feed!Read
  <2>3. QED
    BY <2>2 DEF Feed!Next
<1>4. CASE Connect
  <2>1. Cached' = Cached /\ Pending' = Pending /\ missed' = missed
    BY <1>4, CachedChange DEF Connect, queue, Pending, lists
  <2>2. Feed!Attach
    BY <1>4, <2>1 DEF Connect, Feed!Attach
  <2>3. QED
    BY <2>2 DEF Feed!Next
<1>5. CASE Deliver
  BY <1>5, DeliverImplements
<1>6. CASE UNCHANGED vars
  BY <1>6, KeepsImplements, CachedChange DEF vars, Keeps, lists
<1>7. QED
  BY <1>1, <1>2, <1>3, <1>4, <1>5, <1>6 DEF Next, ManagerNext

\* The manager's thread, the queue and a receiver implement the abstract feed: each
\* change of a list reaches an attached receiver once and in order.
THEOREM FeedImplemented == Spec => ImplementsFeed
<1>1. Init => Feed!Init
  BY FeedInitially
<1>2. TypeOK /\ ListsInv /\ QueueInv /\ OrderInv /\ [Next]_vars => [Feed!Next]_(Feed!feedVars)
  BY FeedStepwise
<1>3. Spec => Feed!Spec
  BY <1>1, <1>2, TypeCorrect, ListsInvariant, QueueInvariant, OrderInvariant, PTL DEF Spec, Feed!Spec
<1>4. QED
  BY <1>3 DEF ImplementsFeed
=============================================================================
