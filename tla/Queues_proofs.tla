--------------------------- MODULE Queues_proofs ----------------------------
(***************************************************************************)
(* The queues between driver and device: the rings, and setting them up.   *)
(* For every ring size and every index width the size divides.             *)
(***************************************************************************)
EXTENDS VirtQueue, QueueSetup, SequenceTheorems, TLAPS

-----------------------------------------------------------------------------
(***************************************************************************)
(* VirtQueue: the rings implement the exchange of buffers of BufferQueue.  *)
(***************************************************************************)

USE QueueAssumption

-----------------------------------------------------------------------------
(* Indices that wrap *)

Dist(from, to) == (to + IdxMod - from) % IdxMod

\* Quotient and remainder.
LEMMA DivMod ==
  ASSUME NEW a \in Nat, NEW p \in Nat \ {0}
  PROVE  a % p \in 0 .. p - 1 /\ a \div p \in Nat /\ a = p * (a \div p) + (a % p)
<1>1. a % p \in 0 .. p - 1
  OBVIOUS
<1>2. a \div p \in Nat
  OBVIOUS
<1>3. a = p * (a \div p) + (a % p)
  OBVIOUS
<1> QED  BY <1>1, <1>2, <1>3, Zenon

\* Below twice the width, a remainder is a number or that number less the width.
LEMMA WrapOnce ==
  ASSUME NEW x \in Nat, x < 2 * IdxMod
  PROVE  x % IdxMod = IF x < IdxMod THEN x ELSE x - IdxMod
<1> DEFINE q == x \div IdxMod
           r == x % IdxMod
<1>1. IdxMod \in Nat \ {0}
  OBVIOUS
<1>2. r \in 0 .. IdxMod - 1 /\ q \in Nat /\ x = IdxMod * q + r
  BY <1>1, DivMod, Zenon
<1> HIDE DEF q, r
<1>3. q = 0 \/ q = 1
  BY <1>1, <1>2
<1>4. r = IF x < IdxMod THEN x ELSE x - IdxMod
  BY <1>2, <1>3
<1> QED  BY <1>4, Zenon DEF r

\* The distance between two free-running indices, without the remainder.
LEMMA DistIs ==
  ASSUME NEW f \in Idx, NEW t \in Idx
  PROVE  Dist(f, t) = IF f =< t THEN t - f ELSE t + IdxMod - f
BY WrapOnce DEF Dist, Idx

\* The next index, wrapping at the width of the field.
LEMMA NextIs ==
  ASSUME NEW t \in Idx
  PROVE  /\ wrapping_add(t) \in Idx
         /\ wrapping_add(t) = IF t + 1 = IdxMod THEN 0 ELSE t + 1
BY WrapOnce DEF Idx, wrapping_add

\* Two indices less than a ring apart use different slots, the wrap included,
\* because the ring size divides the width.
LEMMA SlotsDiffer ==
  ASSUME NEW x \in Idx, NEW y \in Idx, NEW e \in 1 .. Size - 1,
         y = x + e \/ y = x + e - IdxMod
  PROVE  slot(x) # slot(y)
<1> DEFINE qx == x \div Size
           qy == y \div Size
           K == IdxMod \div Size
<1>1. qx \in Nat /\ x = Size * qx + slot(x)
  BY DivMod DEF Idx, slot
<1>2. qy \in Nat /\ y = Size * qy + slot(y)
  BY DivMod DEF Idx, slot
<1>3. K \in Nat /\ IdxMod = Size * K
  BY DivMod
<1>4. slot(x) \in Nat /\ slot(y) \in Nat
  BY DivMod DEF Idx, slot
<1> HIDE DEF qx, qy, K
<1>5. \A z \in Int : e # Size * z
  <2> SUFFICES ASSUME NEW z \in Int, e = Size * z PROVE FALSE
    BY Zenon
  <2>1. CASE z =< 0
    BY <2>1
  <2>2. CASE z >= 1
    BY <2>2
  <2> QED  BY <2>1, <2>2
<1> SUFFICES ASSUME slot(x) = slot(y) PROVE FALSE
  BY Zenon
<1>6. CASE y = x + e
  <2>1. e = Size * (qy - qx)
    BY <1>1, <1>2, <1>4, <1>6
  <2> QED  BY <1>1, <1>2, <1>5, <2>1
<1>7. CASE y = x + e - IdxMod
  <2>1. e = Size * (qy - qx + K)
    BY <1>1, <1>2, <1>3, <1>4, <1>7
  <2>2. qy - qx + K \in Int
    BY <1>1, <1>2, <1>3
  <2> QED  BY <1>5, <2>1, <2>2, Zenon
<1> QED  BY <1>6, <1>7, Zenon

-----------------------------------------------------------------------------
(* The window of a ring between two indices *)

\* The i-th index of a window, and what is left of it to the end.
LEMMA IndexIs ==
  ASSUME NEW f \in Idx, NEW t \in Idx, NEW i \in 1 .. Dist(f, t)
  PROVE  /\ (f + i - 1) % IdxMod \in Idx
         /\ (f + i - 1) % IdxMod = IF f + i - 1 < IdxMod THEN f + i - 1 ELSE f + i - 1 - IdxMod
         /\ \/ t = ((f + i - 1) % IdxMod) + (Dist(f, t) - i + 1)
            \/ t = ((f + i - 1) % IdxMod) + (Dist(f, t) - i + 1) - IdxMod
<1>1. Dist(f, t) = IF f =< t THEN t - f ELSE t + IdxMod - f
  BY DistIs, Zenon
<1>2. f + i - 1 \in Nat /\ f + i - 1 < 2 * IdxMod
  BY <1>1 DEF Idx
<1>3. (f + i - 1) % IdxMod = IF f + i - 1 < IdxMod THEN f + i - 1 ELSE f + i - 1 - IdxMod
  <2> DEFINE y == f + i - 1
  <2>1. y \in Nat /\ y < 2 * IdxMod
    BY <1>2, Zenon
  <2> HIDE DEF y
  <2>2. y % IdxMod = IF y < IdxMod THEN y ELSE y - IdxMod
    BY <2>1, WrapOnce, Zenon
  <2>3. f \in Int /\ i \in Int
    BY <1>1 DEF Idx
  <2> QED  BY <2>2, <2>3 DEF y
<1> DEFINE d == Dist(f, t)
           x == (f + i - 1) % IdxMod
<1>4. d \in Nat /\ i \in Nat
  BY <1>1 DEF Idx
<1> HIDE DEF d, x
<1>5. x \in Idx
  BY <1>2, <1>3, <1>4 DEF Idx, x
<1>6. t = x + (d - i + 1) \/ t = x + (d - i + 1) - IdxMod
  BY <1>1, <1>3, <1>4 DEF Idx, x, d
<1> QED  BY <1>3, <1>5, <1>6, Zenon DEF x, d

\* An index names a slot of the ring.
LEMMA SlotIs == ASSUME NEW i \in Idx PROVE slot(i) \in Desc
BY DivMod DEF Idx, slot, Desc

IsRing(ring, V) == ring \in [Desc -> V]

WindowSeq(V, ring, f, t) ==
  /\ Window(ring, f, t) \in Seq(V) /\ Len(Window(ring, f, t)) = Dist(f, t)
  /\ \A i \in 1 .. Dist(f, t) :
       Window(ring, f, t)[i] = ring[slot((f + i - 1) % IdxMod)]

\* What a ring holds between two indices is a sequence as long as their distance.
LEMMA WindowIs ==
  ASSUME NEW V, NEW ring \in [Desc -> V], NEW f \in Idx, NEW t \in Idx
  PROVE  WindowSeq(V, ring, f, t)
<1> DEFINE d == Dist(f, t)
           w == Window(ring, f, t)
<1>1. d \in 0 .. IdxMod - 1
  BY DistIs DEF Idx
<1>2. w = [i \in 1 .. d |-> ring[slot((f + i - 1) % IdxMod)]]
  BY Zenon DEF Window, Dist
<1>3. \A i \in 1 .. d : ring[slot((f + i - 1) % IdxMod)] \in V
  BY IndexIs, SlotIs, Zenon
<1> HIDE DEF d, w
<1>4. w \in [1 .. d -> V]
  BY <1>2, <1>3, Zenon
<1>5. w \in Seq(V) /\ Len(w) = d
  BY <1>1, <1>4
<1> QED  BY <1>1, <1>2, <1>5, Zenon DEF d, w, WindowSeq

\* Publishing the next index puts the entry at its slot behind the window.
LEMMA WindowGrows ==
  ASSUME NEW V, NEW ring, IsRing(ring, V), NEW f \in Idx, NEW t \in Idx,
         Dist(f, t) < Size
  PROVE  /\ Window(ring, f, wrapping_add(t)) = Append(Window(ring, f, t), ring[slot(t)])
         /\ Dist(f, wrapping_add(t)) = Dist(f, t) + 1
<1> USE DEF IsRing
<1> DEFINE d == Dist(f, t)
           u == wrapping_add(t)
           w == Window(ring, f, t)
           x == Window(ring, f, u)
           v == ring[slot(t)]
<1>1. u \in Idx /\ d \in Nat /\ Dist(f, u) = d + 1
  <2>1. u \in Idx /\ u = IF t + 1 = IdxMod THEN 0 ELSE t + 1
    BY NextIs, Zenon
  <2>2. d = IF f =< t THEN t - f ELSE t + IdxMod - f
    BY DistIs, Zenon
  <2>3. Dist(f, u) = IF f =< u THEN u - f ELSE u + IdxMod - f
    BY <2>1, DistIs, Zenon
  <2>4. d < Size
    BY Zenon
  <2> HIDE DEF d, u
  <2> QED  BY <2>1, <2>2, <2>3, <2>4 DEF Idx
<1>2. (f + (d + 1) - 1) % IdxMod = t
  <2>1. f + d \in Nat /\ f + d < 2 * IdxMod /\ (f + d = t \/ f + d = t + IdxMod)
    BY DistIs DEF Idx
  <2>2. (f + d) % IdxMod = t
    BY <2>1, WrapOnce DEF Idx
  <2>3. f + (d + 1) - 1 = f + d
    BY <1>1 DEF Idx
  <2> QED  BY <2>2, <2>3, Zenon
<1>3. v \in V
  BY SlotIs, Zenon
<1>4. /\ w \in Seq(V) /\ Len(w) = d
      /\ \A i \in 1 .. d : w[i] = ring[slot((f + i - 1) % IdxMod)]
  <2>1. WindowSeq(V, ring, f, t)
    BY WindowIs, Zenon
  <2> QED  BY <2>1, Zenon DEF WindowSeq
<1>5. /\ x \in Seq(V) /\ Len(x) = d + 1
      /\ \A i \in 1 .. d + 1 : x[i] = ring[slot((f + i - 1) % IdxMod)]
  <2> HIDE DEF u, d
  <2>1. WindowSeq(V, ring, f, u)
    BY <1>1, WindowIs, Zenon
  <2>2. Dist(f, u) = d + 1
    BY <1>1, Zenon
  <2> QED  BY <2>1, <2>2, Zenon DEF WindowSeq
<1>6. x[d + 1] = v
  BY <1>1, <1>2, <1>5
<1> HIDE DEF d, u, w, x, v
<1>7. /\ Append(w, v) \in Seq(V) /\ Len(Append(w, v)) = d + 1
      /\ \A i \in 1 .. d : Append(w, v)[i] = w[i]
      /\ Append(w, v)[d + 1] = v
  BY <1>3, <1>4, AppendProperties
<1>8. \A i \in 1 .. d + 1 : x[i] = Append(w, v)[i]
  BY <1>1, <1>4, <1>5, <1>6, <1>7, SMTT(30)
<1>9. x = Append(w, v)
  BY <1>5, <1>7, <1>8, SeqEqual, Zenon
<1> QED  BY <1>1, <1>9, Zenon DEF d, u, w, x, v

\* Consuming the first index takes the entry at its slot off the window.
LEMMA WindowShrinks ==
  ASSUME NEW V, NEW ring, IsRing(ring, V), NEW f \in Idx, NEW t \in Idx, f # t
  PROVE  /\ Window(ring, f, t) # <<>>
         /\ Head(Window(ring, f, t)) = ring[slot(f)]
         /\ Window(ring, wrapping_add(f), t) = Tail(Window(ring, f, t))
         /\ Dist(f, t) > 0 /\ Dist(wrapping_add(f), t) = Dist(f, t) - 1
<1> USE DEF IsRing
<1> DEFINE d == Dist(f, t)
           g == wrapping_add(f)
           w == Window(ring, f, t)
           x == Window(ring, g, t)
<1>1. g \in Idx /\ d \in Nat /\ d > 0 /\ Dist(g, t) = d - 1
  <2>1. g \in Idx /\ g = IF f + 1 = IdxMod THEN 0 ELSE f + 1
    BY NextIs, Zenon
  <2>2. d = IF f =< t THEN t - f ELSE t + IdxMod - f
    BY DistIs, Zenon
  <2>3. Dist(g, t) = IF g =< t THEN t - g ELSE t + IdxMod - g
    BY <2>1, DistIs, Zenon
  <2> HIDE DEF d, g
  <2> QED  BY <2>1, <2>2, <2>3 DEF Idx
<1>2. /\ w \in Seq(V) /\ Len(w) = d
      /\ \A i \in 1 .. d : w[i] = ring[slot((f + i - 1) % IdxMod)]
  <2>1. WindowSeq(V, ring, f, t)
    BY WindowIs, Zenon
  <2> QED  BY <2>1, Zenon DEF WindowSeq
<1>3. /\ x \in Seq(V) /\ Len(x) = d - 1
      /\ \A i \in 1 .. d - 1 : x[i] = ring[slot((g + i - 1) % IdxMod)]
  <2> HIDE DEF g, d
  <2>1. WindowSeq(V, ring, g, t)
    BY <1>1, WindowIs, Zenon
  <2>2. Dist(g, t) = d - 1
    BY <1>1, Zenon
  <2> QED  BY <2>1, <2>2, Zenon DEF WindowSeq
<1>4. \A i \in 1 .. d - 1 : (g + i - 1) % IdxMod = (f + (i + 1) - 1) % IdxMod
  <2> TAKE i \in 1 .. d - 1
  <2>1. i \in 1 .. Dist(g, t) /\ i + 1 \in 1 .. Dist(f, t)
    BY <1>1
  <2>2. (g + i - 1) % IdxMod = IF g + i - 1 < IdxMod THEN g + i - 1 ELSE g + i - 1 - IdxMod
    BY <1>1, <2>1, IndexIs
  <2>3. (f + (i + 1) - 1) % IdxMod
          = IF f + (i + 1) - 1 < IdxMod THEN f + (i + 1) - 1 ELSE f + (i + 1) - 1 - IdxMod
    BY <2>1, IndexIs
  <2>4. g = IF f + 1 = IdxMod THEN 0 ELSE f + 1
    BY NextIs, Zenon
  <2>5. i \in Nat /\ i < IdxMod
    BY <1>1, DistIs DEF Idx
  <2> HIDE DEF g, d
  <2> QED  BY <2>2, <2>3, <2>4, <2>5 DEF Idx
<1>5. (f + 1 - 1) % IdxMod = f
  <2>1. f + 1 - 1 = f
    BY DEF Idx
  <2> QED  BY <2>1, WrapOnce DEF Idx
<1>6. w[1] = ring[slot(f)]
  BY <1>1, <1>2, <1>5
<1> HIDE DEF d, g, w, x
<1>7. w # <<>> /\ Head(w) = w[1]
  BY <1>1, <1>2
<1>8. /\ Tail(w) \in Seq(V) /\ Len(Tail(w)) = d - 1
      /\ \A i \in 1 .. Len(Tail(w)) : Tail(w)[i] = w[i + 1]
  BY <1>2, <1>7, HeadTailProperties
<1>9. \A i \in 1 .. d - 1 : x[i] = Tail(w)[i]
  <2> TAKE i \in 1 .. d - 1
  <2>1. i + 1 \in 1 .. d /\ i \in 1 .. Len(Tail(w))
    BY <1>1, <1>8
  <2>2. Tail(w)[i] = ring[slot((f + (i + 1) - 1) % IdxMod)]
    BY <1>2, <1>8, <2>1, Zenon
  <2>3. x[i] = ring[slot((g + i - 1) % IdxMod)]
    BY <1>3, Zenon
  <2> QED  BY <1>4, <2>2, <2>3, Zenon
<1>10. x = Tail(w)
  BY <1>3, <1>8, <1>9, SeqEqual, Zenon
<1> QED  BY <1>1, <1>6, <1>7, <1>10, Zenon DEF d, g, w, x

\* Writing the slot at the end of a window that does not fill the ring leaves it alone.
LEMMA WindowKept ==
  ASSUME NEW ring, NEW new, NEW f \in Idx, NEW t \in Idx, Dist(f, t) < Size,
         \A s \in Desc : s # slot(t) => new[s] = ring[s]
  PROVE  Window(new, f, t) = Window(ring, f, t)
<1> DEFINE d == Dist(f, t)
<1>2. d \in Nat
  BY DistIs DEF Idx
<1>3. \A i \in 1 .. d : slot((f + i - 1) % IdxMod) # slot(t)
  <2> TAKE i \in 1 .. d
  <2>1. d - i + 1 \in 1 .. Size - 1
    BY <1>2
  <2> QED  BY <2>1, IndexIs, SlotsDiffer
<1>4. \A i \in 1 .. d :
        new[slot((f + i - 1) % IdxMod)] = ring[slot((f + i - 1) % IdxMod)]
  BY <1>3, IndexIs, SlotIs, Zenon
<1> QED  BY <1>4, Zenon DEF Window, Dist

-----------------------------------------------------------------------------
(* The invariant *)

Used == [id : Desc, len : Lens \cup {0}]

\* Every buffer is in exactly one of four places, so neither ring ever holds more than
\* its slots; an entry that is written and not yet published sits behind its window.
RingInv ==
  /\ avail_ring \in [Desc -> Desc] /\ used_ring \in [Desc -> Used]
  /\ avail_idx \in Idx /\ used_idx \in Idx /\ rx_last_used \in Idx /\ last_avail_idx \in Idx
  /\ own \in Seq(Desc) /\ head \in Desc /\ dev_pc \in {"idle", "pop", "work", "push"}
  /\ Len(own) + Dist(last_avail_idx, avail_idx) + Len(held) + Dist(rx_last_used, used_idx)
       = Size
  /\ last_used_idx = used_idx
  /\ rx_avail_idx # avail_idx =>
       /\ own # <<>> /\ rx_avail_idx = wrapping_add(avail_idx)
       /\ avail_ring[slot(avail_idx)] = Head(own)
  /\ dev_pc = "pop" => last_avail_idx # avail_idx
  /\ dev_pc = "push" => len \in Lens /\ used_ring[slot(used_idx)] = [id |-> head, len |-> len]

\* A distance is a natural number.
LEMMA DistNat == ASSUME NEW f \in Idx, NEW t \in Idx PROVE Dist(f, t) \in Nat
BY DistIs DEF Idx

\* The device holds a chain exactly while it works on it or pushes it.
LEMMA HeldLen == Len(held) \in 0 .. 1 /\ (dev_pc \in {"work", "push"} <=> Len(held) = 1)
BY DEF held

\* At the start the invariant holds and the rings stand for an empty queue.
LEMMA RingStart == Init => RingInv /\ BQ!BQInit
<1> SUFFICES ASSUME Init PROVE RingInv /\ BQ!BQInit
  BY Zenon
<1>1. 0 \in Idx /\ 0 \in Desc /\ Dist(0, 0) = 0
  BY DistIs DEF Idx, Desc
<1>2. own \in Seq(Desc) /\ Len(own) = Size /\ held = <<>>
  <2>1. own \in [1 .. Size -> Desc]
    BY DEF Init, Desc
  <2> QED  BY <2>1 DEF Init, held
<1>3. avail_ring \in [Desc -> Desc] /\ used_ring \in [Desc -> Used]
  BY <1>1, Zenon DEF Init, Used
<1>4. offered = <<>> /\ returned = <<>>
  <2>1. WindowSeq(Desc, avail_ring, 0, 0) /\ WindowSeq(Used, used_ring, 0, 0)
    BY <1>1, <1>3, WindowIs, Zenon
  <2> QED  BY <1>1, <2>1, EmptySeq DEF WindowSeq, Init, offered, returned
<1>5. RingInv
  BY <1>1, <1>2, <1>3 DEF Init, RingInv
<1> QED  BY <1>2, <1>4, <1>5, Zenon DEF Init, BQ!BQInit

\* The two writes that are not published yet change neither sequence.
LEMMA PostEntryStep == RingInv /\ PostEntry => RingInv' /\ UNCHANGED BQ!bqVars
<1> SUFFICES ASSUME RingInv, PostEntry PROVE RingInv' /\ UNCHANGED BQ!bqVars
  BY Zenon
<1> USE DEF RingInv
<1>1. /\ own # <<>> /\ rx_avail_idx = avail_idx /\ Head(own) \in Desc
      /\ avail_ring' = [avail_ring EXCEPT ![slot(avail_idx)] = Head(own)]
      /\ rx_avail_idx' = wrapping_add(avail_idx)
      /\ UNCHANGED <<avail_idx, used_ring, used_idx, rx_last_used, own, deviceVars>>
  BY DEF PostEntry
<1>2. UNCHANGED <<last_avail_idx, last_used_idx, dev_pc, head, len>>
  BY <1>1, Zenon DEF deviceVars
<1>3. Dist(last_avail_idx, avail_idx) < Size
  <2>1. Len(own) > 0 /\ Len(own) \in Nat
    BY <1>1
  <2>2. Dist(last_avail_idx, avail_idx) \in Nat /\ Dist(rx_last_used, used_idx) \in Nat
    BY DistNat, Zenon
  <2> QED  BY <2>1, <2>2, HeldLen
<1>4. offered' = offered
  <2>1. \A s \in Desc : s # slot(avail_idx) => avail_ring'[s] = avail_ring[s]
    BY <1>1, Zenon
  <2>2. Window(avail_ring', last_avail_idx, avail_idx)
          = Window(avail_ring, last_avail_idx, avail_idx)
    BY <1>3, <2>1, WindowKept
  <2> QED  BY <1>1, <1>2, <2>2, Zenon DEF offered
<1>5. held' = held /\ returned' = returned
  BY <1>1, <1>2 DEF held, returned, Window, slot
<1>6. avail_ring' \in [Desc -> Desc] /\ avail_ring'[slot(avail_idx)] = Head(own)
  BY <1>1, SlotIs
<1>7. RingInv'
  BY <1>1, <1>2, <1>5, <1>6 DEF Dist
<1> QED  BY <1>1, <1>4, <1>5, <1>7, Zenon DEF BQ!bqVars

\* Writing a used entry, its index not yet published, is a stutter of the queue.
LEMMA PushEntryStep ==
  ASSUME RingInv, NEW l \in Lens, PushEntry(l)
  PROVE  RingInv' /\ UNCHANGED BQ!bqVars
<1> USE DEF RingInv
<1>1. /\ dev_pc = "work" /\ dev_pc' = "push" /\ len' = l
      /\ used_ring' = [used_ring EXCEPT ![slot(used_idx)] = [id |-> head, len |-> l]]
      /\ UNCHANGED <<avail_ring, avail_idx, used_idx, rx_avail_idx, rx_last_used, own,
                     last_avail_idx, last_used_idx, head>>
  BY Zenon  DEF PushEntry, driverVars
<1>2. held' = held /\ offered' = offered
  BY <1>1, SMTT(30) DEF held, offered, Window, slot
<1>3. Dist(rx_last_used, used_idx) < Size
  <2>1. Len(own) \in Nat /\ Len(held) = 1
    BY <1>1, HeldLen
  <2>2. Dist(last_avail_idx, avail_idx) \in Nat /\ Dist(rx_last_used, used_idx) \in Nat
    BY DistNat, Zenon
  <2> QED  BY <2>1, <2>2, SMTT(30)
<1>4. [id |-> head, len |-> l] \in Used /\ slot(used_idx) \in Desc
  BY SlotIs, SMTT(30) DEF Used
<1>5. returned' = returned
  <2>1. \A s \in Desc : s # slot(used_idx) => used_ring'[s] = used_ring[s]
    BY <1>1
  <2>2. Window(used_ring', rx_last_used, used_idx) = Window(used_ring, rx_last_used, used_idx)
    <3>1. rx_last_used \in Idx /\ used_idx \in Idx
      BY Zenon
    <3> HIDE DEF RingInv
    <3> QED  BY <1>3, <2>1, <3>1, WindowKept
  <2> QED  BY <1>1, <2>2, SMTT(30) DEF returned
<1>6. used_ring' \in [Desc -> Used] /\ used_ring'[slot(used_idx)] = [id |-> head, len |-> l]
  BY <1>1, <1>4, Zenon
<1>7. RingInv'
  BY <1>1, <1>2, <1>6, Zenon DEF Dist
<1> QED  BY <1>1, <1>2, <1>5, <1>7, Zenon DEF BQ!bqVars

\* Reading the index before the entry is safe: the window only grows meanwhile.
LEMMA PopIdxStep == RingInv /\ PopIdx => RingInv' /\ UNCHANGED BQ!bqVars
<1> SUFFICES ASSUME RingInv, PopIdx PROVE RingInv' /\ UNCHANGED BQ!bqVars
  BY Zenon
<1>1. /\ dev_pc = "idle" /\ dev_pc' = "pop" /\ last_avail_idx # avail_idx
      /\ UNCHANGED <<avail_ring, avail_idx, used_ring, used_idx, rx_avail_idx, rx_last_used,
                     own, last_avail_idx, last_used_idx, head, len>>
  BY Zenon DEF PopIdx, driverVars
<1>2. held' = held /\ offered' = offered /\ returned' = returned
  BY <1>1 DEF held, offered, returned, Window, slot
<1>3. RingInv'
  BY <1>1, <1>2 DEF RingInv, Dist
<1> QED  BY <1>1, <1>2, <1>3 DEF BQ!bqVars

\* The published entry is behind the window, so it is the next one offered.
LEMMA PostIdxStep == RingInv /\ PostIdx => RingInv' /\ BQ!Offer
<1> SUFFICES ASSUME RingInv, PostIdx PROVE RingInv' /\ BQ!Offer
  BY Zenon
<1> USE DEF RingInv
<1>1. /\ own # <<>> /\ avail_idx' = wrapping_add(avail_idx) /\ own' = Tail(own)
      /\ avail_ring[slot(avail_idx)] = Head(own) /\ rx_avail_idx' = avail_idx'
      /\ UNCHANGED <<avail_ring, used_ring, used_idx, rx_last_used, last_avail_idx,
                     last_used_idx, dev_pc, head, len>>
  BY Zenon  DEF PostIdx, deviceVars
<1>2. held' = held /\ returned' = returned
  BY <1>1 DEF held, returned, Window, slot
<1>3. Len(own) \in Nat /\ own' \in Seq(Desc) /\ Len(own') = Len(own) - 1 /\ Len(own) > 0
  BY <1>1
<1>4. /\ Dist(last_avail_idx, avail_idx) \in Nat /\ Dist(rx_last_used, used_idx) \in Nat
      /\ Dist(last_avail_idx, avail_idx) < Size
  <2>1. Dist(last_avail_idx, avail_idx) \in Nat /\ Dist(rx_last_used, used_idx) \in Nat
    BY DistNat, Zenon
  <2> QED  BY <1>3, <2>1, HeldLen
<1>5. /\ Window(avail_ring, last_avail_idx, wrapping_add(avail_idx))
           = Append(Window(avail_ring, last_avail_idx, avail_idx), avail_ring[slot(avail_idx)])
      /\ Dist(last_avail_idx, wrapping_add(avail_idx)) = Dist(last_avail_idx, avail_idx) + 1
  <2>1. IsRing(avail_ring, Desc) /\ last_avail_idx \in Idx /\ avail_idx \in Idx
    BY Zenon DEF IsRing
  <2> HIDE DEF RingInv
  <2> QED  BY <1>4, <2>1, WindowGrows, Zenon
<1>6. offered' = Append(offered, Head(own))
  BY <1>1, <1>5, Zenon DEF offered
<1>7. avail_idx' \in Idx
  BY <1>1, NextIs, Zenon
<1>8. Dist(last_avail_idx, avail_idx)' = Dist(last_avail_idx, avail_idx) + 1
  BY <1>1, <1>5, Zenon DEF Dist
<1>9. Dist(rx_last_used, used_idx)' = Dist(rx_last_used, used_idx)
  BY <1>1, Zenon DEF Dist
<1>10. dev_pc' = "pop" => last_avail_idx' # avail_idx'
  <2>1. Dist(last_avail_idx', avail_idx') = Dist(last_avail_idx, avail_idx) + 1
    BY <1>1, <1>5, Zenon
  <2>2. last_avail_idx' = avail_idx' => Dist(last_avail_idx', avail_idx') = 0
    BY <1>1, <1>7, DistIs, SMTT(30) DEF Idx
  <2> QED  BY <1>4, <2>1, <2>2
<1>11. Len(own') + Dist(last_avail_idx, avail_idx)' + Len(held') + Dist(rx_last_used, used_idx)'
         = Size
  BY <1>2, <1>3, <1>4, <1>8, <1>9, HeldLen, SMTT(30)
<1>12. RingInv'
  BY <1>1, <1>3, <1>7, <1>10, <1>11
<1> QED  BY <1>1, <1>2, <1>6, <1>12, Zenon DEF BQ!Offer

\* Popping the head of the avail ring takes the first chain of the queue.
LEMMA PopHeadStep == RingInv /\ PopHead => RingInv' /\ BQ!Take
<1> SUFFICES ASSUME RingInv, PopHead PROVE RingInv' /\ BQ!Take
  BY Zenon
<1> USE DEF RingInv
<1>1. /\ dev_pc = "pop" /\ last_avail_idx # avail_idx /\ dev_pc' = "work"
      /\ head' = avail_ring[slot(last_avail_idx)]
      /\ last_avail_idx' = wrapping_add(last_avail_idx)
      /\ UNCHANGED <<avail_ring, avail_idx, used_ring, used_idx, rx_avail_idx, rx_last_used,
                     own, last_used_idx, len>>
  BY Zenon  DEF PopHead, driverVars
<1>2. held = <<>> /\ held' = <<head'>> /\ returned' = returned
  BY <1>1 DEF held, returned, Window, slot
<1>3. /\ offered # <<>> /\ Head(offered) = avail_ring[slot(last_avail_idx)]
      /\ Window(avail_ring, wrapping_add(last_avail_idx), avail_idx) = Tail(offered)
      /\ Dist(wrapping_add(last_avail_idx), avail_idx) = Dist(last_avail_idx, avail_idx) - 1
  <2>1. IsRing(avail_ring, Desc) /\ last_avail_idx \in Idx /\ avail_idx \in Idx
    BY Zenon DEF IsRing
  <2> HIDE DEF RingInv
  <2> QED  BY <1>1, <2>1, WindowShrinks, SMTT(30) DEF offered
<1>4. offered' = Tail(offered)
  BY <1>1, <1>3, SMTT(30) DEF offered
<1>5. Dist(last_avail_idx, avail_idx)' = Dist(last_avail_idx, avail_idx) - 1
  BY <1>1, <1>3 DEF Dist
<1>6. Dist(rx_last_used, used_idx)' = Dist(rx_last_used, used_idx)
  BY <1>1 DEF Dist
<1>7. head' \in Desc /\ last_avail_idx' \in Idx
  BY <1>1, NextIs, SlotIs, Zenon
<1>8. Len(own') + Dist(last_avail_idx, avail_idx)' + Len(held') + Dist(rx_last_used, used_idx)'
        = Size
  <2>1. Len(held) = 0 /\ Len(held') = 1 /\ Len(own) \in Nat /\ own' = own
    BY <1>1, <1>2, SMTT(30)
  <2>2. Dist(last_avail_idx, avail_idx) \in Nat /\ Dist(rx_last_used, used_idx) \in Nat
    BY DistNat, Zenon
  <2> QED  BY <1>5, <1>6, <2>1, <2>2, SMTT(30)
<1>9. RingInv'
  BY <1>1, <1>7, <1>8
<1> QED  BY <1>1, <1>2, <1>3, <1>4, <1>9, ZenonT(30) DEF BQ!Take

\* The element was written at the end of the window before the index is published.
LEMMA PushIdxStep == RingInv /\ PushIdx => RingInv' /\ \E l \in Lens : BQ!Return(l)
<1> SUFFICES ASSUME RingInv, PushIdx PROVE RingInv' /\ \E l \in Lens : BQ!Return(l)
  BY Zenon
<1> USE DEF RingInv
<1>1. /\ dev_pc = "push" /\ dev_pc' = "idle" /\ len \in Lens
      /\ used_ring[slot(used_idx)] = [id |-> head, len |-> len]
      /\ used_idx' = wrapping_add(used_idx) /\ last_used_idx' = used_idx'
      /\ UNCHANGED <<avail_ring, avail_idx, used_ring, rx_avail_idx, rx_last_used, own,
                     last_avail_idx, head, len>>
  BY Zenon DEF PushIdx, driverVars
<1>2. held = <<head>> /\ held' = <<>> /\ offered' = offered
  BY <1>1 DEF held, offered, Window, slot
<1>3. /\ Dist(last_avail_idx, avail_idx) \in Nat /\ Dist(rx_last_used, used_idx) \in Nat
      /\ Dist(rx_last_used, used_idx) < Size
  <2>1. Dist(last_avail_idx, avail_idx) \in Nat /\ Dist(rx_last_used, used_idx) \in Nat
    BY DistNat, Zenon
  <2>2. Len(held) = 1 /\ Len(own) \in Nat
    BY <1>2
  <2> QED  BY <2>1, <2>2
<1>4. /\ Window(used_ring, rx_last_used, wrapping_add(used_idx))
           = Append(Window(used_ring, rx_last_used, used_idx), used_ring[slot(used_idx)])
      /\ Dist(rx_last_used, wrapping_add(used_idx)) = Dist(rx_last_used, used_idx) + 1
  <2>1. IsRing(used_ring, Used) /\ rx_last_used \in Idx /\ used_idx \in Idx
    BY Zenon DEF IsRing
  <2> HIDE DEF RingInv
  <2> QED  BY <1>3, <2>1, WindowGrows, Zenon
<1>5. returned' = Append(returned, [id |-> Head(held), len |-> len])
  BY <1>1, <1>2, <1>4 DEF returned
<1>6. Dist(rx_last_used, used_idx)' = Dist(rx_last_used, used_idx) + 1
  BY <1>1, <1>4, Zenon DEF Dist
<1>7. Dist(last_avail_idx, avail_idx)' = Dist(last_avail_idx, avail_idx)
  BY <1>1, Zenon DEF Dist
<1>8. Len(own') + Dist(last_avail_idx, avail_idx)' + Len(held') + Dist(rx_last_used, used_idx)'
        = Size
  <2>1. Len(held) = 1 /\ Len(held') = 0 /\ Len(own) \in Nat /\ own' = own
    BY <1>1, <1>2, SMTT(30)
  <2> QED  BY <1>3, <1>6, <1>7, <2>1, SMTT(30)
<1>9. used_idx' \in Idx
  BY <1>1, NextIs, SMTT(30)
<1>10. RingInv'
  BY <1>1, <1>8, <1>9, SMTT(30)
<1>11. BQ!Return(len)
  BY <1>1, <1>2, <1>5 DEF BQ!Return
<1> QED  BY <1>1, <1>10, <1>11, Zenon

\* Seeing a used entry gives the driver the first chain that came back.
LEMMA PollStep == RingInv /\ Poll => RingInv' /\ BQ!Reclaim
<1> SUFFICES ASSUME RingInv, Poll PROVE RingInv' /\ BQ!Reclaim
  BY Zenon
<1> USE DEF RingInv
<1>1. /\ own = <<>> /\ rx_avail_idx = avail_idx /\ used_idx # rx_last_used
      /\ own' = <<used_ring[slot(rx_last_used)].id>>
      /\ rx_last_used' = wrapping_add(rx_last_used)
      /\ UNCHANGED <<avail_ring, avail_idx, used_ring, used_idx, rx_avail_idx,
                     last_avail_idx, last_used_idx, dev_pc, head, len>>
  BY Zenon DEF Poll, deviceVars
<1>2. held' = held /\ offered' = offered
  BY <1>1 DEF held, offered, Window, slot
<1>3. /\ returned # <<>> /\ Head(returned) = used_ring[slot(rx_last_used)]
      /\ Window(used_ring, wrapping_add(rx_last_used), used_idx) = Tail(returned)
      /\ Dist(wrapping_add(rx_last_used), used_idx) = Dist(rx_last_used, used_idx) - 1
  <2>1. IsRing(used_ring, Used) /\ rx_last_used \in Idx /\ used_idx \in Idx
    BY Zenon DEF IsRing
  <2> HIDE DEF RingInv
  <2> QED  BY <1>1, <2>1, WindowShrinks, Zenon DEF returned
<1>4. returned' = Tail(returned)
  BY <1>1, <1>3, SMTT(30) DEF returned
<1>5. Dist(rx_last_used, used_idx)' = Dist(rx_last_used, used_idx) - 1
  BY <1>1, <1>3 DEF Dist
<1>6. Dist(last_avail_idx, avail_idx)' = Dist(last_avail_idx, avail_idx)
  BY <1>1, SMTT(30) DEF Dist
<1>7. rx_last_used' \in Idx /\ own' \in Seq(Desc) /\ Len(own') = 1 /\ Len(own) = 0
  <2>1. used_ring[slot(rx_last_used)].id \in Desc
    BY SlotIs DEF Used
  <2> QED  BY <1>1, <2>1, NextIs
<1>8. Len(own') + Dist(last_avail_idx, avail_idx)' + Len(held') + Dist(rx_last_used, used_idx)'
        = Size
  <2>1. Dist(last_avail_idx, avail_idx) \in Nat /\ Dist(rx_last_used, used_idx) \in Nat
    BY DistNat, Zenon
  <2> QED  BY <1>2, <1>5, <1>6, <1>7, <2>1, HeldLen
<1>9. RingInv'
  BY <1>1, <1>7, <1>8, Zenon
<1> QED  BY <1>1, <1>2, <1>3, <1>4, <1>9, Zenon DEF BQ!Reclaim

\* Nothing changes for the queue when nothing changes in the rings.
LEMMA StutterStep == RingInv /\ UNCHANGED vars => RingInv' /\ UNCHANGED BQ!bqVars
<1> SUFFICES ASSUME RingInv, UNCHANGED vars PROVE RingInv' /\ UNCHANGED BQ!bqVars
  BY Zenon
<1>1. held' = held /\ offered' = offered /\ returned' = returned
  BY Zenon DEF vars, driverVars, deviceVars, held, offered, returned, Window, slot
<1> QED
  BY <1>1, Zenon DEF vars, driverVars, deviceVars, RingInv, Dist, BQ!bqVars

\* For every ring size that divides the index range, and any interleaving of the memory
\* accesses of driver and device: the rings exchange buffers first-in first-out, each
\* carries back the length push_used gave it, and no slot is read before it is written
\* or overwritten before it is read, also when the 16-bit indices wrap.
THEOREM RingsImplementQueue == Spec => ImplementsBufferQueue
<1>1. RingInv /\ [Next]_vars => RingInv' /\ [BQ!BQNext]_(BQ!bqVars)
  BY PostEntryStep, PostIdxStep, PollStep, PopIdxStep, PopHeadStep, PushEntryStep, PushIdxStep,
     StutterStep
  DEF Next, Driver, Device, BQ!BQNext
<1> QED  BY <1>1, RingStart, PTL DEF Spec, ImplementsBufferQueue, BQ!BQSpec

HIDE QueueAssumption

-----------------------------------------------------------------------------
(***************************************************************************)
(* QueueSetup: after any sequence of resets and set-ups the device reads   *)
(* the rings the driver writes. Where a driver is in its list of writes    *)
(* says what the registers and the queues hold.                            *)
(***************************************************************************)

RingIdx == 0 .. RingMod - 1

\* The remainder below twice the modulus.
LEMMA RingWrap ==
  ASSUME NEW x \in Nat, x < 2 * RingMod
  PROVE  x % RingMod = IF x < RingMod THEN x ELSE x - RingMod
<1> DEFINE q == x \div RingMod
           r == x % RingMod
<1>1. RingMod \in Nat \ {0}
  BY SetupAssumption
<1>2. r \in 0 .. RingMod - 1
  BY <1>1
<1>3. q \in Nat
  BY <1>1
<1>4. x = RingMod * q + r
  BY <1>1
<1> HIDE DEF q, r
<1>5. q = 0 \/ q = 1
  BY <1>1, <1>2, <1>3, <1>4
<1>6. r = IF x < RingMod THEN x ELSE x - RingMod
  BY <1>1, <1>2, <1>4, <1>5
<1> QED  BY <1>6, Zenon DEF r

\* The distance between two ring indices, without the remainder.
LEMMA SinceIs ==
  ASSUME NEW a \in RingIdx, NEW b \in RingIdx
  PROVE  Since(a, b) = IF b <= a THEN a - b ELSE a + RingMod - b
<1>1. RingMod \in Nat /\ a \in Nat /\ b \in Nat /\ a < RingMod /\ b < RingMod
  BY SetupAssumption DEF RingIdx
<1> DEFINE x == a + RingMod - b
<1>2. x \in Nat /\ x < 2 * RingMod
  BY <1>1
<1>3. Since(a, b) = x % RingMod
  BY Zenon DEF Since
<1>4. x % RingMod = IF x < RingMod THEN x ELSE x - RingMod
  <2> HIDE DEF x
  <2> QED  BY <1>2, RingWrap, Zenon
<1>5. (IF x < RingMod THEN x ELSE x - RingMod) = IF b <= a THEN a - b ELSE a + RingMod - b
  BY <1>1
<1> QED  BY <1>3, <1>4, <1>5, Zenon

\* What a driver posts one more of, and what the device takes all of
LEMMA RingSteps ==
  ASSUME NEW a \in RingIdx, NEW b \in RingIdx
  PROVE  /\ (a + 1) % RingMod \in RingIdx
         /\ Since(a, b) < RingSize => Since((a + 1) % RingMod, b) <= RingSize
         /\ (b + Since(a, b)) % RingMod = a
         /\ Since(a, a) = 0 /\ Since(a, b) \in Nat
<1>1. RingMod \in Nat /\ RingSize \in Nat /\ RingSize < RingMod
      /\ a \in Nat /\ b \in Nat /\ a < RingMod /\ b < RingMod
  BY SetupAssumption DEF RingIdx
<1>2. (a + 1) % RingMod = IF a + 1 < RingMod THEN a + 1 ELSE a + 1 - RingMod
  BY <1>1, RingWrap
<1>3. (a + 1) % RingMod \in RingIdx
  BY <1>1, <1>2 DEF RingIdx
<1>4. Since(a, b) = IF b <= a THEN a - b ELSE a + RingMod - b
  BY SinceIs, Zenon
<1>5. Since(a, a) = 0 /\ Since(a, b) \in Nat
  <2>1. Since(a, a) = IF a <= a THEN a - a ELSE a + RingMod - a
    BY SinceIs, Zenon
  <2> QED  BY <1>1, <1>4, <2>1
<1>6. Since(a, b) < RingSize => Since((a + 1) % RingMod, b) <= RingSize
  <2> DEFINE c == (a + 1) % RingMod
  <2>1. Since(c, b) = IF b <= c THEN c - b ELSE c + RingMod - b
    BY <1>3, SinceIs, Zenon
  <2>2. c = IF a + 1 < RingMod THEN a + 1 ELSE a + 1 - RingMod
    BY <1>2, Zenon
  <2> HIDE DEF c
  <2>3. Since(a, b) < RingSize => Since(c, b) <= RingSize
    BY <1>1, <1>4, <2>1, <2>2
  <2> QED  BY <2>3, Zenon DEF c
<1>7. (b + Since(a, b)) % RingMod = a
  <2>1. b + Since(a, b) = IF b <= a THEN a ELSE a + RingMod
    BY <1>1, <1>4
  <2> DEFINE x == b + Since(a, b)
  <2>2. x \in Nat /\ x < 2 * RingMod
    BY <1>1, <2>1
  <2>3. x % RingMod = IF x < RingMod THEN x ELSE x - RingMod
    <3> HIDE DEF x
    <3> QED  BY <2>2, RingWrap, Zenon
  <2>4. x = IF b <= a THEN a ELSE a + RingMod
    BY <2>1, Zenon
  <2> HIDE DEF x
  <2>5. x % RingMod = a
    BY <1>1, <2>3, <2>4
  <2> QED  BY <2>5, Zenon DEF x
<1> QED  BY <1>3, <1>5, <1>6, <1>7, Zenon

-----------------------------------------------------------------------------

Order == [r \in AddrReg |->
  CASE r = "desc_low" -> 3 [] r = "desc_high" -> 4 [] r = "avail_low" -> 5
    [] r = "avail_high" -> 6 [] r = "used_low" -> 7 [] r = "used_high" -> 8]

\* Writes of the driver's features, and writes to queues made so far
Feats(d) == IF d = 1 THEN 1 ELSE 4
Made == IF at > Feats(driver) + 4 THEN at - (Feats(driver) + 4) ELSE 0

QueueType ==
  [size : Nat, ready : BOOLEAN, addr : [AddrReg -> Nat \X Nat],
   last_avail_idx : Nat, last_used_idx : Nat]

\* Queue q after c writes to queues
QueueAfter(q, c) ==
  /\ queues[q].size = IF c >= 9 * q + 2 THEN RingSize ELSE 0
  /\ \A r \in AddrReg : queues[q].addr[r] = IF c >= 9 * q + Order[r] THEN <<driver, q>> ELSE <<0, 0>>
  /\ queues[q].ready <=> c >= 9 * q + 9
  /\ queues[q].last_avail_idx = used[q] /\ queues[q].last_used_idx = used[q]

\* The features after m writes of them
FeaturesAfter(d, m) ==
  /\ features_sel = IF d # 1 /\ m \in {1, 2} THEN 1 ELSE 0
  /\ driver_features = <<IF m >= Feats(d) THEN d ELSE 0, IF d # 1 /\ m >= 2 THEN d ELSE 0>>

StatusAfter(d, n) ==
  IF n <= 1 THEN 0 ELSE IF n = 2 THEN 1 ELSE IF n <= Feats(d) + 3 THEN 3
  ELSE IF n <= Feats(d) + 4 + 9 * Queues THEN 11 ELSE 15

\* Where the driver is in its list says all there is to know of the registers; what
\* the rings hold begins when it is through.
SetupInv ==
  /\ driver \in Nat /\ at \in Nat /\ at <= Feats(driver) + 9 * Queues + 5
  /\ driver = 0 <=> at = 0
  /\ queues \in [QueueIdx -> QueueType]
  /\ posted \in [QueueIdx -> RingIdx] /\ used \in [QueueIdx -> RingIdx]
  /\ dev_status = StatusAfter(driver, at)
  /\ FeaturesAfter(driver, IF at > 3 THEN at - 3 ELSE 0)
  /\ sel = IF Made = 0 THEN 0 ELSE IF Made > 9 * Queues THEN Queues - 1 ELSE (Made - 1) \div 9
  /\ \A q \in QueueIdx : QueueAfter(q, Made)
  /\ \A q \in QueueIdx : Since(posted[q], used[q]) <= RingSize
  /\ at <= Feats(driver) + 9 * Queues + 4 => \A q \in QueueIdx : posted[q] = 0 /\ used[q] = 0

\* The length of the sequence of writes that set a device up.
LEMMA FeatsIs == \A d \in Nat : Len(Features(d)) = Feats(d) /\ InitLen(d) = Feats(d) + 9 * Queues + 4
BY Zenon DEF Features, Feats, InitLen

\* The constants of the set-up, and the place of each address in it.
LEMMA SetupTypes ==
  /\ Queues \in Nat /\ Queues > 0 /\ RingMod \in Nat /\ RingSize \in Nat /\ RingSize # 0
  /\ 0 \in RingIdx /\ VirtioQueue \in QueueType
  /\ \A r \in AddrReg : Order[r] \in 3 .. 8
<1>1. /\ Queues \in Nat /\ Queues > 0 /\ RingMod \in Nat /\ RingSize \in Nat /\ RingSize # 0
      /\ 0 \in RingIdx
  BY SetupAssumption DEF RingIdx
<1>2. VirtioQueue \in QueueType
  BY Zenon DEF VirtioQueue, QueueType
<1>3. \A r \in AddrReg : Order[r] \in 3 .. 8
  BY DEF Order, AddrReg
<1> QED  BY <1>1, <1>2, <1>3, Zenon

AfterReset ==
  /\ (driver = 0 /\ at = 0) \/ (driver \in Nat \ {0} /\ at = 1)
  /\ queues = [q \in QueueIdx |-> VirtioQueue]
  /\ posted = [q \in QueueIdx |-> 0] /\ used = [q \in QueueIdx |-> 0]
  /\ dev_status = 0 /\ sel = 0 /\ features_sel = 0 /\ driver_features = <<0, 0>>

\* After a reset the device and the driver agree that nothing is set up.
LEMMA ResetIs == AfterReset => SetupInv
<1> SUFFICES ASSUME AfterReset PROVE SetupInv
  BY Zenon
<1> USE DEF AfterReset
<1>1. driver \in Nat /\ at \in Nat /\ at <= 1 /\ (driver = 0 <=> at = 0)
  OBVIOUS
<1>2. Feats(driver) \in {1, 4} /\ Made = 0
  BY <1>1 DEF Made, Feats
<1>3. at <= Feats(driver) + 9 * Queues + 5
  BY <1>1, <1>2, SetupTypes
<1>4. /\ queues \in [QueueIdx -> QueueType]
      /\ posted \in [QueueIdx -> RingIdx] /\ used \in [QueueIdx -> RingIdx]
      /\ \A q \in QueueIdx : posted[q] = 0 /\ used[q] = 0
  BY SetupTypes, Zenon
<1>5. dev_status = StatusAfter(driver, at)
  BY <1>1, <1>2, Zenon DEF StatusAfter
<1>6. FeaturesAfter(driver, IF at > 3 THEN at - 3 ELSE 0)
  BY <1>1, <1>2 DEF FeaturesAfter
<1>7. ASSUME NEW q \in QueueIdx PROVE QueueAfter(q, 0) /\ Since(posted[q], used[q]) <= RingSize
  <2>1. q \in Nat
    BY DEF QueueIdx
  <2>2. queues[q] = VirtioQueue /\ used[q] = 0
    BY <1>4, Zenon
  <2>3. /\ VirtioQueue.size = 0 /\ VirtioQueue.ready = FALSE
        /\ VirtioQueue.last_avail_idx = 0 /\ VirtioQueue.last_used_idx = 0
        /\ \A r \in AddrReg : VirtioQueue.addr[r] = <<0, 0>>
    BY Zenon DEF VirtioQueue
  <2>4. ~(0 >= 9 * q + 2) /\ ~(0 >= 9 * q + 9) /\ \A r \in AddrReg : ~(0 >= 9 * q + Order[r])
    BY <2>1, SetupTypes
  <2>5. QueueAfter(q, 0)
    BY <2>2, <2>3, <2>4, Zenon DEF QueueAfter
  <2>6. Since(0, 0) = 0
    BY SetupTypes, RingSteps, Zenon
  <2> QED  BY <1>4, <2>5, <2>6, SetupTypes
<1> QED  BY <1>1, <1>2, <1>3, <1>4, <1>5, <1>6, <1>7, Zenon DEF SetupInv

\* The invariant holds at the start.
LEMMA SetupStart == SetupInit => SetupInv
<1>1. SetupInit => AfterReset
  BY Zenon DEF SetupInit, AfterReset
<1> QED  BY <1>1, ResetIs, Zenon

\* An operating system that takes the device over starts from a reset.
LEMMA SetupTakeOver == ASSUME SetupInv, TakeOver PROVE SetupInv'
<1>1. /\ driver' = driver + 1 /\ at' = 1
      /\ posted' = [q \in QueueIdx |-> 0] /\ used' = [q \in QueueIdx |-> 0]
      /\ Write(W("status", 0))
  BY Zenon DEF TakeOver
<1>2. WriteSetupStatus("status", 0)
  BY <1>1, Zenon DEF Write, W, WriteFeatures, SelectQueue, WriteQueue, AddrReg
<1>3. /\ queues' = [q \in QueueIdx |-> VirtioQueue] /\ dev_status' = 0
      /\ sel' = 0 /\ features_sel' = 0 /\ driver_features' = <<0, 0>>
  BY <1>2, Zenon DEF WriteSetupStatus
<1>4. driver' \in Nat \ {0}
  BY <1>1 DEF SetupInv
<1>5. ((driver = 0 /\ at = 0) \/ (driver \in Nat \ {0} /\ at = 1))'
  BY <1>1, <1>4, Zenon
<1>6. AfterReset'
  BY <1>1, <1>3, <1>5, Zenon DEF AfterReset
<1> QED  BY <1>6, ResetIs, PTL

\* The registers of the list: what is written where
LEMMA ListIs ==
  ASSUME NEW d \in Nat, NEW k \in Nat, k >= 1, k <= Feats(d) + 9 * Queues + 4
  PROVE  LET w == virtio_net_init(d, k)
             f == Feats(d)
             j == k - (f + 4)
         IN  /\ k = 1 => w = W("status", 1)
             /\ k = 2 => w = W("status", 3)
             /\ k \in 3 .. f + 2 => w = Features(d)[k - 2]
             /\ k = f + 3 => w = W("status", 11)
             /\ k \in f + 4 .. f + 9 * Queues + 3 => w = net_setup_queue(d, j \div 9)[(j % 9) + 1]
             /\ k = f + 9 * Queues + 4 => w = W("status", 15)
<1> DEFINE f == Feats(d)
           j == k - (f + 4)
           w == virtio_net_init(d, k)
           L == f + 9 * Queues + 4
           F == Features(d)[k - 2]
           N == net_setup_queue(d, j \div 9)[(j % 9) + 1]
<1>1. f \in {1, 4} /\ Queues \in Nat /\ Queues > 0 /\ L \in Nat
  BY SetupTypes DEF Feats
<1>2. w = CASE k = 1 -> W("status", 1)
            [] k = 2 -> W("status", 3)
            [] k \in 3 .. f + 2 -> F
            [] k = f + 3 -> W("status", 11)
            [] k \in f + 4 .. L - 1 -> N
            [] k = L -> W("status", 15)
  BY FeatsIs, Zenon DEF virtio_net_init
<1> HIDE DEF w, N, F, f, j
<1>3. k = 1 => w = W("status", 1)
  BY <1>1, <1>2
<1>4. k = 2 => w = W("status", 3)
  BY <1>1, <1>2
<1>5. k \in 3 .. f + 2 => w = F
  BY <1>1, <1>2
<1>6. k = f + 3 => w = W("status", 11)
  BY <1>1, <1>2
<1>7. k \in f + 4 .. L - 1 => w = N
  BY <1>1, <1>2
<1>8. k = L => w = W("status", 15)
  BY <1>1, <1>2
<1>9. L - 1 = f + 9 * Queues + 3
  BY <1>1
<1> QED  BY <1>3, <1>4, <1>5, <1>6, <1>7, <1>8, <1>9, Zenon DEF w, N, F, f, j

\* Each register does its own part.
LEMMA WriteStatusIs ==
  ASSUME NEW v \in Nat \ {0}, Write(W("status", v))
  PROVE  dev_status' = v /\ UNCHANGED <<sel, features_sel, driver_features, queues>>
<1>1. W("status", v).reg = "status" /\ W("status", v).val = v
  BY Zenon DEF W
<1>2. WriteSetupStatus("status", v)
  BY <1>1, Zenon DEF Write, WriteFeatures, SelectQueue, WriteQueue, AddrReg
<1> QED  BY <1>2, Zenon DEF WriteSetupStatus

\* Writing DriverFeaturesSel changes nothing else.
LEMMA WriteSelIs ==
  ASSUME NEW v, Write(W("driver_features_sel", v))
  PROVE  features_sel' = v /\ UNCHANGED <<dev_status, sel, driver_features, queues>>
<1>1. W("driver_features_sel", v).reg = "driver_features_sel" /\ W("driver_features_sel", v).val = v
  BY Zenon DEF W
<1>2. WriteFeatures("driver_features_sel", v)
  BY <1>1, Zenon DEF Write, WriteSetupStatus, SelectQueue, WriteQueue, AddrReg
<1> QED  BY <1>2, Zenon DEF WriteFeatures

\* Writing DriverFeatures changes the word selected.
LEMMA WriteFeaturesIs ==
  ASSUME NEW v, Write(W("driver_features", v))
  PROVE  /\ driver_features' = IF features_sel = 0 THEN <<v, driver_features[2]>>
                              ELSE <<driver_features[1], v>>
         /\ UNCHANGED <<dev_status, sel, features_sel, queues>>
<1>1. W("driver_features", v).reg = "driver_features" /\ W("driver_features", v).val = v
  BY Zenon DEF W
<1>2. WriteFeatures("driver_features", v)
  BY <1>1, Zenon DEF Write, WriteSetupStatus, SelectQueue, WriteQueue, AddrReg
<1> QED  BY <1>2, Zenon DEF WriteFeatures

\* Writing QueueSel changes nothing else.
LEMMA WriteQueueSelIs ==
  ASSUME NEW v \in QueueIdx, Write(W("queue_sel", v))
  PROVE  sel' = v /\ UNCHANGED <<dev_status, features_sel, driver_features, queues>>
<1>1. W("queue_sel", v).reg = "queue_sel" /\ W("queue_sel", v).val = v
  BY Zenon DEF W
<1>2. SelectQueue("queue_sel", v)
  BY <1>1, Zenon DEF Write, WriteSetupStatus, WriteFeatures, WriteQueue, AddrReg
<1>3. v < Queues
  BY SetupTypes DEF QueueIdx
<1> QED  BY <1>2, <1>3, Zenon DEF SelectQueue

QueueReg == AddrReg \cup {"queue_num", "queue_ready"}

WithAddr(z, r, v) == [z EXCEPT !.addr[r] = v]

\* Writing a register of a queue changes that field of the queue selected.
LEMMA WriteQueueIs ==
  ASSUME NEW r \in QueueReg, NEW v, Write(W(r, v))
  PROVE  /\ UNCHANGED <<dev_status, sel, features_sel, driver_features>>
         /\ r = "queue_num" => queues' = [queues EXCEPT ![sel] = [queues[sel] EXCEPT !.size = v]]
         /\ r = "queue_ready" =>
              queues' = [queues EXCEPT ![sel] =
                [queues[sel] EXCEPT !.ready = v,
                   !.last_avail_idx = IF v /\ ~queues[sel].ready THEN 0 ELSE @]]
         /\ r \in AddrReg => queues' = [queues EXCEPT ![sel] = WithAddr(queues[sel], r, v)]
<1>1. W(r, v).reg = r /\ W(r, v).val = v
  BY Zenon DEF W
<1>2. WriteQueue(r, v)
  <2>1. r \notin {"status", "driver_features_sel", "driver_features", "queue_sel"}
    BY Zenon DEF QueueReg, AddrReg
  <2> QED  BY <1>1, <2>1, Zenon DEF Write, WriteSetupStatus, SelectQueue, WriteFeatures
<1>3. "queue_num" \notin AddrReg /\ "queue_ready" \notin AddrReg /\ "queue_num" # "queue_ready"
  BY Zenon DEF AddrReg
<1> QED  BY <1>2, <1>3, Zenon DEF WriteQueue, SetQueue, WithAddr

-----------------------------------------------------------------------------
\* Steps that write no queue
LEMMA SetupAside ==
  ASSUME SetupInv, Step,
         UNCHANGED queues,
         at + 1 <= Feats(driver) + 4 \/ at = Feats(driver) + 9 * Queues + 4
           \/ (at - (Feats(driver) + 4)) % 9 = 0,
         dev_status' = StatusAfter(driver, at + 1),
         FeaturesAfter(driver, IF at > 3 THEN at - 3 ELSE 0)',
         sel' = IF at + 1 <= Feats(driver) + 4 THEN 0
                ELSE IF at = Feats(driver) + 9 * Queues + 4 THEN Queues - 1
                ELSE (at - (Feats(driver) + 4)) \div 9
  PROVE  SetupInv'
<1> DEFINE f == Feats(driver)
<1>1. /\ driver \in Nat /\ at \in Nat /\ driver # 0 /\ at # 0
      /\ driver' = driver /\ at' = at + 1 /\ posted' = posted /\ used' = used
      /\ f \in Nat /\ at <= f + 9 * Queues + 4
  <2>1. driver \in Nat /\ at \in Nat /\ (driver = 0 <=> at = 0)
    BY Zenon DEF SetupInv
  <2>2. driver > 0 /\ ~(at > InitLen(driver)) /\ at' = at + 1 /\ driver' = driver
        /\ posted' = posted /\ used' = used
    BY Zenon DEF Step, Running
  <2>3. InitLen(driver) = f + 9 * Queues + 4 /\ f \in Nat
    BY <2>1, FeatsIs, Zenon DEF Feats
  <2> QED  BY <2>1, <2>2, <2>3, SetupTypes
<1>2. Queues \in Nat /\ Queues > 0
  BY SetupTypes, Zenon
<1> HIDE DEF f
<1>3. /\ Made = IF at > f + 4 THEN at - (f + 4) ELSE 0
      /\ Made' = IF at + 1 > f + 4 THEN at + 1 - (f + 4) ELSE 0
  BY <1>1 DEF Made, f
<1>4. Made \in Nat /\ Made' \in Nat
  BY <1>1, <1>3
<1>5. ASSUME NEW q \in QueueIdx, NEW t \in 2 .. 9
      PROVE  Made' >= 9 * q + t <=> Made >= 9 * q + t
  <2>1. q \in Nat /\ q <= Queues - 1
    BY <1>2 DEF QueueIdx
  <2>2. CASE at + 1 <= f + 4
    BY <1>1, <1>3, <2>2
  <2>3. CASE at = f + 9 * Queues + 4
    BY <1>1, <1>2, <1>3, <2>1, <2>3
  <2>4. CASE at + 1 > f + 4 /\ (at - (f + 4)) % 9 = 0
    <3>1. Made = at - (f + 4) /\ Made' = Made + 1
      BY <1>1, <1>3, <2>4
    <3>2. Made % 9 = 0
      BY <2>4, <3>1, Zenon
    <3> QED  BY <1>4, <2>1, <3>1, <3>2
  <2> QED  BY <1>1, <2>2, <2>3, <2>4 DEF f
<1>6. ASSUME NEW q \in QueueIdx PROVE QueueAfter(q, Made)'
  <2>1. QueueAfter(q, Made)
    BY Zenon DEF SetupInv
  <2>2. \A r \in AddrReg : Made' >= 9 * q + Order[r] <=> Made >= 9 * q + Order[r]
    <3>1. \A r \in AddrReg : Order[r] \in 2 .. 9
      BY SetupTypes
    <3> QED  BY <1>5, <3>1, Zenon
  <2>3. (Made' >= 9 * q + 2 <=> Made >= 9 * q + 2) /\ (Made' >= 9 * q + 9 <=> Made >= 9 * q + 9)
    BY <1>5
  <2> QED  BY <1>1, <2>1, <2>2, <2>3, Zenon DEF QueueAfter
<1>7. sel' = IF Made' = 0 THEN 0 ELSE IF Made' > 9 * Queues THEN Queues - 1 ELSE (Made' - 1) \div 9
  <2>1. CASE at + 1 <= f + 4
    BY <1>1, <1>3, <2>1 DEF f
  <2>2. CASE at = f + 9 * Queues + 4
    BY <1>1, <1>2, <1>3, <2>2 DEF f
  <2>3. CASE at + 1 > f + 4 /\ at # f + 9 * Queues + 4
    <3>1. Made' = at + 1 - (f + 4) /\ Made' # 0 /\ ~(Made' > 9 * Queues) /\ Made' - 1 = at - (f + 4)
      BY <1>1, <1>2, <1>3, <2>3
    <3>2. sel' = (at - (f + 4)) \div 9
      BY <1>1, <2>3 DEF f
    <3> QED  BY <3>1, <3>2, Zenon
  <2> QED  BY <1>1, <2>1, <2>2, <2>3
<1>8. /\ driver' \in Nat /\ at' \in Nat /\ at' <= Feats(driver') + 9 * Queues + 5
      /\ driver' = 0 <=> at' = 0
  BY <1>1, <1>2 DEF f
<1>9. /\ queues' \in [QueueIdx -> QueueType]
      /\ posted' \in [QueueIdx -> RingIdx] /\ used' \in [QueueIdx -> RingIdx]
      /\ \A q \in QueueIdx : Since(posted'[q], used'[q]) <= RingSize
      /\ \A q \in QueueIdx : posted'[q] = 0 /\ used'[q] = 0
  BY <1>1, Zenon DEF SetupInv, f
<1>10. dev_status' = StatusAfter(driver', at')
  BY <1>1
<1> QED  BY <1>6, <1>7, <1>8, <1>9, <1>10, Zenon DEF SetupInv

\* The j-th write to queues is the i-th to queue p; the queue it leaves there
LEMMA SetupQueueWritten ==
  ASSUME SetupInv, Step, NEW p \in QueueIdx, NEW i \in 1 .. 8, NEW new \in QueueType,
         at = Feats(driver) + 4 + 9 * p + i,
         queues' = [queues EXCEPT ![p] = new],
         UNCHANGED <<dev_status, sel, features_sel, driver_features>>,
         new.size = RingSize,
         \A r \in AddrReg : new.addr[r] = IF i + 1 >= Order[r] THEN <<driver, p>> ELSE <<0, 0>>,
         new.ready <=> i = 8,
         new.last_avail_idx = 0, new.last_used_idx = 0
  PROVE  SetupInv'
<1> DEFINE f == Feats(driver)
<1>1. /\ driver \in Nat /\ at \in Nat /\ driver # 0 /\ at # 0
      /\ driver' = driver /\ at' = at + 1 /\ posted' = posted /\ used' = used
      /\ f \in Nat /\ f >= 1
  <2>1. driver \in Nat /\ at \in Nat /\ (driver = 0 <=> at = 0)
    BY Zenon DEF SetupInv
  <2>2. driver > 0 /\ at' = at + 1 /\ driver' = driver /\ posted' = posted /\ used' = used
    BY Zenon DEF Step
  <2>3. f \in Nat /\ f >= 1
    BY DEF Feats
  <2> QED  BY <2>1, <2>2, <2>3
<1>2. Queues \in Nat /\ Queues > 0 /\ p \in Nat /\ p <= Queues - 1
  BY SetupTypes DEF QueueIdx
<1>3. at = f + 4 + 9 * p + i
  BY Zenon
<1>4. Feats(driver') = f
  BY <1>1, Zenon
<1> HIDE DEF f
<1>5. Made = 9 * p + i /\ Made' = 9 * p + i + 1
  <2>1. /\ Made = IF at > f + 4 THEN at - (f + 4) ELSE 0
        /\ Made' = IF at + 1 > f + 4 THEN at + 1 - (f + 4) ELSE 0
    BY <1>1, <1>4 DEF Made, f
  <2> QED  BY <1>1, <1>2, <1>3, <2>1
<1>6. ASSUME NEW q \in QueueIdx, q # p, NEW t \in 2 .. 9
      PROVE  Made' >= 9 * q + t <=> Made >= 9 * q + t
  <2>1. q \in Nat
    BY DEF QueueIdx
  <2> QED  BY <1>2, <1>5, <1>6, <2>1
<1>7. /\ queues \in [QueueIdx -> QueueType] /\ \A q \in QueueIdx : QueueAfter(q, Made)
      /\ posted \in [QueueIdx -> RingIdx] /\ used \in [QueueIdx -> RingIdx]
      /\ \A q \in QueueIdx : Since(posted[q], used[q]) <= RingSize
  BY Zenon DEF SetupInv
<1>8. \A q \in QueueIdx : posted[q] = 0 /\ used[q] = 0
  <2>1. at <= f + 9 * Queues + 4
    BY <1>1, <1>2, <1>3
  <2> QED  BY <2>1, Zenon DEF SetupInv, f
<1>9. \A r \in AddrReg : Order[r] \in 2 .. 8 /\ Order[r] \in 2 .. 9
  BY SetupTypes
<1>10. ASSUME NEW q \in QueueIdx, q # p PROVE QueueAfter(q, Made)'
  <2>1. queues'[q] = queues[q]
    BY <1>7, <1>10, Zenon
  <2>2. QueueAfter(q, Made)
    BY <1>7, Zenon
  <2>3. \A r \in AddrReg : Made' >= 9 * q + Order[r] <=> Made >= 9 * q + Order[r]
    BY <1>6, <1>9, <1>10, Zenon
  <2>4. (Made' >= 9 * q + 2 <=> Made >= 9 * q + 2) /\ (Made' >= 9 * q + 9 <=> Made >= 9 * q + 9)
    BY <1>6, <1>10
  <2> QED  BY <1>1, <2>1, <2>2, <2>3, <2>4 DEF QueueAfter
<1>11. QueueAfter(p, Made)'
  <2>1. queues'[p] = new
    BY <1>7, Zenon
  <2>2. /\ Made' >= 9 * p + 2 /\ (Made' >= 9 * p + 9 <=> i = 8)
    BY <1>2, <1>5
  <2>3. \A r \in AddrReg : Made' >= 9 * p + Order[r] <=> i + 1 >= Order[r]
    BY <1>2, <1>5, <1>9
  <2>4. used'[p] = 0
    BY <1>1, <1>8, Zenon
  <2> QED  BY <1>1, <2>1, <2>2, <2>3, <2>4 DEF QueueAfter
<1>12. queues' \in [QueueIdx -> QueueType]
  BY <1>7, Zenon
<1>13. sel' = IF Made' = 0 THEN 0 ELSE IF Made' > 9 * Queues THEN Queues - 1 ELSE (Made' - 1) \div 9
  <2>1. sel = IF Made = 0 THEN 0 ELSE IF Made > 9 * Queues THEN Queues - 1 ELSE (Made - 1) \div 9
    BY Zenon DEF SetupInv
  <2>2. /\ Made # 0 /\ ~(Made > 9 * Queues) /\ Made' # 0 /\ ~(Made' > 9 * Queues)
        /\ (Made - 1) \div 9 = p /\ (Made' - 1) \div 9 = p
    BY <1>2, <1>5
  <2> QED  BY <2>1, <2>2, Zenon
<1>14. dev_status' = StatusAfter(driver', at')
  <2>1. dev_status = StatusAfter(driver, at)
    BY Zenon DEF SetupInv
  <2>2. StatusAfter(driver, at) = 11 /\ StatusAfter(driver, at + 1) = 11
    BY <1>1, <1>2, <1>3 DEF StatusAfter, f
  <2> QED  BY <1>1, <2>1, <2>2, Zenon
<1>15. FeaturesAfter(driver, IF at > 3 THEN at - 3 ELSE 0)'
  <2>1. FeaturesAfter(driver, IF at > 3 THEN at - 3 ELSE 0)
    BY Zenon DEF SetupInv
  <2>2. at > 3 /\ at + 1 > 3 /\ at - 3 >= f /\ at + 1 - 3 >= f /\ at - 3 \notin {1, 2} /\ at + 1 - 3 \notin {1, 2}
        /\ at - 3 >= 2 /\ at + 1 - 3 >= 2
    BY <1>1, <1>2, <1>3
  <2>3. /\ features_sel = 0 /\ driver_features = <<driver, IF driver # 1 THEN driver ELSE 0>>
    BY <2>1, <2>2, Zenon DEF FeaturesAfter, f
  <2>4. features_sel' = 0 /\ driver_features' = <<driver, IF driver # 1 THEN driver ELSE 0>>
    BY <2>3, Zenon
  <2> QED  BY <1>1, <1>4, <2>2, <2>4 DEF FeaturesAfter
<1>16. /\ driver' \in Nat /\ at' \in Nat /\ at' <= Feats(driver') + 9 * Queues + 5
       /\ driver' = 0 <=> at' = 0
  BY <1>1, <1>2, <1>3, <1>4
<1> QED  BY <1>1, <1>7, <1>8, <1>10, <1>11, <1>12, <1>13, <1>14, <1>15, <1>16, Zenon DEF SetupInv

\* The writes of features, one after the other
LEMMA FeaturesStep ==
  ASSUME SetupInv, Step, at \in 3 .. Feats(driver) + 2
  PROVE  /\ FeaturesAfter(driver, IF at > 3 THEN at - 3 ELSE 0)'
         /\ UNCHANGED <<dev_status, sel, queues>>
<1> DEFINE d == driver
           m == at - 3
           w == Features(d)[at - 2]
<1>1. d \in Nat /\ at \in Nat /\ Feats(d) \in {1, 4} /\ m \in 0 .. 3 /\ Queues \in Nat
  BY SetupTypes DEF SetupInv, Feats
<1>2. Write(w) /\ driver' = d /\ at' = at + 1
  <2>1. Write(virtio_net_init(driver, at)) /\ driver' = driver /\ at' = at + 1
    BY Zenon DEF Step
  <2>2. at >= 1 /\ at <= Feats(driver) + 9 * Queues + 4
    BY <1>1
  <2>3. virtio_net_init(driver, at) = w
    BY <1>1, <2>2, ListIs, Zenon
  <2> QED  BY <2>1, <2>3, Zenon
<1>3. FeaturesAfter(d, m)
  <2>1. FeaturesAfter(driver, IF at > 3 THEN at - 3 ELSE 0)
    BY Zenon DEF SetupInv
  <2>2. (IF at > 3 THEN at - 3 ELSE 0) = m
    BY <1>1
  <2> QED  BY <2>1, <2>2, Zenon
<1>4. (IF at' > 3 THEN at' - 3 ELSE 0) = m + 1
  BY <1>1, <1>2
<1> SUFFICES /\ features_sel' = IF d # 1 /\ m + 1 \in {1, 2} THEN 1 ELSE 0
             /\ driver_features' = <<IF m + 1 >= Feats(d) THEN d ELSE 0, IF d # 1 /\ m + 1 >= 2 THEN d ELSE 0>>
             /\ UNCHANGED <<dev_status, sel, queues>>
  BY <1>2, <1>4, Zenon DEF FeaturesAfter
<1>5. /\ features_sel = IF d # 1 /\ m \in {1, 2} THEN 1 ELSE 0
      /\ driver_features = <<IF m >= Feats(d) THEN d ELSE 0, IF d # 1 /\ m >= 2 THEN d ELSE 0>>
  BY <1>3, Zenon DEF FeaturesAfter
<1>6. CASE d = 1
  <2>1. m = 0 /\ Feats(d) = 1
    BY <1>1, <1>6 DEF Feats
  <2>2. w = W("driver_features", d)
    BY <1>1, <1>6, <2>1 DEF Features
  <2>3. features_sel = 0 /\ driver_features = <<0, 0>>
    BY <1>5, <1>6, <2>1
  <2>4. driver_features' = <<d, 0>> /\ UNCHANGED <<dev_status, sel, features_sel, queues>>
    BY <1>2, <2>2, <2>3, WriteFeaturesIs, Zenon
  <2> QED  BY <1>6, <2>1, <2>3, <2>4
<1>7. CASE d # 1
  <2>1. Feats(d) = 4
    BY <1>7, Zenon DEF Feats
  <2>2. CASE m = 0
    <3>1. w = W("driver_features_sel", 1)
      BY <1>1, <1>7, <2>2 DEF Features
    <3>2. features_sel' = 1 /\ UNCHANGED <<dev_status, sel, driver_features, queues>>
      BY <1>2, <3>1, WriteSelIs, Zenon
    <3> QED  BY <1>5, <1>7, <2>1, <2>2, <3>2
  <2>3. CASE m = 1
    <3>1. w = W("driver_features", d)
      BY <1>1, <1>7, <2>3 DEF Features
    <3>2. features_sel = 1 /\ driver_features = <<0, 0>>
      BY <1>5, <1>7, <2>1, <2>3
    <3>3. driver_features' = <<0, d>> /\ UNCHANGED <<dev_status, sel, features_sel, queues>>
      BY <1>2, <3>1, <3>2, WriteFeaturesIs
    <3> QED  BY <1>7, <2>1, <2>3, <3>2, <3>3
  <2>4. CASE m = 2
    <3>1. w = W("driver_features_sel", 0)
      BY <1>1, <1>7, <2>4 DEF Features
    <3>2. features_sel' = 0 /\ UNCHANGED <<dev_status, sel, driver_features, queues>>
      BY <1>2, <3>1, WriteSelIs, Zenon
    <3> QED  BY <1>5, <1>7, <2>1, <2>4, <3>2, SMTT(30)
  <2>5. CASE m = 3
    <3>1. w = W("driver_features", d)
      BY <1>1, <1>7, <2>5 DEF Features
    <3>2. features_sel = 0 /\ driver_features = <<0, d>>
      BY <1>5, <1>7, <2>1, <2>5
    <3>3. driver_features' = <<d, d>> /\ UNCHANGED <<dev_status, sel, features_sel, queues>>
      BY <1>2, <3>1, <3>2, WriteFeaturesIs, Zenon
    <3> QED  BY <1>7, <2>1, <2>5, <3>2, <3>3
  <2> QED  BY <1>1, <2>2, <2>3, <2>4, <2>5
<1> QED  BY <1>6, <1>7, Zenon

\* The writes to a queue after it is selected
LEMMA QueueStep ==
  ASSUME SetupInv, Step, NEW p \in QueueIdx, NEW i \in 1 .. 8,
         at = Feats(driver) + 4 + 9 * p + i
  PROVE  SetupInv'
<1> DEFINE d == driver
           z == queues[p]
           w == net_setup_queue(d, p)[i + 1]
<1>1. d \in Nat /\ at \in Nat /\ Feats(d) \in {1, 4} /\ p \in Nat /\ p <= Queues - 1 /\ Queues \in Nat
  BY SetupTypes DEF SetupInv, Feats, QueueIdx
<1>2. at \in Feats(d) + 4 .. Feats(d) + 9 * Queues + 3 /\ at >= 1 /\ at <= Feats(d) + 9 * Queues + 4
  BY <1>1
<1>3. Write(w)
  <2>1. Write(virtio_net_init(driver, at))
    BY Zenon DEF Step
  <2>2. (at - (Feats(d) + 4)) \div 9 = p /\ ((at - (Feats(d) + 4)) % 9) + 1 = i + 1
    <3>1. at - (Feats(d) + 4) = 9 * p + i
      BY <1>1
    <3>2. (9 * p + i) \div 9 = p /\ (9 * p + i) % 9 = i
      BY <1>1
    <3> QED  BY <3>1, <3>2, Zenon
  <2>3. virtio_net_init(d, at) = net_setup_queue(d, (at - (Feats(d) + 4)) \div 9)[((at - (Feats(d) + 4)) % 9) + 1]
    BY <1>1, <1>2, ListIs, Zenon
  <2> QED  BY <2>1, <2>2, <2>3, Zenon
<1>4. Made = 9 * p + i
  BY <1>1 DEF Made
<1>5. sel = p
  <2>1. sel = IF Made = 0 THEN 0 ELSE IF Made > 9 * Queues THEN Queues - 1 ELSE (Made - 1) \div 9
    BY Zenon DEF SetupInv
  <2>2. Made # 0 /\ ~(Made > 9 * Queues) /\ (Made - 1) \div 9 = p
    BY <1>1, <1>4
  <2> QED  BY <2>1, <2>2, Zenon
<1>6. used[p] = 0
  BY <1>1, <1>2, Zenon DEF SetupInv
<1>7. /\ z \in QueueType
      /\ z.size = IF i >= 2 THEN RingSize ELSE 0
      /\ \A r \in AddrReg : z.addr[r] = IF i >= Order[r] THEN <<d, p>> ELSE <<0, 0>>
      /\ ~z.ready /\ z.last_avail_idx = 0 /\ z.last_used_idx = 0
  <2>1. z \in QueueType /\ QueueAfter(p, Made)
    BY Zenon DEF SetupInv
  <2>2. /\ (Made >= 9 * p + 2 <=> i >= 2) /\ ~(Made >= 9 * p + 9)
        /\ \A r \in AddrReg : Made >= 9 * p + Order[r] <=> i >= Order[r]
    BY <1>1, <1>4, SetupTypes
  <2> QED  BY <1>6, <2>1, <2>2, Zenon DEF QueueAfter
<1>8. /\ z.addr \in [AddrReg -> Nat \X Nat] /\ <<d, p>> \in Nat \X Nat
      /\ z.size \in Nat /\ z.ready \in BOOLEAN
  BY <1>1, <1>7, Zenon DEF QueueType
<1> HIDE DEF z
<1>9. CASE i = 1
  <2>1. w = W("queue_num", RingSize)
    BY <1>9 DEF net_setup_queue
  <2> DEFINE new == [z EXCEPT !.size = RingSize]
  <2>2. queues' = [queues EXCEPT ![p] = new] /\ UNCHANGED <<dev_status, sel, features_sel, driver_features>>
    BY <1>3, <1>5, <2>1, WriteQueueIs, Zenon DEF QueueReg, z
  <2>3. new \in QueueType
    BY <1>7, SetupTypes, Zenon DEF QueueType
  <2>4. /\ new.size = RingSize /\ new.addr = z.addr /\ new.ready = z.ready
        /\ new.last_avail_idx = z.last_avail_idx /\ new.last_used_idx = z.last_used_idx
    BY <1>7, Zenon DEF QueueType
  <2> HIDE DEF new
  <2>5. \A r \in AddrReg : new.addr[r] = IF i + 1 >= Order[r] THEN <<d, p>> ELSE <<0, 0>>
    BY <1>7, <1>9, <2>4, SetupTypes
  <2>6. /\ new.ready <=> i = 8
        /\ new.size = RingSize /\ new.last_avail_idx = 0 /\ new.last_used_idx = 0
    BY <1>7, <1>8, <1>9, <2>4, SMTT(30)
  <2> QED  BY <2>2, <2>3, <2>5, <2>6, SetupQueueWritten, Zenon
<1>10. CASE i = 8
  <2>1. w = W("queue_ready", TRUE)
    BY <1>10 DEF net_setup_queue
  <2> DEFINE new == [z EXCEPT !.ready = TRUE, !.last_avail_idx = IF TRUE /\ ~z.ready THEN 0 ELSE @]
  <2>2. queues' = [queues EXCEPT ![p] = new] /\ UNCHANGED <<dev_status, sel, features_sel, driver_features>>
    BY <1>3, <1>5, <2>1, WriteQueueIs, Zenon DEF QueueReg, z
  <2>3. new \in QueueType
    BY <1>7, Zenon DEF QueueType
  <2>4. /\ new.size = z.size /\ new.addr = z.addr /\ new.ready = TRUE
        /\ new.last_avail_idx = 0 /\ new.last_used_idx = z.last_used_idx
    BY <1>7, Zenon DEF QueueType
  <2> HIDE DEF new
  <2>5. \A r \in AddrReg : new.addr[r] = IF i + 1 >= Order[r] THEN <<d, p>> ELSE <<0, 0>>
    BY <1>7, <1>10, <2>4, SetupTypes
  <2>6. /\ new.ready <=> i = 8
        /\ new.size = RingSize /\ new.last_avail_idx = 0 /\ new.last_used_idx = 0
    BY <1>7, <1>8, <1>10, <2>4
  <2> QED  BY <2>2, <2>3, <2>5, <2>6, SetupQueueWritten, Zenon
<1>11. ASSUME NEW r \in AddrReg, Order[r] = i + 1 PROVE SetupInv'
  <2>1. w = W(r, <<d, p>>) /\ i >= 2 /\ i # 8
    <3>1. i >= 2 /\ i # 8
      BY <1>11, SetupTypes
    <3>2. \/ (i = 2 /\ r = "desc_low") \/ (i = 3 /\ r = "desc_high") \/ (i = 4 /\ r = "avail_low")
          \/ (i = 5 /\ r = "avail_high") \/ (i = 6 /\ r = "used_low") \/ (i = 7 /\ r = "used_high")
      <4>1. /\ Order["desc_low"] = 3 /\ Order["desc_high"] = 4 /\ Order["avail_low"] = 5
            /\ Order["avail_high"] = 6 /\ Order["used_low"] = 7 /\ Order["used_high"] = 8
        BY Zenon DEF Order, AddrReg
      <4> QED  BY <1>11, <4>1, SMT DEF AddrReg
    <3> QED  BY <3>1, <3>2 DEF net_setup_queue
  <2> DEFINE new == [z EXCEPT !.addr[r] = <<d, p>>]
  <2>2. queues' = [queues EXCEPT ![p] = new] /\ UNCHANGED <<dev_status, sel, features_sel, driver_features>>
    <3>1. Write(W(r, <<d, p>>))
      BY <1>3, <2>1
    <3>2. /\ queues' = [queues EXCEPT ![sel] = WithAddr(queues[sel], r, <<d, p>>)]
          /\ UNCHANGED <<dev_status, sel, features_sel, driver_features>>
      BY <1>11, <3>1, WriteQueueIs, Zenon DEF QueueReg
    <3> QED  BY <1>5, <3>2, Zenon DEF z, WithAddr
  <2>3. new \in QueueType
    BY <1>7, <1>8, SMTT(30) DEF QueueType
  <2>4. /\ new.size = z.size /\ new.addr = [z.addr EXCEPT ![r] = <<d, p>>] /\ new.ready = z.ready
        /\ new.last_avail_idx = z.last_avail_idx /\ new.last_used_idx = z.last_used_idx
    BY <1>7, Zenon DEF QueueType
  <2> HIDE DEF new
  <2>5. ASSUME NEW t \in AddrReg PROVE new.addr[t] = IF i + 1 >= Order[t] THEN <<d, p>> ELSE <<0, 0>>
    <3>1. CASE t = r
      BY <1>8, <1>11, <2>4, <3>1
    <3>2. CASE t # r
      <4>1. Order[t] # Order[r]
        BY <3>2 DEF Order, AddrReg
      <4>2. i + 1 >= Order[t] <=> i >= Order[t]
        BY <1>11, <4>1, SetupTypes
      <4>3. new.addr[t] = z.addr[t]
        BY <1>8, <2>4, <3>2, Zenon
      <4> QED  BY <1>7, <4>2, <4>3, Zenon
    <3> QED  BY <3>1, <3>2, Zenon
  <2>6. /\ new.ready <=> i = 8
        /\ new.size = RingSize /\ new.last_avail_idx = 0 /\ new.last_used_idx = 0
    BY <1>7, <1>8, <2>1, <2>4, Zenon
  <2> QED  BY <2>2, <2>3, <2>5, <2>6, SetupQueueWritten, Zenon
<1>12. CASE i \in 2 .. 7
  <2>1. \E r \in AddrReg : Order[r] = i + 1
    BY <1>12 DEF Order, AddrReg
  <2> QED  BY <1>11, <2>1, Zenon
<1> QED  BY <1>9, <1>10, <1>12

\* Every write of the set-up keeps the device where the driver believes it.
LEMMA SetupStep ==
  ASSUME SetupInv, Step
  PROVE  SetupInv'
<1> DEFINE d == driver
           f == Feats(driver)
           j == at - (f + 4)
<1>1. /\ d \in Nat /\ at \in Nat /\ at >= 1 /\ at <= f + 9 * Queues + 4 /\ f \in {1, 4}
      /\ Queues \in Nat /\ Queues > 0
  <2>1. driver \in Nat /\ at \in Nat /\ (driver = 0 <=> at = 0)
    BY Zenon DEF SetupInv
  <2>2. driver > 0 /\ ~(at > InitLen(driver))
    BY Zenon DEF Step, Running
  <2>3. InitLen(driver) = f + 9 * Queues + 4 /\ f \in {1, 4}
    BY <2>1, FeatsIs, Zenon DEF Feats
  <2> QED  BY <2>1, <2>2, <2>3, SetupTypes
<1>2. Write(virtio_net_init(driver, at)) /\ driver' = driver /\ at' = at + 1
  BY Zenon DEF Step
<1>3. /\ dev_status = StatusAfter(driver, at)
      /\ FeaturesAfter(driver, IF at > 3 THEN at - 3 ELSE 0)
      /\ sel = IF Made = 0 THEN 0 ELSE IF Made > 9 * Queues THEN Queues - 1 ELSE (Made - 1) \div 9
  BY Zenon DEF SetupInv
<1>4. /\ at + 1 <= f + 5 => sel = 0
      /\ at = f + 9 * Queues + 4 => sel = Queues - 1
  BY <1>1, <1>3 DEF Made
<1>5. ASSUME UNCHANGED <<features_sel, driver_features>>, at <= 2 \/ at >= f + 3
      PROVE  FeaturesAfter(driver, IF at > 3 THEN at - 3 ELSE 0)'
  <2> DEFINE m == IF at > 3 THEN at - 3 ELSE 0
             n == IF at + 1 > 3 THEN at + 1 - 3 ELSE 0
  <2>1. m \in Nat /\ n \in Nat /\ (n = m \/ (m >= f /\ n >= f))
    BY <1>1, <1>5
  <2>2. FeaturesAfter(driver, m)
    BY <1>3, Zenon
  <2> HIDE DEF m, n
  <2>3. /\ features_sel = IF driver # 1 /\ n \in {1, 2} THEN 1 ELSE 0
        /\ driver_features = <<IF n >= f THEN driver ELSE 0, IF driver # 1 /\ n >= 2 THEN driver ELSE 0>>
    BY <2>1, <2>2 DEF FeaturesAfter, Feats
  <2>4. n = IF at' > 3 THEN at' - 3 ELSE 0
    <3>1. at' = at + 1
      BY <1>2, Zenon
    <3> QED  BY <1>1, <3>1 DEF n
  <2> QED  BY <1>2, <1>5, <2>3, <2>4, Zenon DEF FeaturesAfter, Feats
<1>6. ASSUME NEW v \in Nat \ {0}, virtio_net_init(driver, at) = W("status", v),
             at <= 2 \/ at = f + 3 \/ at = f + 9 * Queues + 4, v = StatusAfter(driver, at + 1)
      PROVE  SetupInv'
  <2>1. dev_status' = v /\ UNCHANGED <<sel, features_sel, driver_features, queues>>
    BY <1>2, <1>6, WriteStatusIs, Zenon
  <2>2. FeaturesAfter(driver, IF at > 3 THEN at - 3 ELSE 0)'
    BY <1>1, <1>5, <1>6, <2>1
  <2>3. sel' = IF at + 1 <= f + 4 THEN 0 ELSE IF at = f + 9 * Queues + 4 THEN Queues - 1 ELSE j \div 9
    BY <1>1, <1>4, <1>6, <2>1
  <2>4. at + 1 <= f + 4 \/ at = f + 9 * Queues + 4 \/ j % 9 = 0
    BY <1>1, <1>6
  <2> QED  BY <1>6, <2>1, <2>2, <2>3, <2>4, SetupAside, Zenon
<1>7. CASE at \in {1, 2, f + 3, f + 9 * Queues + 4}
  <2>1. CASE at = 1
    <3>1. virtio_net_init(driver, at) = W("status", 1) /\ 1 = StatusAfter(driver, at + 1)
      BY <1>1, <2>1, ListIs DEF StatusAfter
    <3> QED  BY <1>6, <2>1, <3>1
  <2>2. CASE at = 2
    <3>1. virtio_net_init(driver, at) = W("status", 3) /\ 3 = StatusAfter(driver, at + 1)
      BY <1>1, <2>2, ListIs DEF StatusAfter
    <3> QED  BY <1>6, <2>2, <3>1
  <2>3. CASE at = f + 3
    <3>1. virtio_net_init(driver, at) = W("status", 11)
      BY <1>1, <2>3, ListIs, Zenon
    <3>2. 11 = StatusAfter(driver, at + 1)
      BY <1>1, <2>3 DEF StatusAfter
    <3> QED  BY <1>6, <2>3, <3>1, <3>2
  <2>4. CASE at = f + 9 * Queues + 4
    <3>1. virtio_net_init(driver, at) = W("status", 15)
      BY <1>1, <2>4, ListIs
    <3>2. 15 = StatusAfter(driver, at + 1)
      BY <1>1, <2>4 DEF StatusAfter
    <3> QED  BY <1>6, <2>4, <3>1, <3>2
  <2> QED  BY <1>7, <2>1, <2>2, <2>3, <2>4
<1>8. CASE at \in 3 .. f + 2
  <2>1. /\ FeaturesAfter(driver, IF at > 3 THEN at - 3 ELSE 0)'
        /\ UNCHANGED <<dev_status, sel, queues>>
    BY <1>8, FeaturesStep, Zenon
  <2>2. dev_status' = StatusAfter(driver, at + 1)
    BY <1>1, <1>3, <1>8, <2>1 DEF StatusAfter
  <2>3. at + 1 <= f + 4
    BY <1>1, <1>8
  <2>4. sel' = 0
    BY <1>1, <1>4, <2>1, <2>3
  <2> QED  BY <2>1, <2>2, <2>3, <2>4, SetupAside, Zenon
<1>9. CASE at \in f + 4 .. f + 9 * Queues + 3
  <2> DEFINE p == j \div 9
             i == j % 9
  <2>1. j \in Nat /\ j < 9 * Queues
    BY <1>1, <1>9
  <2>2. p \in Nat /\ i \in 0 .. 8 /\ j = 9 * p + i
    BY <2>1
  <2>3. virtio_net_init(driver, at) = net_setup_queue(driver, p)[i + 1]
    BY <1>1, <1>9, ListIs, Zenon
  <2>4. at = f + 4 + j
    BY <1>1
  <2> HIDE DEF p, i, j
  <2>5. p < Queues /\ p \in QueueIdx
    BY <1>1, <2>1, <2>2 DEF QueueIdx
  <2>6. CASE i = 0
    <3>1. Write(W("queue_sel", p))
      BY <1>2, <2>3, <2>6 DEF net_setup_queue
    <3>2. sel' = p /\ UNCHANGED <<dev_status, features_sel, driver_features, queues>>
      BY <2>5, <3>1, WriteQueueSelIs, Zenon
    <3>3. FeaturesAfter(driver, IF at > 3 THEN at - 3 ELSE 0)'
      BY <1>1, <1>5, <1>9, <3>2
    <3>4. dev_status' = StatusAfter(driver, at + 1)
      BY <1>1, <1>3, <1>9, <3>2 DEF StatusAfter
    <3>5. ~(at + 1 <= f + 4) /\ at # f + 9 * Queues + 4
      BY <1>1, <1>9
    <3>6. j % 9 = 0 /\ sel' = j \div 9
      BY <2>6, <3>2, Zenon DEF p, i
    <3> QED  BY <3>2, <3>3, <3>4, <3>5, <3>6, SetupAside, SMTT(30) DEF j
  <2>7. CASE i # 0
    <3>1. i \in 1 .. 8 /\ at = f + 4 + 9 * p + i
      BY <1>1, <2>2, <2>4, <2>7
    <3> QED  BY <2>5, <3>1, QueueStep, Zenon
  <2> QED  BY <2>6, <2>7, Zenon
<1> QED  BY <1>1, <1>7, <1>8, <1>9

-----------------------------------------------------------------------------
\* The rings in use: only once the driver is through its list
LEMMA RingsInUse ==
  ASSUME SetupInv
  PROVE  /\ Running <=> at = Feats(driver) + 9 * Queues + 5
         /\ (dev_status \div 4) % 2 = 1 => Running
<1>1. driver \in Nat /\ at \in Nat /\ at <= Feats(driver) + 9 * Queues + 5 /\ (driver = 0 <=> at = 0)
      /\ Feats(driver) \in {1, 4} /\ Queues \in Nat
  BY SetupTypes, Zenon DEF SetupInv, Feats
<1>2. Running <=> at = Feats(driver) + 9 * Queues + 5
  <2>1. InitLen(driver) = Feats(driver) + 9 * Queues + 4
    BY <1>1, FeatsIs, Zenon
  <2> QED  BY <1>1, <2>1 DEF Running
<1>3. dev_status = StatusAfter(driver, at)
  BY Zenon DEF SetupInv
<1>4. at # Feats(driver) + 9 * Queues + 5 => dev_status \in {0, 1, 3, 11}
  BY <1>1, <1>3 DEF StatusAfter
<1>5. 0 \div 4 = 0 /\ 1 \div 4 = 0 /\ 3 \div 4 = 0 /\ 11 \div 4 = 2 /\ 0 % 2 = 0 /\ 2 % 2 = 0
  OBVIOUS
<1>6. dev_status \in {0, 1, 3, 11} => (dev_status \div 4) % 2 = 0
  BY <1>5, Zenon
<1> QED  BY <1>2, <1>4, <1>6

\* Post and RunDevice leave the registers and the driver alone
LEMMA SetupRing ==
  ASSUME SetupInv, NEW q \in QueueIdx, Post(q) \/ RunDevice(q)
  PROVE  SetupInv'
<1>1. /\ driver \in Nat /\ at \in Nat /\ queues \in [QueueIdx -> QueueType]
      /\ posted \in [QueueIdx -> RingIdx] /\ used \in [QueueIdx -> RingIdx]
      /\ \A k \in QueueIdx : QueueAfter(k, Made) /\ Since(posted[k], used[k]) <= RingSize
  BY Zenon DEF SetupInv
<1>2. /\ UNCHANGED <<dev_status, sel, features_sel, driver_features, driver, at>>
      /\ Running
  BY RingsInUse, Zenon DEF Post, RunDevice
<1>3. at = Feats(driver) + 9 * Queues + 5 /\ Feats(driver) \in {1, 4} /\ Queues \in Nat
  BY <1>2, RingsInUse, SetupTypes, Zenon DEF Feats
<1>4. ~(at' <= Feats(driver') + 9 * Queues + 4)
  BY <1>2, <1>3
<1>5. Made' = Made /\ StatusAfter(driver, at)' = StatusAfter(driver, at)
  BY <1>2, Zenon DEF Made, StatusAfter, Feats
<1>6. FeaturesAfter(driver, IF at > 3 THEN at - 3 ELSE 0)'
  <2>1. FeaturesAfter(driver, IF at > 3 THEN at - 3 ELSE 0)
    BY Zenon DEF SetupInv
  <2> QED  BY <1>2, <2>1, Zenon DEF FeaturesAfter, Feats
<1> SUFFICES /\ queues' \in [QueueIdx -> QueueType]
             /\ posted' \in [QueueIdx -> RingIdx] /\ used' \in [QueueIdx -> RingIdx]
             /\ \A k \in QueueIdx : QueueAfter(k, Made)'
             /\ \A k \in QueueIdx : Since(posted'[k], used'[k]) <= RingSize
  <2>1. /\ driver' \in Nat /\ at' \in Nat /\ at' <= Feats(driver') + 9 * Queues + 5
        /\ driver' = 0 <=> at' = 0
    BY <1>2, Zenon DEF SetupInv
  <2>2. dev_status' = StatusAfter(driver, at)'
    BY <1>2, <1>5, Zenon DEF SetupInv
  <2>3. sel' = IF Made' = 0 THEN 0 ELSE IF Made' > 9 * Queues THEN Queues - 1 ELSE (Made' - 1) \div 9
    BY <1>2, <1>5, Zenon DEF SetupInv
  <2> QED  BY <1>4, <1>6, <2>1, <2>2, <2>3 DEF SetupInv, Since
<1>7. posted[q] \in RingIdx /\ used[q] \in RingIdx /\ Since(posted[q], used[q]) <= RingSize
  BY <1>1
<1>8. CASE Post(q)
  <2>1. /\ Since(posted[q], used[q]) < RingSize /\ UNCHANGED <<queues, used>>
        /\ posted' = [posted EXCEPT ![q] = (posted[q] + 1) % RingMod]
    BY <1>8, Zenon DEF Post
  <2>2. (posted[q] + 1) % RingMod \in RingIdx /\ Since((posted[q] + 1) % RingMod, used[q]) <= RingSize
    BY <1>7, <2>1, RingSteps, Zenon
  <2> DEFINE x == (posted[q] + 1) % RingMod
  <2> HIDE DEF x
  <2>3. x \in RingIdx /\ posted' = [posted EXCEPT ![q] = x] /\ Since(x, used[q]) <= RingSize
    BY <2>1, <2>2, Zenon DEF x
  <2>4. posted' \in [QueueIdx -> RingIdx] /\ used' \in [QueueIdx -> RingIdx]
    BY <1>1, <2>1, <2>3, Zenon
  <2>5. \A k \in QueueIdx : Since(posted'[k], used'[k]) <= RingSize
    BY <1>1, <2>1, <2>3, SMTT(30)
  <2>6. \A k \in QueueIdx : QueueAfter(k, Made)'
    BY <1>1, <1>2, <1>5, <2>1 DEF QueueAfter
  <2> QED  BY <1>1, <2>1, <2>4, <2>5, <2>6, Zenon
<1>9. CASE RunDevice(q)
  <2> DEFINE z == queues[q]
             n == Since(posted[q], z.last_avail_idx)
             u == (used[q] + n) % RingMod
             new == [z EXCEPT !.last_avail_idx = u, !.last_used_idx = u]
  <2>1. z \in QueueType /\ z.last_avail_idx = used[q] /\ z.last_used_idx = used[q]
    BY <1>1, Zenon DEF QueueAfter
  <2>2. /\ queues' = [queues EXCEPT ![q].last_avail_idx = (@ + n) % RingMod,
                                    ![q].last_used_idx = (@ + n) % RingMod]
        /\ used' = [used EXCEPT ![q] = queues'[q].last_used_idx] /\ UNCHANGED posted
    BY <1>9, Zenon DEF RunDevice
  <2>3. u = posted[q]
    BY <1>7, <2>1, RingSteps, Zenon
  <2>4. new \in QueueType /\ new.size = z.size /\ new.addr = z.addr /\ new.ready = z.ready
        /\ new.last_avail_idx = u /\ new.last_used_idx = u
    <3>1. u \in Nat
      <4>1. \A k \in RingIdx : k \in Nat
        BY SetupTypes DEF RingIdx
      <4> QED  BY <1>7, <2>3, <4>1, Zenon
    <3> HIDE DEF u, z
    <3> QED  BY <2>1, <3>1, Zenon DEF QueueType
  <2>5. queues' = [queues EXCEPT ![q] = new]
    BY <1>1, <2>1, <2>2, Zenon
  <2>6. used' = [used EXCEPT ![q] = posted[q]]
    BY <1>1, <2>2, <2>3, <2>4, <2>5, Zenon
  <2> HIDE DEF new, u, n
  <2>7. /\ queues' \in [QueueIdx -> QueueType] /\ posted' \in [QueueIdx -> RingIdx]
        /\ used' \in [QueueIdx -> RingIdx]
    BY <1>1, <1>7, <2>2, <2>4, <2>5, <2>6, ZenonT(30)
  <2>8. \A k \in QueueIdx : Since(posted'[k], used'[k]) <= RingSize
    <3>1. Since(posted[q], posted[q]) = 0 /\ 0 <= RingSize
      BY <1>7, RingSteps, SetupTypes
    <3> QED  BY <1>1, <2>2, <2>6, <3>1, Zenon
  <2>9. ASSUME NEW k \in QueueIdx PROVE QueueAfter(k, Made)'
    <3>1. QueueAfter(k, Made)
      BY <1>1, Zenon
    <3>2. CASE k = q
      <4>1. queues'[k] = new /\ used'[k] = posted[q]
        BY <1>1, <2>5, <2>6, <3>2, SMTT(30)
      <4> QED  BY <1>2, <1>5, <2>3, <2>4, <3>1, <3>2, <4>1 DEF QueueAfter
    <3>3. CASE k # q
      <4>1. queues'[k] = queues[k] /\ used'[k] = used[k]
        BY <1>1, <2>5, <2>6, <3>3
      <4> QED  BY <1>2, <1>5, <3>1, <4>1 DEF QueueAfter
    <3> QED  BY <3>2, <3>3, Zenon
  <2> QED  BY <2>7, <2>8, <2>9, Zenon
<1> QED  BY <1>8, <1>9, Zenon

\* From the invariant: the device reads the rings the driver wrote.
LEMMA SetupMeans ==
  ASSUME SetupInv
  PROVE  DeviceReadsDriver
<1>1. /\ driver \in Nat /\ at \in Nat /\ Made \in Nat /\ Queues \in Nat /\ Feats(driver) \in {1, 4}
      /\ \A q \in QueueIdx : QueueAfter(q, Made) /\ Since(posted[q], used[q]) <= RingSize
      /\ FeaturesAfter(driver, IF at > 3 THEN at - 3 ELSE 0)
  BY SetupTypes DEF SetupInv, Feats, Made
<1>2. ASSUME NEW q \in QueueIdx, queues[q].ready
      PROVE  /\ \A r \in AddrReg : queues[q].addr[r] = <<driver, q>>
             /\ queues[q].size = RingSize
             /\ queues[q].last_used_idx = used[q] /\ queues[q].last_avail_idx = used[q]
             /\ Since(posted[q], used[q]) =< RingSize
  <2>1. QueueAfter(q, Made) /\ q \in Nat
    BY <1>1 DEF QueueIdx
  <2>2. Made >= 9 * q + 9
    BY <1>2, <2>1, Zenon DEF QueueAfter
  <2>3. Made >= 9 * q + 2 /\ \A r \in AddrReg : Made >= 9 * q + Order[r]
    BY <1>1, <2>1, <2>2, SetupTypes
  <2> QED  BY <1>1, <2>1, <2>3, Zenon DEF QueueAfter
<1>3. ASSUME (dev_status \div 4) % 2 = 1
      PROVE  driver_features = Accepted(driver) /\ \A q \in QueueIdx : queues[q].ready
  <2>1. at = Feats(driver) + 9 * Queues + 5
    BY <1>3, RingsInUse, Zenon
  <2>2. \A q \in QueueIdx : Made >= 9 * q + 9
    BY <1>1, <2>1 DEF Made, QueueIdx
  <2>3. \A q \in QueueIdx : queues[q].ready
    BY <1>1, <2>2, Zenon DEF QueueAfter
  <2>4. driver_features = Accepted(driver)
    <3>1. at > 3 /\ at - 3 >= Feats(driver) /\ at - 3 >= 2
      BY <1>1, <2>1
    <3> QED  BY <1>1, <3>1, Zenon DEF FeaturesAfter, Accepted
  <2> QED  BY <2>3, <2>4, Zenon
<1> QED  BY <1>2, <1>3 DEF DeviceReadsDriver

\* A queue the transport lets the device run on is the one the present driver
\* set up, wherever the driver before it was stopped (the status register's
\* reset and the queue registers of mmio.rs): for every number of queues and of
\* drivers, every ring size and every modulus of the ring indices above it.
THEOREM DeviceAlwaysReadsDriver == SetupSpec => []DeviceReadsDriver
<1>1. SetupInit => SetupInv
  BY SetupStart, Zenon
<1>2. SetupInv /\ [SetupNext]_setupVars => SetupInv'
  <2> SUFFICES ASSUME SetupInv, [SetupNext]_setupVars PROVE SetupInv'
    BY Zenon
  <2>1. CASE TakeOver
    BY <2>1, SetupTakeOver, Zenon
  <2>2. CASE Step
    BY <2>2, SetupStep, Zenon
  <2>3. CASE \E q \in QueueIdx : Post(q) \/ RunDevice(q)
    BY <2>3, SetupRing, SMTT(30)
  <2>4. CASE UNCHANGED setupVars
    <3>1. UNCHANGED <<dev_status, sel, features_sel, driver_features, queues, driver, at, posted, used>>
      BY <2>4, Zenon DEF setupVars
    <3>2. Made' = Made
      BY <3>1, Zenon DEF Made, Feats
    <3>3. FeaturesAfter(driver, IF at > 3 THEN at - 3 ELSE 0)'
      BY <3>1, Zenon DEF SetupInv, FeaturesAfter, Feats
    <3>4. ASSUME NEW q \in QueueIdx PROVE QueueAfter(q, Made)'
      <4>1. QueueAfter(q, Made)
        BY Zenon DEF SetupInv
      <4> QED  BY <3>1, <3>2, <4>1, Zenon DEF QueueAfter
    <3> QED  BY <3>1, <3>2, <3>3, <3>4, Zenon DEF SetupInv, Feats, StatusAfter, Since
  <2> QED  BY <2>1, <2>2, <2>3, <2>4, Zenon DEF SetupNext
<1>3. SetupInv => DeviceReadsDriver
  BY SetupMeans, Zenon
<1> QED  BY <1>1, <1>2, <1>3, PTL DEF SetupSpec
=============================================================================
