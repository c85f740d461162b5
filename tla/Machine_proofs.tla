--------------------------- MODULE Machine_proofs ---------------------------
(***************************************************************************)
(* The machine: its memory, what is put in it before it starts, and the    *)
(* threads that run it. GuestMemory, for any regions; MachineImage, for    *)
(* any number of vCPUs and any size of RAM; VmThreads, for any set of      *)
(* vCPUs.                                                                  *)
(***************************************************************************)
EXTENDS GuestMemory, MachineImage, VmThreads, SequenceTheorems, TLAPS

-----------------------------------------------------------------------------
(***************************************************************************)
(* GuestMemory: the slots given to KVM are the RAM less its holes, and an  *)
(* access that is let through is inside it. Carving is followed one hole   *)
(* at a time.                                                              *)
(***************************************************************************)

Segs == [start : Nat, end : Nat]
In(a, seg) == seg.start <= a /\ a < seg.end

\* One hole cut out of one segment
LEMMA PiecesCover ==
  ASSUME NEW seg \in Segs, NEW hole \in Segs, hole.start < hole.end
  PROVE  /\ \A s \in Pieces(seg, hole) : s \in Segs /\ s.start >= seg.start
         /\ \A a \in Nat : (\E s \in Pieces(seg, hole) : In(a, s)) <=> In(a, seg) /\ ~In(a, hole)
<1>1. seg.start \in Nat /\ seg.end \in Nat /\ hole.start \in Nat /\ hole.end \in Nat
  BY Zenon DEF Segs
<1>2. CASE hole.start >= seg.end \/ hole.end <= seg.start
  <2>1. Pieces(seg, hole) = {seg}
    BY <1>2, Zenon DEF Pieces
  <2>2. \A a \in Nat : In(a, seg) => ~In(a, hole)
    BY <1>1, <1>2 DEF In
  <2>3. seg.start >= seg.start
    BY <1>1
  <2> QED  BY <2>1, <2>2, <2>3, Zenon
<1>3. CASE ~(hole.start >= seg.end \/ hole.end <= seg.start)
  <2> DEFINE low == [start |-> seg.start, end |-> hole.start]
             high == [start |-> hole.end, end |-> seg.end]
  <2>1. /\ low \in Segs /\ low.start = seg.start /\ low.end = hole.start
        /\ high \in Segs /\ high.start = hole.end /\ high.end = seg.end
    BY <1>1, Zenon DEF Segs
  <2>2. Pieces(seg, hole) = {s \in {low, high} : s.start < s.end}
    BY <1>3, Zenon DEF Pieces
  <2> HIDE DEF low, high
  <2>3. \A s \in Pieces(seg, hole) : s \in Segs /\ s.start >= seg.start
    BY <1>1, <1>3, <2>1, <2>2
  <2>4. ASSUME NEW a \in Nat
        PROVE  (\E s \in Pieces(seg, hole) : In(a, s)) <=> In(a, low) \/ In(a, high)
    BY <1>1, <2>1, <2>2 DEF In
  <2>5. ASSUME NEW a \in Nat
        PROVE  In(a, low) \/ In(a, high) <=> In(a, seg) /\ ~In(a, hole)
    BY <1>1, <1>3, <2>1 DEF In
  <2> QED  BY <2>3, <2>4, <2>5, Zenon
<1> QED  BY <1>2, <1>3, Zenon

\* One hole cut out of several
LEMMA CarveCovers ==
  ASSUME NEW S \in SUBSET Segs, NEW hole \in Segs, hole.start < hole.end, NEW b \in Nat,
         \A s \in S : s.start >= b
  PROVE  /\ Carve(S, hole) \in SUBSET Segs /\ \A s \in Carve(S, hole) : s.start >= b
         /\ \A a \in Nat : (\E s \in Carve(S, hole) : In(a, s))
                             <=> (\E s \in S : In(a, s)) /\ ~In(a, hole)
<1>1. \A t : t \in Carve(S, hole) <=> \E s \in S : t \in Pieces(s, hole)
  BY Zenon DEF Carve
<1>2. ASSUME NEW t \in Carve(S, hole) PROVE t \in Segs /\ t.start >= b
  <2>1. PICK s \in S : t \in Pieces(s, hole)
    BY <1>1, Zenon
  <2>2. s \in Segs /\ s.start \in Nat /\ s.start >= b
    BY Zenon DEF Segs
  <2>3. t \in Segs /\ t.start >= s.start
    BY <2>1, <2>2, PiecesCover, Zenon
  <2>4. t.start \in Nat
    BY <2>3, Zenon DEF Segs
  <2> QED  BY <2>2, <2>3, <2>4
<1>3. ASSUME NEW a \in Nat
      PROVE  (\E s \in Carve(S, hole) : In(a, s)) <=> (\E s \in S : In(a, s)) /\ ~In(a, hole)
  <2>1. (\E s \in Carve(S, hole) : In(a, s)) <=> (\E s \in S : \E t \in Pieces(s, hole) : In(a, t))
    BY <1>1, Zenon
  <2>2. \A s \in S : (\E t \in Pieces(s, hole) : In(a, t)) <=> In(a, s) /\ ~In(a, hole)
    BY PiecesCover, Zenon
  <2> QED  BY <2>1, <2>2, Zenon
<1> QED  BY <1>2, <1>3, Zenon

\* What new_mem registers of a region: all of it but the pages of the controllers
LEMMA SegmentsCover ==
  ASSUME NEW start \in Nat, NEW end \in Nat
  PROVE  /\ \A s \in Segments(start, end) : s \in Segs /\ s.start >= start
         /\ \A a \in Nat : (\E s \in Segments(start, end) : In(a, s))
                             <=> start <= a /\ a < end /\ ~InHole(a)
<1> DEFINE whole == [start |-> start, end |-> end]
           h == [start |-> IOAPIC_START, end |-> IOAPIC_END]
           k == [start |-> LAPIC_START, end |-> LAPIC_END]
           C == Carve({whole}, h)
           D == Carve(C, k)
<1>1. whole \in Segs /\ whole.start = start /\ \A a \in Nat : In(a, whole) <=> start <= a /\ a < end
  BY Zenon DEF Segs, In
<1>2. h \in Segs /\ k \in Segs /\ h.start < h.end /\ k.start < k.end
  BY GuestMemoryAssumption, Zenon DEF Segs
<1>3. Holes[1] = h /\ Holes[2] = k
  BY Zenon DEF Holes
<1>4. \A a \in Nat : InHole(a) <=> In(a, h) \/ In(a, k)
  <2>1. 1 .. 2 = {1, 2}
    OBVIOUS
  <2> HIDE DEF h, k
  <2> QED  BY <1>3, <2>1, Zenon DEF InHole, In
<1>5. Segments(start, end) = D
  BY <1>3, Zenon DEF Segments
<1> HIDE DEF whole, h, k
<1>6. /\ C \in SUBSET Segs /\ \A s \in C : s.start >= start
      /\ \A a \in Nat : (\E s \in C : In(a, s)) <=> In(a, whole) /\ ~In(a, h)
  <2>1. {whole} \in SUBSET Segs /\ \A s \in {whole} : s.start >= start
    BY <1>1
  <2>2. /\ C \in SUBSET Segs /\ \A s \in C : s.start >= start
        /\ \A a \in Nat : (\E s \in C : In(a, s)) <=> (\E s \in {whole} : In(a, s)) /\ ~In(a, h)
    BY <1>2, <2>1, CarveCovers, Zenon
  <2> QED  BY <2>2, Zenon
<1> HIDE DEF C
<1>7. /\ D \in SUBSET Segs /\ \A s \in D : s.start >= start
      /\ \A a \in Nat : (\E s \in D : In(a, s)) <=> (\E s \in C : In(a, s)) /\ ~In(a, k)
  BY <1>2, <1>6, CarveCovers, Zenon
<1> HIDE DEF D
<1> QED  BY <1>1, <1>4, <1>5, <1>6, <1>7, Zenon

AllSlots(rs) == UNION {NewSlots(p, rs[p].start, rs[p].size) : p \in 1 .. Len(rs)}

\* Unless the process has ended, every slot is of a region and every region has its
\* slots; the last access was made with the regions and the build there are.
RamInv ==
  /\ regions \in Seq([start : Nat, size : Nat])
  /\ started # "panic" => slots = AllSlots(regions)
  /\ last = NoAccess
       \/ /\ started = "yes"
          /\ last.kind \in Kinds /\ last.addr \in DeviceAddresses /\ last.len \in 1 .. MaxLen
          /\ last.got = Outcome(checked, regions, last.kind, last.addr, last.len)

\* The invariant of guest memory holds before the first region.
LEMMA RamStart == RamInit => RamInv
<1> SUFFICES ASSUME RamInit PROVE RamInv
  BY Zenon
<1>1. regions = <<>> /\ slots = {} /\ last = NoAccess
  BY Zenon DEF RamInit
<1>2. <<>> \in Seq([start : Nat, size : Nat]) /\ Len(<<>>) = 0
  OBVIOUS
<1>3. AllSlots(<<>>) = {}
  BY <1>2 DEF AllSlots
<1> QED  BY <1>1, <1>2, <1>3, Zenon DEF RamInv

\* One more region adds its own slots to those given to KVM and changes no other.
LEMMA AllSlotsGrow ==
  ASSUME NEW rs \in Seq([start : Nat, size : Nat]), NEW r \in [start : Nat, size : Nat]
  PROVE  AllSlots(Append(rs, r)) = AllSlots(rs) \cup NewSlots(Len(rs) + 1, r.start, r.size)
<1> DEFINE n == Len(rs)
           t == Append(rs, r)
<1>1. n \in Nat /\ Len(t) = n + 1 /\ t[n + 1] = r /\ \A p \in 1 .. n : t[p] = rs[p]
  OBVIOUS
<1>2. 1 .. n + 1 = (1 .. n) \cup {n + 1}
  BY <1>1
<1>3. \A x : x \in AllSlots(rs) <=> \E p \in 1 .. n : x \in NewSlots(p, rs[p].start, rs[p].size)
  BY Zenon DEF AllSlots
<1> HIDE DEF t, n
<1>4. \A x : x \in AllSlots(t) <=> \E p \in 1 .. n + 1 : x \in NewSlots(p, t[p].start, t[p].size)
  BY <1>1, Zenon DEF AllSlots
<1>5. \A x : x \in AllSlots(t) <=> x \in AllSlots(rs) \/ x \in NewSlots(n + 1, r.start, r.size)
  BY <1>1, <1>2, <1>3, <1>4, Zenon
<1>6. AllSlots(t) = AllSlots(rs) \cup NewSlots(n + 1, r.start, r.size)
  BY <1>5, Zenon
<1> QED  BY <1>6, Zenon DEF t, n

\* Adding a region, accepted or refused, keeps the invariant.
LEMMA RamStep == RamInv /\ [RamNext]_ramVars => RamInv'
<1> SUFFICES ASSUME RamInv, [RamNext]_ramVars PROVE RamInv'
  BY Zenon
<1>1. CASE UNCHANGED <<regions, slots, checked, started, last>>
  BY <1>1, Zenon DEF RamInv
<1>2. ASSUME NEW start \in 0 .. RamTop, NEW amount \in 1 .. RamTop - start, new_mem(start, amount)
      PROVE  RamInv'
  <2> DEFINE r == [start |-> start, size |-> amount]
             new == NewSlots(Len(regions) + 1, start, amount)
  <2>1. /\ started = "no" /\ regions' = Append(regions, r) /\ last' = last
        /\ \/ started' = "panic"
           \/ slots' = slots \cup new /\ started' = started
    BY <1>2, Zenon DEF new_mem
  <2>2. r \in [start : Nat, size : Nat] /\ r.start = start /\ r.size = amount
    BY GuestMemoryAssumption
  <2>3. regions \in Seq([start : Nat, size : Nat]) /\ slots = AllSlots(regions) /\ last = NoAccess
    BY <2>1, Zenon DEF RamInv
  <2> HIDE DEF r
  <2>4. regions' \in Seq([start : Nat, size : Nat])
    BY <2>1, <2>2, <2>3
  <2>5. started' # "panic" => slots' = AllSlots(regions')
    BY <2>1, <2>2, <2>3, AllSlotsGrow, Zenon
  <2> QED  BY <2>1, <2>3, <2>4, <2>5, Zenon DEF RamInv
<1>3. CASE Start
  <2>1. /\ started = "no" /\ started' = "yes" /\ UNCHANGED <<regions, slots, checked, last>>
    BY <1>3, Zenon DEF Start
  <2> QED  BY <2>1, Zenon DEF RamInv
<1>4. ASSUME NEW kind \in Kinds, NEW addr \in DeviceAddresses, NEW len \in 1 .. MaxLen,
             Access(kind, addr, len)
      PROVE  RamInv'
  <2>1. /\ started = "yes" /\ UNCHANGED <<regions, slots, checked, started>>
        /\ last' = [kind |-> kind, addr |-> addr, len |-> len, got |-> Outcome(checked, regions, kind, addr, len)]
    BY <1>4, Zenon DEF Access
  <2>2. last'.kind = kind /\ last'.addr = addr /\ last'.len = len /\ last'.got = Outcome(checked, regions, kind, addr, len)
    BY <2>1, Zenon
  <2>3. last'.got = Outcome(checked', regions', last'.kind, last'.addr, last'.len)
    BY <2>1, <2>2, Zenon
  <2> QED  BY <2>1, <2>2, <2>3, Zenon DEF RamInv
<1>5. CASE Panicked
  BY <1>1, <1>5, Zenon DEF Panicked, ramVars
<1>6. CASE UNCHANGED ramVars
  BY <1>1, <1>6, Zenon DEF ramVars
<1> QED  BY <1>2, <1>3, <1>4, <1>5, <1>6, Zenon DEF RamNext

\* From the invariant: the slots are the RAM less its holes.
LEMMA SlotsCover == RamInv => SlotsExact
<1> SUFFICES ASSUME RamInv, started = "yes", NEW a \in DeviceAddresses
             PROVE  GuestSees(a) = IF InHole(a) THEN {}
                                   ELSE {<<p, a - regions[p].start>> :
                                           p \in {p \in DOMAIN regions : Inside(regions[p], a, 1)}}
  BY Zenon DEF SlotsExact
<1>1. a \in Nat
  BY GuestMemoryAssumption DEF DeviceAddresses
<1>2. regions \in Seq([start : Nat, size : Nat]) /\ slots = AllSlots(regions)
  BY Zenon DEF RamInv
<1>3. DOMAIN regions = 1 .. Len(regions)
  BY <1>2
<1>4. ASSUME NEW p \in 1 .. Len(regions)
      PROVE  /\ regions[p].start \in Nat /\ regions[p].size \in Nat
             /\ Inside(regions[p], a, 1) <=> regions[p].start <= a /\ a < regions[p].start + regions[p].size
  <2>1. regions[p] \in [start : Nat, size : Nat]
    BY <1>2, ElementOfSeq, Zenon
  <2>2. regions[p].start \in Nat /\ regions[p].size \in Nat
    BY <2>1, Zenon
  <2>3. \A x, y \in Nat : (a >= x /\ a + 1 <= x + y) <=> (x <= a /\ a < x + y)
    BY <1>1
  <2> QED  BY <2>2, <2>3, Zenon DEF Inside
<1> DEFINE here(p) == \E seg \in Segments(regions[p].start, regions[p].start + regions[p].size) : In(a, seg)
           sees == {<<p, a - regions[p].start>> : p \in {p \in 1 .. Len(regions) : here(p)}}
<1>5. GuestSees(a) = sees
  <2>1. ASSUME NEW x \in GuestSees(a) PROVE x \in sees
    <3>1. PICK s \in slots : s.start <= a /\ a < s.end /\ x = <<s.region, s.offset + a - s.start>>
      BY Zenon DEF GuestSees
    <3>2. PICK p \in 1 .. Len(regions) : s \in NewSlots(p, regions[p].start, regions[p].size)
      BY <1>2, Zenon DEF AllSlots
    <3> DEFINE b == regions[p].start
               e == regions[p].start + regions[p].size
    <3>3. b \in Nat /\ e \in Nat
      BY <1>4
    <3> HIDE DEF e
    <3>4. PICK seg \in Segments(b, e) :
            s = [start |-> seg.start, end |-> seg.end, region |-> p, offset |-> seg.start - b]
      BY <3>2, Zenon DEF NewSlots, e
    <3>5. s.start = seg.start /\ s.end = seg.end /\ s.region = p /\ s.offset = seg.start - b
      BY <3>4, Zenon
    <3>6. seg.start \in Nat
      BY <3>3, SegmentsCover, Zenon DEF Segs
    <3>7. here(p)
      BY <3>1, <3>5, Zenon DEF In, e
    <3>8. s.offset + a - s.start = a - b
      BY <1>1, <3>3, <3>5, <3>6
    <3> QED  BY <3>1, <3>5, <3>7, <3>8, Zenon
  <2>2. ASSUME NEW p \in 1 .. Len(regions), here(p) PROVE <<p, a - regions[p].start>> \in GuestSees(a)
    <3> DEFINE b == regions[p].start
               e == regions[p].start + regions[p].size
    <3>1. b \in Nat /\ e \in Nat
      BY <1>4
    <3>2. PICK seg \in Segments(b, e) : In(a, seg)
      BY <2>2, Zenon
    <3>3. seg.start \in Nat
      BY <3>1, SegmentsCover, Zenon DEF Segs
    <3> DEFINE s == [start |-> seg.start, end |-> seg.end, region |-> p, offset |-> seg.start - b]
    <3>4. s.start = seg.start /\ s.end = seg.end /\ s.region = p /\ s.offset = seg.start - b
      BY Zenon
    <3>5. s \in slots
      BY <1>2 DEF AllSlots, NewSlots
    <3> HIDE DEF s
    <3>6. s.offset + a - s.start = a - b
      BY <1>1, <3>1, <3>3, <3>4
    <3>7. s.start <= a /\ a < s.end
      BY <3>2, <3>4, Zenon DEF In
    <3>8. <<s.region, s.offset + a - s.start>> \in GuestSees(a)
      BY <3>5, <3>7, Zenon DEF GuestSees
    <3> QED  BY <3>4, <3>6, <3>8, Zenon
  <2> QED  BY <2>1, <2>2, Zenon
<1>6. ASSUME NEW p \in 1 .. Len(regions) PROVE here(p) <=> Inside(regions[p], a, 1) /\ ~InHole(a)
  <2>1. regions[p].start \in Nat /\ regions[p].start + regions[p].size \in Nat
    BY <1>4
  <2>2. here(p) <=> regions[p].start <= a /\ a < regions[p].start + regions[p].size /\ ~InHole(a)
    BY <1>1, <2>1, SegmentsCover, Zenon
  <2> QED  BY <1>4, <2>2, Zenon
<1> HIDE DEF here
<1>7. CASE InHole(a)
  <2>1. sees = {}
    BY <1>6, <1>7, Zenon
  <2> QED  BY <1>5, <1>7, <2>1, Zenon
<1>8. CASE ~InHole(a)
  <2>1. {p \in 1 .. Len(regions) : here(p)} = {p \in DOMAIN regions : Inside(regions[p], a, 1)}
    BY <1>3, <1>6, <1>8, Zenon
  <2> QED  BY <1>5, <1>8, <2>1, Zenon
<1> QED  BY <1>7, <1>8, Zenon

\* The loop over one region: the overflow checks and the two tests of bounds let
\* through what is inside.
LEMMA TryInside ==
  ASSUME NEW c, NEW r \in [start : Nat, size : Nat], NEW kind \in Kinds, NEW addr \in Nat, NEW len \in Nat,
         len > 0
  PROVE  Try(c, r, kind, addr, len) = "ram" <=> Inside(r, addr, len)
<1>1. r.start \in Nat /\ r.size \in Nat
  BY Zenon
<1> DEFINE off == addr - r.start
           rest == IF off =< r.size THEN r.size - off ELSE WORD + r.size - off
<1>2. CASE addr < r.start
  BY <1>1, <1>2 DEF Try, Inside
<1>3. CASE addr >= r.start /\ off > r.size
  <2>1. ~InBounds(r, off, len)
    BY <1>1, <1>3 DEF InBounds
  <2>2. ~Inside(r, addr, len)
    BY <1>1, <1>3 DEF Inside
  <2>3. Try(c, r, kind, addr, len) # "ram"
    BY <1>1, <1>3, <2>1, Zenon DEF Try, Kinds
  <2> QED  BY <2>2, <2>3, Zenon
<1>4. CASE addr >= r.start /\ off =< r.size
  <2>1. rest = r.size - off
    BY <1>4, Zenon
  <2>2. CASE len > r.size - off
    <3>1. ~Inside(r, addr, len)
      BY <1>1, <1>4, <2>2 DEF Inside
    <3>2. Try(c, r, kind, addr, len) = "next"
      BY <1>1, <1>4, <2>2 DEF Try
    <3> QED  BY <3>1, <3>2, Zenon
  <2>3. CASE ~(len > r.size - off)
    <3>1. Inside(r, addr, len) /\ InBounds(r, off, len)
      BY <1>1, <1>4, <2>3 DEF Inside, InBounds
    <3>2. Try(c, r, kind, addr, len) = "ram"
      BY <1>1, <1>4, <2>3, <3>1 DEF Try
    <3> QED  BY <3>1, <3>2, Zenon
  <2> QED  BY <2>2, <2>3, Zenon
<1> QED  BY <1>1, <1>2, <1>3, <1>4

\* From the invariant: an access that is granted lies inside one region.
LEMMA AccessCovers == RamInv => AccessInside
<1> SUFFICES ASSUME RamInv, Len(regions) = 1, last.got # "none"
             PROVE  last.got = "ram" <=> Inside(regions[1], last.addr, last.len)
  BY Zenon DEF AccessInside
<1>1. /\ last.kind \in Kinds /\ last.addr \in DeviceAddresses /\ last.len \in 1 .. MaxLen
      /\ last.got = Outcome(checked, regions, last.kind, last.addr, last.len)
  BY DEF RamInv, NoAccess
<1>2. last.addr \in Nat /\ last.len \in Nat /\ last.len > 0
  BY <1>1, GuestMemoryAssumption DEF DeviceAddresses
<1>3. regions \in Seq([start : Nat, size : Nat])
  BY Zenon DEF RamInv
<1>4. DOMAIN regions = {1} /\ regions[1] \in [start : Nat, size : Nat]
  <2>1. DOMAIN regions = 1 .. Len(regions) /\ \A p \in 1 .. Len(regions) : regions[p] \in [start : Nat, size : Nat]
    BY <1>3, ElementOfSeq, LenProperties, Zenon
  <2>2. 1 .. 1 = {1}
    OBVIOUS
  <2> QED  BY <2>1, <2>2, Zenon
<1> DEFINE t == Try(checked, regions[1], last.kind, last.addr, last.len)
           hits == {p \in DOMAIN regions : Try(checked, regions[p], last.kind, last.addr, last.len) # "next"}
<1>5. last.got = IF hits = {} THEN "ignored"
                 ELSE Try(checked, regions[Min(hits)], last.kind, last.addr, last.len)
  BY <1>1, Zenon DEF Outcome
<1>6. t = "ram" <=> Inside(regions[1], last.addr, last.len)
  BY <1>1, <1>2, <1>4, TryInside
<1>7. CASE t = "next"
  <2>1. hits = {}
    BY <1>4, <1>7, Zenon
  <2> QED  BY <1>5, <1>6, <1>7, <2>1, Zenon
<1>8. CASE t # "next"
  <2>1. hits = {1}
    BY <1>4, <1>8, Zenon
  <2>2. Min({1}) = 1
    BY DEF Min
  <2>3. last.got = t
    <3> HIDE DEF hits
    <3> QED  BY <1>5, <2>1, <2>2, Zenon
  <2> QED  BY <1>6, <2>3, Zenon
<1> QED  BY <1>7, <1>8, Zenon

\* The invariant of guest memory holds throughout.
LEMMA RamHolds == RamSpec => []RamInv
BY RamStart, RamStep, PTL DEF RamSpec

\* new_mem: for any regions, and any place of the interrupt controllers' pages, the
\* guest finds in RAM what devices find there, and no RAM where there is none.
THEOREM SlotsAlwaysExact == RamSpec => []SlotsExact
BY RamHolds, SlotsCover, PTL

\* read_guest_memory_alloc and its kin: with one region, exactly the accesses that
\* lie in it reach RAM, in a build that checks overflow and in one that does not.
THEOREM AccessAlwaysInside == RamSpec => []AccessInside
BY RamHolds, AccessCovers, PTL

-----------------------------------------------------------------------------
(***************************************************************************)
(* MachineImage: the tables a guest follows from the RSDP are all in place *)
(* and readable. The invariant is the list of binaries at each place of    *)
(* the construction.                                                       *)
(***************************************************************************)

StartBinaries == <<Plain("stage2", 32256, machine.stage2),
                   Plain("firmware", 1048576, machine.firmware), Plain("reset", 65520, 5)>>
AllBinaries == <<Plain("stage2", 32256, machine.stage2),
                 Plain("firmware", 1048576, machine.firmware), Plain("reset", 65520, 5),
                 Plain("memmap", 28672, as_bytes(11)), dsdt, fadt, madt, rsdp, xsdt>>

\* The list of binaries at each place, and what CopyBinary has made sure of
ImageInv ==
  /\ machine \in Machines
  /\ image_pc \in {"memmap", "acpi", "copy", "run", "panic"}
  /\ image_pc = "memmap" => binaries = StartBinaries /\ copied = 0
  /\ image_pc = "acpi" => /\ binaries = Append(StartBinaries, Plain("memmap", 28672, as_bytes(11)))
                          /\ copied = 0
  /\ image_pc \in {"copy", "run"} =>
       /\ MadtNeeds <= 255 /\ binaries = AllBinaries /\ copied \in 0 .. 9
       /\ \A j \in 1 .. copied : binaries[j].offset < machine.mem_size => Whole(binaries[j])

\* The list spelled out
LEMMA NineBinaries ==
  ASSUME NEW a, NEW b, NEW c, NEW d, NEW e, NEW f, NEW g, NEW h, NEW m
  PROVE  Append(<<a, b, c>>, d) \o <<e, f, g, h, m>> = <<a, b, c, d, e, f, g, h, m>>
<1> DEFINE r == <<a, b, c>>
           s == Append(r, d)
           t == <<e, f, g, h, m>>
           u == <<a, b, c, d, e, f, g, h, m>>
           S == {a, b, c, d, e, f, g, h, m}
<1>1. /\ r \in Seq(S) /\ t \in Seq(S) /\ u \in Seq(S) /\ d \in S
      /\ Len(r) = 3 /\ Len(t) = 5 /\ Len(u) = 9
  BY SMT
<1>2. \A k \in 1 .. 9 : u[k] = IF k <= 3 THEN r[k] ELSE IF k = 4 THEN d ELSE t[k - 4]
  <2> TAKE k \in 1 .. 9
  <2>1. k = 1 \/ k = 2 \/ k = 3 \/ k = 4 \/ k = 5 \/ k = 6 \/ k = 7 \/ k = 8 \/ k = 9
    BY SMT
  <2> QED  BY SMT, <2>1
<1> HIDE DEF r, t, u, S
<1>3. /\ s \in Seq(S) /\ Len(s) = Len(r) + 1 /\ s[Len(r) + 1] = d
      /\ \A k \in 1 .. Len(r) : s[k] = r[k]
  <2>1. r \in Seq(S) /\ d \in S
    BY <1>1, Zenon
  <2>2. ASSUME NEW Q, NEW q \in Seq(Q), NEW x \in Q
        PROVE  /\ Append(q, x) \in Seq(Q) /\ Len(Append(q, x)) = Len(q) + 1
               /\ Append(q, x)[Len(q) + 1] = x /\ \A k \in 1 .. Len(q) : Append(q, x)[k] = q[k]
    BY SMT
  <2>3. s \in Seq(S) /\ Len(s) = Len(r) + 1
    BY <2>1, <2>2, Zenon
  <2>4. s[Len(r) + 1] = d
    BY <2>1, <2>2, Zenon
  <2>5. \A k \in 1 .. Len(r) : s[k] = r[k]
    BY <2>1, <2>2
  <2> QED  BY <2>3, <2>4, <2>5, Zenon
<1> HIDE DEF s
<1>4. /\ s \o t \in Seq(S) /\ Len(s \o t) = Len(s) + Len(t)
      /\ \A k \in 1 .. Len(s) + Len(t) : (s \o t)[k] = IF k <= Len(s) THEN s[k] ELSE t[k - Len(s)]
  BY <1>1, <1>3, ConcatProperties, Zenon
<1> DEFINE v == s \o t
<1> HIDE DEF v
<1>5. Len(s) = 4 /\ Len(v) = 9 /\ Len(u) = 9 /\ v \in Seq(S)
  BY <1>1, <1>3, <1>4 DEF v
<1>6. s[4] = d /\ \A k \in 1 .. 3 : s[k] = r[k]
  BY <1>1, <1>3
<1>7. \A k \in 1 .. 9 : v[k] = IF k <= 4 THEN s[k] ELSE t[k - 4]
  BY <1>1, <1>4, <1>5, Zenon DEF v
<1>8. \A k \in 1 .. 9 : v[k] = u[k]
  BY <1>2, <1>6, <1>7
<1>9. Len(v) = Len(u) /\ \A k \in 1 .. Len(v) : v[k] = u[k]
  BY <1>5, <1>8, Zenon
<1>10. v = u
  BY <1>1, <1>5, <1>9, SeqEqual, Zenon
<1> QED  BY <1>10, Zenon DEF r, s, t, u, v

\* The sizes in a configuration, and what the MADT needs for its vCPUs.
LEMMA MachineTypes ==
  ASSUME machine \in Machines
  PROVE  /\ machine.vcpus \in Nat /\ machine.vcpus <= 255 /\ machine.mem_size \in Nat /\ machine.checked \in BOOLEAN
         /\ machine.stage2 \in Nat /\ machine.stage2 <= 33264 /\ machine.firmware \in Nat /\ machine.dsdt \in Nat /\ machine.dsdt <= 129024
         /\ MadtNeeds \in Nat
<1>1. /\ machine.vcpus \in VcpuCounts /\ machine.mem_size \in MemSizes /\ machine.checked \in BOOLEAN
      /\ machine.stage2 \in Stage2Lens /\ machine.firmware \in FirmwareLens
      /\ machine.dsdt \in DsdtLens
  BY SMT DEF Machines
<1>2. machine.vcpus \in Nat /\ machine.vcpus <= 255
  BY SMT, <1>1, MachineImageAssumption
<1>4. machine.mem_size \in Nat
  <2>1. MemSizes \subseteq Nat
    BY SMT, MachineImageAssumption
  <2> QED  BY Zenon, <1>1, <2>1
<1>5. machine.firmware \in Nat
  <2>1. FirmwareLens \subseteq Nat
    BY SMT, MachineImageAssumption
  <2> QED  BY Zenon, <1>1, <2>1
<1>3. machine.stage2 \in Nat /\ machine.stage2 <= 33264 /\ machine.dsdt \in Nat /\ machine.dsdt <= 129024
  BY SMT, <1>1, MachineImageAssumption
<1> QED  BY SMT, <1>1, <1>2, <1>3, <1>4, <1>5 DEF MadtNeeds

\* Where the nine lie and how long they are
LEMMA AllPlaces ==
  ASSUME machine \in Machines, MadtNeeds <= 255
  PROVE  /\ DOMAIN AllBinaries = 1 .. 9 /\ Len(AllBinaries) = 9
         /\ AllBinaries[1].offset = 32256 /\ AllBinaries[1].len \in Nat /\ AllBinaries[1].len <= 33264
         /\ AllBinaries[2].offset = 1048576 /\ AllBinaries[2].len \in Nat
         /\ AllBinaries[3].offset = 65520 /\ AllBinaries[3].len = 5
         /\ AllBinaries[4].offset = 28672 /\ AllBinaries[4].len = 228
         /\ AllBinaries[5].offset = 919552 /\ AllBinaries[5].len \in Nat /\ AllBinaries[5].len <= 129024
         /\ AllBinaries[6].offset = 918528 /\ AllBinaries[6].len = 244
         /\ AllBinaries[7].offset = 918784 /\ AllBinaries[7].len \in Nat /\ AllBinaries[7].len <= 255
         /\ AllBinaries[8].offset = 917504 /\ AllBinaries[8].len = 36
         /\ AllBinaries[9].offset = 917728 /\ AllBinaries[9].len = 52
<1>1. MadtNeeds % 256 \in Nat /\ MadtNeeds % 256 <= 255
  BY SMT, MachineTypes
<1> USE DEF AllBinaries, Plain, Binary
<1>2. DOMAIN AllBinaries = 1 .. 9 /\ Len(AllBinaries) = 9
  BY SMT
<1>3. /\ AllBinaries[1].offset = 32256 /\ AllBinaries[1].len = machine.stage2
      /\ AllBinaries[2].offset = 1048576 /\ AllBinaries[2].len = machine.firmware
      /\ AllBinaries[3].offset = 65520 /\ AllBinaries[3].len = 5
  BY SMT
<1>4. /\ AllBinaries[4].offset = 28672 /\ AllBinaries[4].len = 228
      /\ AllBinaries[5].offset = 919552 /\ AllBinaries[5].len = machine.dsdt
      /\ AllBinaries[6].offset = 918528 /\ AllBinaries[6].len = 244
  BY SMT DEF as_bytes, dsdt, fadt
<1>5. /\ AllBinaries[7].offset = 918784 /\ AllBinaries[7].len = MadtNeeds % 256
      /\ AllBinaries[8].offset = 917504 /\ AllBinaries[8].len = 36
      /\ AllBinaries[9].offset = 917728 /\ AllBinaries[9].len = 52
  BY SMT DEF madt, rsdp, xsdt
<1> HIDE DEF AllBinaries, Plain, Binary
<1> QED  BY SMT, <1>1, <1>2, <1>3, <1>4, <1>5, MachineTypes

\* No two of the images put in RAM overlap while the MADT needs at most 255 bytes.
LEMMA AllApart ==
  ASSUME machine \in Machines, MadtNeeds <= 255, NEW j \in 1 .. 9, NEW k \in 1 .. 9, j # k
  PROVE  BytesApart(AllBinaries[j], AllBinaries[k])
<1>1. /\ j = 1 \/ j = 2 \/ j = 3 \/ j = 4 \/ j = 5 \/ j = 6 \/ j = 7 \/ j = 8 \/ j = 9
      /\ k = 1 \/ k = 2 \/ k = 3 \/ k = 4 \/ k = 5 \/ k = 6 \/ k = 7 \/ k = 8 \/ k = 9
  BY SMT
<1> QED  BY SMT, <1>1, AllPlaces DEF BytesApart

\* Names, header lengths and pointers of the tables
LEMMA AllTables ==
  ASSUME machine \in Machines, MadtNeeds <= 255
  PROVE  /\ AllBinaries[5].name = "DSDT" /\ AllBinaries[6].name = "FACP"
         /\ AllBinaries[7].name = "APIC" /\ AllBinaries[8].name = "RSDP"
         /\ AllBinaries[9].name = "XSDT"
         /\ \A k \in 1 .. 9 : AllBinaries[k].length = AllBinaries[k].len
         /\ \A k \in {1, 2, 3, 4, 5, 7} : AllBinaries[k].points = {}
         /\ AllBinaries[6].points = {<<"DSDT", 919552>>}
         /\ AllBinaries[8].points = {<<"XSDT", 917728>>}
         /\ AllBinaries[9].points = {<<"FACP", 918528>>, <<"APIC", 918784>>}
<1> USE DEF AllBinaries, Plain, Binary, dsdt, fadt, madt, rsdp, xsdt
<1>1. /\ AllBinaries[5].name = "DSDT" /\ AllBinaries[6].name = "FACP"
      /\ AllBinaries[7].name = "APIC" /\ AllBinaries[8].name = "RSDP"
      /\ AllBinaries[9].name = "XSDT"
  BY SMT
<1>2. \A k \in 1 .. 9 : AllBinaries[k].length = AllBinaries[k].len
  <2> TAKE k \in 1 .. 9
  <2>1. k = 1 \/ k = 2 \/ k = 3 \/ k = 4 \/ k = 5 \/ k = 6 \/ k = 7 \/ k = 8 \/ k = 9
    BY SMT
  <2> QED  BY SMT, <2>1
<1>3. \A k \in {1, 2, 3, 4, 5, 7} : AllBinaries[k].points = {}
  BY SMT
<1>4. /\ AllBinaries[6].points = {<<"DSDT", 919552>>}
      /\ AllBinaries[8].points = {<<"XSDT", 917728>>}
      /\ AllBinaries[9].points = {<<"FACP", 918528>>, <<"APIC", 918784>>}
  BY SMT
<1> HIDE DEF AllBinaries, Plain, Binary, dsdt, fadt, madt, rsdp, xsdt
<1> QED  BY SMT, <1>1, <1>2, <1>3, <1>4

\* Every table that one of the nine points to is there, whole, in the reserved span.
Reached(p) ==
  \E t \in DOMAIN AllBinaries :
    /\ AllBinaries[t].name = p[1] /\ AllBinaries[t].offset = p[2]
    /\ AllBinaries[t].length = AllBinaries[t].len
    /\ ReservedSpan.offset =< p[2]
    /\ p[2] + AllBinaries[t].len =< ReservedSpan.offset + ReservedSpan.len

\* Every pointer in an ACPI table points at an image that is put in place.
LEMMA AllReached ==
  ASSUME machine \in Machines, MadtNeeds <= 255,
         NEW k \in 1 .. 9, NEW p \in AllBinaries[k].points
  PROVE  Reached(p)
<1>1. ASSUME NEW t \in {5, 6, 7, 9}, p[1] = AllBinaries[t].name, p[2] = AllBinaries[t].offset
      PROVE  Reached(p)
  <2>1. /\ ReservedSpan.offset =< p[2] /\ t \in DOMAIN AllBinaries
        /\ p[2] + AllBinaries[t].len =< ReservedSpan.offset + ReservedSpan.len
    BY SMT, <1>1, AllPlaces DEF ReservedSpan
  <2>2. AllBinaries[t].length = AllBinaries[t].len
    BY SMT, AllTables
  <2> QED  BY SMT, <1>1, <2>1, <2>2 DEF Reached
<1>2. k \in {1, 2, 3, 4, 5, 7} \/ k = 6 \/ k = 8 \/ k = 9
  BY SMT
<1>3. CASE k = 6
  <2>1. p = <<"DSDT", 919552>>
    BY SMT, <1>3, AllTables
  <2> QED  BY SMT, <1>1, <2>1, AllTables, AllPlaces
<1>4. CASE k = 8
  <2>1. p = <<"XSDT", 917728>>
    BY SMT, <1>4, AllTables
  <2> QED  BY SMT, <1>1, <2>1, AllTables, AllPlaces
<1>5. CASE k = 9
  <2>1. p = <<"FACP", 918528>> \/ p = <<"APIC", 918784>>
    BY SMT, <1>5, AllTables
  <2> QED  BY SMT, <1>1, <2>1, AllTables, AllPlaces
<1> QED  BY SMT, <1>2, <1>3, <1>4, <1>5, AllTables

\* The invariant of the image holds before anything is copied.
LEMMA ImageStart == ImageInit => ImageInv
BY SMT DEF ImageInit, ImageInv, StartBinaries

\* Copying one more image keeps it.
LEMMA ImageStep == ImageInv /\ [ImageNext]_imageVars => ImageInv'
<1> SUFFICES ASSUME ImageInv, [ImageNext]_imageVars PROVE ImageInv'
  BY SMT
<1>1. CASE inject_memmap_binary
  <2>1. /\ image_pc = "memmap" /\ image_pc' = "acpi" /\ UNCHANGED <<machine, copied>>
        /\ binaries' = Append(binaries, Plain("memmap", 28672, as_bytes(11)))
    BY SMT, <1>1 DEF inject_memmap_binary
  <2>2. StartBinaries' = StartBinaries
    BY SMT, <2>1 DEF StartBinaries
  <2>3. machine \in Machines /\ binaries = StartBinaries /\ copied = 0
    BY SMT, <2>1 DEF ImageInv
  <2> QED  BY SMT, <2>1, <2>2, <2>3 DEF ImageInv
<1>2. CASE inject_acpi_tables
  <2>1. CASE (machine.checked /\ MadtNeeds > 255) \/ MadtNeeds > madt.len
    BY SMT, <1>2, <2>1 DEF inject_acpi_tables, ImageInv
  <2>2. CASE ~((machine.checked /\ MadtNeeds > 255) \/ MadtNeeds > madt.len)
    <3>1. MadtNeeds <= 255
      <4>1. MadtNeeds \in Nat
        BY SMT, MachineTypes DEF ImageInv
      <4>2. MadtNeeds % 256 \in Nat /\ MadtNeeds % 256 <= 255 /\ madt.len = MadtNeeds % 256
        BY SMT, <4>1 DEF madt, Binary
      <4> QED  BY SMT, <2>2, <4>1, <4>2
    <3>2. binaries' = AllBinaries
      <4>2. /\ binaries = Append(StartBinaries, Plain("memmap", 28672, as_bytes(11)))
            /\ binaries' = binaries \o <<dsdt, fadt, madt, rsdp, xsdt>>
        <5>1. image_pc = "acpi" /\ binaries' = binaries \o <<dsdt, fadt, madt, rsdp, xsdt>>
          BY <1>2, <2>2, Zenon DEF inject_acpi_tables
        <5> QED  BY SMT, <5>1 DEF ImageInv
      <4> QED  BY SMT, <4>2, NineBinaries DEF StartBinaries, AllBinaries
    <3>3. image_pc' = "copy" /\ UNCHANGED <<machine, copied>> /\ copied = 0
      BY SMT, <1>2, <2>2 DEF inject_acpi_tables, ImageInv
    <3>4. MadtNeeds' = MadtNeeds /\ AllBinaries' = AllBinaries
      BY SMT, <3>3 DEF MadtNeeds, AllBinaries, dsdt, fadt, madt, rsdp, xsdt
    <3> QED  BY SMT, <3>1, <3>2, <3>3, <3>4 DEF ImageInv
  <2> QED  BY SMT, <2>1, <2>2
<1>3. CASE CopyBinary
  <2>1. /\ image_pc = "copy" /\ binaries = AllBinaries /\ copied \in 0 .. 9 /\ copied < 9
        /\ UNCHANGED <<machine, binaries>> /\ MadtNeeds <= 255
    <3>1. image_pc = "copy" /\ copied < Len(binaries) /\ UNCHANGED <<machine, binaries>>
      BY SMT, <1>3 DEF CopyBinary
    <3>2. machine \in Machines /\ MadtNeeds <= 255 /\ binaries = AllBinaries /\ copied \in 0 .. 9
      BY SMT, <3>1 DEF ImageInv
    <3>3. Len(AllBinaries) = 9
      BY SMT, <3>2, AllPlaces
    <3> QED  BY SMT, <3>1, <3>2, <3>3
  <2>2. MadtNeeds' = MadtNeeds /\ AllBinaries' = AllBinaries
    BY SMT, <2>1 DEF MadtNeeds, AllBinaries, dsdt, fadt, madt, rsdp, xsdt
  <2> DEFINE b == binaries[copied + 1]
  <2>3. CASE b.offset < machine.mem_size /\ b.offset + b.len > machine.mem_size
    BY SMT, <1>3, <2>1, <2>3 DEF CopyBinary, ImageInv
  <2>4. CASE ~(b.offset < machine.mem_size /\ b.offset + b.len > machine.mem_size)
    <3>1. copied' = copied + 1 /\ UNCHANGED image_pc
      BY SMT, <1>3, <2>4 DEF CopyBinary
    <3>2. b.offset \in Nat /\ b.len \in Nat /\ machine.mem_size \in Nat
      <4>1. copied + 1 \in 1 .. 9
        BY SMT, <2>1
      <4>2. \A k \in 1 .. 9 : AllBinaries[k].offset \in Nat /\ AllBinaries[k].len \in Nat
        <5> TAKE k \in 1 .. 9
        <5>1. k = 1 \/ k = 2 \/ k = 3 \/ k = 4 \/ k = 5 \/ k = 6 \/ k = 7 \/ k = 8 \/ k = 9
          BY SMT
        <5> QED  BY SMT, <2>1, <5>1, AllPlaces DEF ImageInv
      <4> QED  BY SMT, <2>1, <4>1, <4>2, MachineTypes DEF ImageInv
    <3>3. b.offset < machine.mem_size => Whole(b)
      BY SMT, <2>4, <3>2 DEF Whole
    <3>4. \A j \in 1 .. copied' : binaries[j].offset < machine.mem_size => Whole(binaries[j])
      <4> TAKE j \in 1 .. copied'
      <4>1. j \in 1 .. copied \/ j = copied + 1
        BY SMT, <2>1, <3>1
      <4> QED  BY SMT, <2>1, <3>3, <4>1 DEF ImageInv
    <3>5. \A j \in 1 .. copied' : (binaries[j].offset < machine.mem_size => Whole(binaries[j]))'
      BY SMT, <2>1, <3>4 DEF Whole
    <3> QED  BY SMT, <2>1, <2>2, <3>1, <3>5 DEF ImageInv
  <2> QED  BY SMT, <2>3, <2>4
<1>4. CASE ImageDone \/ UNCHANGED imageVars
  <2>1. /\ UNCHANGED <<machine, binaries, copied>>
        /\ UNCHANGED image_pc \/ (image_pc = "copy" /\ image_pc' = "run")
    BY SMT, <1>4 DEF ImageDone, imageVars
  <2>2. MadtNeeds' = MadtNeeds /\ AllBinaries' = AllBinaries /\ StartBinaries' = StartBinaries
    BY SMT, <2>1 DEF MadtNeeds, AllBinaries, StartBinaries, dsdt, fadt, madt, rsdp, xsdt
  <2> QED  BY SMT, <2>1, <2>2 DEF ImageInv, Whole
<1> QED  BY SMT, <1>1, <1>2, <1>3, <1>4 DEF ImageNext

\* For every number of vCPUs a u8 holds, every size of memory and every length of the
\* three files, with and without overflow checks: what gets copied stays whole, and
\* every ACPI table is reached from the address the firmware publishes.
THEOREM TablesAlwaysReadable == ImageSpec => []TablesReadable
<1>1. ImageInv => TablesReadable
  <2> SUFFICES ASSUME ImageInv, image_pc \in {"copy", "run"}, machine.mem_size > 1048576
               PROVE  TablesReadable
    BY SMT DEF TablesReadable
  <2>1. /\ machine \in Machines /\ MadtNeeds <= 255 /\ binaries = AllBinaries /\ copied \in 0 .. 9
        /\ \A j \in 1 .. copied : binaries[j].offset < machine.mem_size => Whole(binaries[j])
    BY SMT DEF ImageInv
  <2>2. \A j \in 1 .. 9 : AllBinaries[j].offset < machine.mem_size
    <3> TAKE j \in 1 .. 9
    <3>1. j = 1 \/ j = 2 \/ j = 3 \/ j = 4 \/ j = 5 \/ j = 6 \/ j = 7 \/ j = 8 \/ j = 9
      BY SMT
    <3> QED  BY SMT, <2>1, <3>1, AllPlaces, MachineTypes
  <2>3. \A j \in 1 .. copied : Whole(binaries[j])
    BY SMT, <2>1, <2>2
  <2>4. DOMAIN binaries = 1 .. 9
    BY SMT, <2>1, AllPlaces
  <2>5. \A j, k \in DOMAIN binaries : j # k => BytesApart(binaries[j], binaries[k])
    BY SMT, <2>1, <2>4, AllApart
  <2>6. \E k \in DOMAIN binaries : binaries[k].name = "RSDP" /\ binaries[k].offset = RootTable
    BY SMT, <2>1, <2>4, AllPlaces, AllTables DEF RootTable
  <2>7. \A k \in DOMAIN binaries : \A p \in binaries[k].points : Reached(p)
    BY SMT, <2>1, <2>4, AllReached
  <2> QED  BY SMT, <2>1, <2>3, <2>5, <2>6, <2>7 DEF TablesReadable, Reached
<1> QED  BY ImageStart, ImageStep, <1>1, PTL DEF ImageSpec

-----------------------------------------------------------------------------
(***************************************************************************)
(* VmThreads: nobody waits in a circle. The inductive invariant is a lock  *)
(* order; it also says who may hold a leaf lock.                           *)
(***************************************************************************)

LockOrder ==
  \A t \in Thread :
    /\ held[t] # {} /\ want[t] # none => held[t] \subseteq Outer /\ want[t] \in Leaf
    /\ want[t] \in Outer => t \in Vcpus \cup {"tick"}
    /\ t = "tick" /\ want[t] = "window" => held[t] # {}

IInv == TypeOK /\ LockOrder /\ PanicContained

-----------------------------------------------------------------------------
\* The locks a handler may take under a device map are leaves.
LEMMA InnerIsLeaf == \A l \in Outer : Inner(l) \subseteq Leaf
BY DEF Outer, Inner, Leaf

\* The outer and the leaf locks are disjoint sets of locks.
LEMMA LockFacts ==
  /\ Outer \subseteq Lock /\ Leaf \subseteq Lock
  /\ Outer \cap Leaf = {}
  /\ none \notin Lock
BY DEF Outer, Leaf, Lock, none

\* The threads: the vCPUs, the tick, the keyboard and main.
LEMMA ThreadFacts ==
  /\ "tick" \in Thread /\ "main" \in Thread /\ "keyboard" \in Thread
  /\ Vcpus \subseteq Thread
  /\ "main" \notin Vcpus \cup {"tick"} /\ "keyboard" \notin Vcpus \cup {"tick"}
BY VcpuAssumption DEF Thread

\* No lock is held at the start.
LEMMA InitIInv == Init => IInv
BY ThreadFacts, Zenon DEF Init, IInv, TypeOK, LockOrder, PanicContained, Lock, Outer, Leaf, none

\* A panic: the tick thread's is about a device map, the main thread's about
\* the window.
LEMMA DieStep ==
  ASSUME IInv, NEW t \in Thread, Die(t),
         held[t] \subseteq Outer \cup {"memory", "window"},
         t = "main" => "window" \in poisoned \cup held[t],
         t = "tick" => (poisoned \cup held[t]) \cap Outer # {}
  PROVE  IInv'
<1> USE DEF IInv
<1>2. TypeOK'
  BY LockFacts DEF TypeOK, Die
<1>3. LockOrder'
  BY LockFacts DEF LockOrder, none, TypeOK, Die
<1>4. PanicContained'
  BY ThreadFacts DEF PanicContained, TypeOK, Die
<1> QED
  BY <1>2, <1>3, <1>4

\* A step that only makes an idle thread, or a handler, wait for a lock.
LEMMA AskStep ==
  ASSUME IInv, NEW t \in Thread, NEW l \in Lock, Ask(t, l),
         l \in Outer => t \in Vcpus \cup {"tick"},
         held[t] # {} => held[t] \subseteq Outer /\ l \in Leaf,
         t = "tick" /\ l = "window" => held[t] # {},
         UNCHANGED <<held, alive, poisoned, tick_at, commands, batch, running>>
  PROVE  IInv'
<1> USE DEF IInv
<1>1. TypeOK'
  BY DEF TypeOK, Ask
<1>2. LockOrder'
  BY SMTT(30) DEF LockOrder, TypeOK, Ask
<1>3. PanicContained'
  BY DEF PanicContained
<1> QED
  BY <1>1, <1>2, <1>3

\* A step by which a thread that waits for nothing gives locks back.
LEMMA ReleaseStep ==
  ASSUME IInv, NEW t \in Thread, want[t] = none, NEW H \in SUBSET held[t],
         held' = [held EXCEPT ![t] = H],
         tick_at' \in {"mmio_map", "io_map", "irq_handler", "vm"},
         commands' \in BOOLEAN, batch' \in BOOLEAN, running' \in BOOLEAN,
         UNCHANGED <<want, alive, poisoned>>
  PROVE  IInv'
<1> USE DEF IInv
<1>1. TypeOK'
  BY DEF TypeOK
<1>2. LockOrder'
  BY DEF LockOrder, TypeOK, none
<1>3. PanicContained'
  BY DEF PanicContained
<1> QED
  BY <1>1, <1>2, <1>3

\* Taking a mutex keeps the lock order.
LEMMA AcquireStep ==
  ASSUME IInv, NEW t \in Thread, Acquire(t)
  PROVE  IInv'
<1> USE DEF IInv
<1>1. want[t] \in Lock
  BY DEF Acquire, TypeOK
<1>2. TypeOK'
  BY <1>1 DEF TypeOK, Acquire, Free
<1>3. LockOrder'
  BY LockFacts DEF LockOrder, TypeOK, Acquire
<1>4. PanicContained'
  BY DEF PanicContained, Acquire
<1> QED
  BY <1>2, <1>3, <1>4

\* Guest memory is recovered by everyone, so the poisoned lock is a device map,
\* which only the tick thread unwraps, or the window.
LEMMA UnwrapStep ==
  ASSUME IInv, NEW t \in Thread, UnwrapPanics(t)
  PROVE  IInv'
<1>1. want[t] \in (Outer \cup {"window"}) \cap poisoned /\ want[t] # none /\ Die(t)
  BY DEF UnwrapPanics, IInv, PanicContained, Recovers
<1>2. held[t] \subseteq Outer
  BY <1>1 DEF IInv, LockOrder
<1>3. CASE want[t] \in Outer
  <2>1. t \in Vcpus \cup {"tick"}
    BY <1>3 DEF IInv, LockOrder
  <2> QED
    BY <1>1, <1>2, <1>3, <2>1, ThreadFacts, DieStep
<1>4. CASE want[t] = "window"
  <2>1. t = "tick" => held[t] # {}
    BY <1>4 DEF IInv, LockOrder
  <2> QED
    BY <1>1, <1>2, <1>4, <2>1, DieStep
<1> QED
  BY <1>1, <1>3, <1>4

\* Every step of every thread keeps the lock order and contains panics.
LEMMA StepIInv == IInv /\ [Next]_vars => IInv'
<1> SUFFICES ASSUME IInv, [Next]_vars PROVE IInv'
  OBVIOUS
<1>0. TypeOK
  BY DEF IInv
<1>1. ASSUME NEW t \in Thread, Granted(t) PROVE IInv'
  BY <1>1, AcquireStep, UnwrapStep DEF Granted
<1>2. ASSUME NEW t \in Vcpus \cup {"keyboard"}, ProcessExit(t) PROVE IInv'
  <2>1. t \in Thread /\ want[t] = none /\ held' = [held EXCEPT ![t] = held[t]]
    BY <1>0, <1>2, ThreadFacts DEF ProcessExit, TypeOK
  <2> QED
    BY <1>0, <1>2, <2>1, ReleaseStep, Zenon DEF ProcessExit, TypeOK
<1>3. ASSUME NEW v \in Vcpus, NEW l \in Outer, VcpuExit(v, l) PROVE IInv'
  <2>1. l # "window" /\ l \in Lock
    BY LockFacts DEF Outer
  <2> QED
    BY <1>3, <2>1, AskStep, ThreadFacts DEF VcpuExit, Idle
<1>4. ASSUME NEW t \in Vcpus \cup {"tick"}, NEW l \in Outer, HandlerPanics(t, l)
      PROVE  IInv'
  <2>1. t \in Thread /\ t # "main"
    BY ThreadFacts
  <2>2. held[t] \subseteq Outer \cup {"memory", "window"} /\ held[t] \cap Outer # {} /\ Die(t)
    BY <1>4 DEF HandlerPanics
  <2> QED
    BY <2>1, <2>2, DieStep
<1>5. ASSUME NEW t \in Vcpus \cup {"tick"}, NEW l \in Outer, NEW m \in Leaf,
             HandlerAsks(t, l, m)
      PROVE  IInv'
  <2>1. held[t] = {l} /\ Ask(t, m) /\ t \in Thread
    BY <1>5, ThreadFacts DEF HandlerAsks, Handling
  <2> QED
    BY <1>5, <2>1, AskStep, LockFacts DEF HandlerAsks
<1>6. ASSUME NEW t \in Vcpus \cup {"tick"}, NEW l \in Outer, NEW m \in Leaf,
             HandlerReleases(t, l, m)
      PROVE  IInv'
  <2>1. t \in Thread /\ want[t] = none /\ {l} \in SUBSET held[t]
        /\ held' = [held EXCEPT ![t] = {l}]
    BY <1>6, ThreadFacts DEF HandlerReleases
  <2>2. commands' \in BOOLEAN
    BY <1>6 DEF HandlerReleases
  <2> QED
    BY <1>0, <1>6, <2>1, <2>2, ReleaseStep, Zenon DEF HandlerReleases, TypeOK
<1>7. ASSUME NEW v \in Vcpus, NEW l \in Outer, VcpuResumes(v, l) PROVE IInv'
  BY <1>0, <1>7, ReleaseStep, ThreadFacts, Zenon DEF VcpuResumes, Handling, TypeOK
<1>8. CASE TickAsks
  <2>1. tick_at \in Lock \ {"window"} /\ held["tick"] = {} /\ "tick" \in Thread
    BY <1>0, <1>8, ThreadFacts DEF TickAsks, Idle, TypeOK, Lock, Outer, Leaf
  <2> QED
    BY <1>8, <2>1, AskStep DEF TickAsks
<1>9. CASE TickSleeps
  <2>1. "tick" \in Thread /\ want["tick"] = none
        /\ held' = [held EXCEPT !["tick"] = held["tick"]]
    BY <1>0, <1>9, ThreadFacts DEF TickSleeps, Idle, TypeOK
  <2> QED
    BY <1>0, <1>9, <2>1, ReleaseStep, Zenon DEF TickSleeps, TypeOK
<1>10. ASSUME NEW l \in Outer \cup {"irq_handler", "vm"}, TickReleases(l) PROVE IInv'
  <2>1. "tick" \in Thread /\ want["tick"] = none
        /\ held' = [held EXCEPT !["tick"] = {}]
    BY <1>10, ThreadFacts DEF TickReleases, Handling
  <2>2. tick_at' \in {"mmio_map", "io_map", "irq_handler", "vm"}
    BY <1>10 DEF TickReleases, Outer
  <2>3. commands' \in BOOLEAN /\ batch' \in BOOLEAN
    BY <1>0, <1>10, Zenon DEF TickReleases, TypeOK
  <2> QED
    BY <1>0, <1>10, <2>1, <2>2, <2>3, ReleaseStep, Zenon DEF TickReleases, TypeOK
<1>11. ASSUME NEW t \in Thread, NEW l \in Leaf, LoopAsks(t, l) PROVE IInv'
  BY <1>11, AskStep, LockFacts DEF LoopAsks, Loops, Idle
<1>12. ASSUME NEW t \in Thread, NEW l \in Leaf, LoopReleases(t, l) PROVE IInv'
  <2>1. want[t] = none /\ held' = [held EXCEPT ![t] = {}] /\ running' \in BOOLEAN
    BY <1>12, Zenon DEF LoopReleases, Handling
  <2> QED
    BY <1>0, <1>12, <2>1, ReleaseStep, Zenon DEF LoopReleases, TypeOK
<1>13. CASE Exited \/ UNCHANGED vars
  BY <1>13, SMTT(30) DEF Exited, vars, IInv, TypeOK, LockOrder, PanicContained
<1>14. CASE KeyboardFails
  BY <1>14, ThreadFacts, DieStep DEF KeyboardFails, Idle
<1> QED
  BY <1>1, <1>2, <1>3, <1>4, <1>5, <1>6, <1>7, <1>8, <1>9, <1>10, <1>11, <1>12, <1>13, <1>14
     DEF Next, Handler

\* The lock order rules out a circle: a thread of the circle that is waited
\* for holds a device map and waits for a leaf, and whoever holds a leaf waits
\* for nothing.
LEMMA OrderMeansNoCircle == TypeOK /\ LockOrder => NoCircularWait
<1> SUFFICES ASSUME TypeOK, LockOrder, NEW S \in SUBSET Thread, S # {},
                    \A t \in S : \E u \in S : want[t] \in held[u]
             PROVE  FALSE
  BY DEF NoCircularWait
<1>1. PICK t \in S : TRUE
  OBVIOUS
<1>2. PICK u \in S : want[t] \in held[u]
  BY <1>1
<1>3. PICK w \in S : want[u] \in held[w]
  BY <1>2
<1>4. PICK x \in S : want[w] \in held[x]
  BY <1>3
<1>5. want[u] # none /\ want[w] # none
  BY <1>3, <1>4, LockFacts DEF TypeOK
<1>6. want[u] \in Leaf
  BY <1>2, <1>5 DEF LockOrder
<1>7. held[w] \subseteq Outer
  BY <1>3, <1>5 DEF LockOrder
<1> QED
  BY <1>3, <1>6, <1>7, LockFacts

-----------------------------------------------------------------------------
\* Types, and mutual exclusion of every mutex.
THEOREM TypeCorrect == Spec => []TypeOK
<1>1. IInv => TypeOK
  BY DEF IInv
<1> QED
  BY <1>1, InitIInv, StepIInv, PTL DEF Spec

\* No two or more threads of the monitor ever wait for each other.
THEOREM DeadlockFree == Spec => []NoCircularWait
<1>1. IInv => NoCircularWait
  BY OrderMeansNoCircle DEF IInv
<1> QED
  BY <1>1, InitIInv, StepIInv, PTL DEF Spec

\* A panicking handler takes down its own thread and poisons device maps, guest
\* memory or the window; the main thread falls to the window only.
THEOREM PanicsContained == Spec => []PanicContained
<1>1. IInv => PanicContained
  BY DEF IInv
<1> QED
  BY <1>1, InitIInv, StepIInv, PTL DEF Spec
=============================================================================
