----------------------------- MODULE GuestMemory -----------------------------
(***************************************************************************)
(* Guest RAM as the host sets it up and reaches it: new_mem of             *)
(* src/src/vm/builder.rs, which registers each region with KVM as slots    *)
(* around the pages of the interrupt controllers, and the accesses of      *)
(* devices through VirtioGuestMemoryHandle (devices/virtio/virtio.rs) and  *)
(* MemoryRegion (machine_config/memory_region.rs).                         *)
(*                                                                         *)
(* Addresses are machine words below WORD, counted in pages.  Subtraction  *)
(* below zero panics in a build that checks overflow and wraps in one that *)
(* does not.                                                               *)
(***************************************************************************)
EXTENDS Naturals, Sequences, FiniteSetsExt

CONSTANTS
  WORD,                       \* 2^64
  RamTop,                     \* bound: end of the highest region
  IOAPIC_START, IOAPIC_END, LAPIC_START, LAPIC_END,
  MaxRegions,                 \* bound: memory_regions of the machine configuration
  MaxLen                      \* bound: length of an access

ASSUME GuestMemoryAssumption ==
  /\ WORD \in Nat \ {0} /\ RamTop \in 0 .. WORD - 1 /\ MaxLen \in Nat
  /\ IOAPIC_START \in Nat /\ IOAPIC_END \in Nat /\ LAPIC_START \in Nat /\ LAPIC_END \in Nat
  /\ IOAPIC_START < IOAPIC_END /\ IOAPIC_END =< LAPIC_START /\ LAPIC_START < LAPIC_END

DeviceAddresses == 0 .. WORD - 1
Kinds == {"alloc", "word", "write"}

VARIABLES
  regions,    \* memory_regions: <<[start, size], ...>>
  slots,      \* KVM's memory slots
  checked,    \* whether the build checks overflow
  started,    \* the configuration was taken: FALSE, TRUE, or a panic before
  last        \* the last access of a device: what it asked for, what came of it

ramVars == <<regions, slots, checked, started, last>>

NoAccess == [kind |-> "none", addr |-> 0, len |-> 0, got |-> "none"]

RamInit ==
  /\ regions = <<>> /\ slots = {} /\ checked \in BOOLEAN
  /\ started = "no" /\ last = NoAccess

-----------------------------------------------------------------------------
(* new_mem *)

Holes == <<[start |-> IOAPIC_START, end |-> IOAPIC_END],
           [start |-> LAPIC_START, end |-> LAPIC_END]>>

Pieces(seg, hole) ==
  IF hole.start >= seg.end \/ hole.end =< seg.start THEN {seg}
  ELSE {s \in {[start |-> seg.start, end |-> hole.start], [start |-> hole.end, end |-> seg.end]} :
          s.start < s.end}

Carve(segs, hole) == UNION {Pieces(seg, hole) : seg \in segs}
Segments(start, end) == Carve(Carve({[start |-> start, end |-> end]}, Holes[1]), Holes[2])

NewSlotsSameBase(i, start, size) ==
  {[start |-> seg.start, end |-> seg.end, region |-> i, offset |-> 0] :
     seg \in Segments(start, start + size)}
\* What set_user_memory_region is given: each segment with the place in the
\* region's mapping that backs it.
NewSlots(i, start, size) ==
  {[start |-> seg.start, end |-> seg.end, region |-> i, offset |-> seg.start - start] :
     seg \in Segments(start, start + size)}

Apart(start, size, r) == start + size =< r.start \/ r.start + r.size =< start

\* KVM takes no second mapping for a slot in use: it answers with an error, and
\* unwrap panics.  Each region starts at slot 0.
new_mem(start, size) ==
  LET new == NewSlots(Len(regions) + 1, start, size)
  IN  /\ started = "no" /\ Len(regions) < MaxRegions
      /\ \A i \in DOMAIN regions : Apart(start, size, regions[i])
      /\ regions' = Append(regions, [start |-> start, size |-> size])
      /\ IF slots # {} /\ new # {}
           THEN started' = "panic" /\ UNCHANGED slots
           ELSE slots' = slots \cup new /\ UNCHANGED started
      /\ UNCHANGED <<checked, last>>

Start ==
  /\ started = "no" /\ regions # <<>>
  /\ started' = "yes" /\ UNCHANGED <<regions, slots, checked, last>>

-----------------------------------------------------------------------------
(* Accesses of devices *)

InBounds(r, off, len) == off =< r.size /\ len =< r.size - off

\* What the loop over the regions makes of region r, in a build that checks
\* overflow or not.
TryAddsUp(checks, r, kind, addr, len) ==
  IF addr >= r.start /\ (addr + len) % WORD =< r.start + r.size THEN "ram" ELSE "next"
Try(checks, r, kind, addr, len) ==
  LET off == addr - r.start
      rest == IF off =< r.size THEN r.size - off ELSE WORD + r.size - off
  IN  CASE addr < r.start -> "next"
        [] addr >= r.start /\ off > r.size /\ checks -> "panic"
        [] addr >= r.start /\ (off =< r.size \/ ~checks) /\ len > rest -> "next"
        [] OTHER -> IF InBounds(r, off, len) THEN "ram"
                    ELSE CASE kind = "alloc" -> "next"
                           [] kind = "word" -> "panic"
                           [] kind = "write" -> "ignored"

Outcome(checks, rs, kind, addr, len) ==
  LET hits == {i \in DOMAIN rs : Try(checks, rs[i], kind, addr, len) # "next"}
  IN  IF hits = {} THEN "ignored" ELSE Try(checks, rs[Min(hits)], kind, addr, len)

\* read_guest_memory_alloc, read_u8 to read_u64, and the writes.  What reaches no
\* RAM reads as zeros or is not written.
Access(kind, addr, len) ==
  /\ started = "yes" /\ len > 0
  /\ last' = [kind |-> kind, addr |-> addr, len |-> len,
              got |-> Outcome(checked, regions, kind, addr, len)]
  /\ UNCHANGED <<regions, slots, checked, started>>

\* The process has ended.
Panicked == started = "panic" /\ UNCHANGED ramVars

RamNext ==
  \/ \E start \in 0 .. RamTop : \E size \in 1 .. RamTop - start : new_mem(start, size)
  \/ Start \/ Panicked
  \/ \E kind \in Kinds, addr \in DeviceAddresses, len \in 1 .. MaxLen : Access(kind, addr, len)

RamSpec == RamInit /\ [][RamNext]_ramVars

-----------------------------------------------------------------------------
Inside(r, addr, len) == addr >= r.start /\ addr + len =< r.start + r.size
InHole(a) == \E k \in 1 .. 2 : Holes[k].start =< a /\ a < Holes[k].end

\* Where the guest's own access to address a ends up
GuestSees(a) ==
  {<<s.region, s.offset + a - s.start>> : s \in {s \in slots : s.start =< a /\ a < s.end}}

\* In a machine that starts, the guest finds in every address of a region the
\* byte that devices find there, and no RAM at the addresses of the interrupt
\* controllers and outside the regions.
SlotsExact ==
  started = "yes" =>
    \A a \in DeviceAddresses :
      GuestSees(a) = IF InHole(a) THEN {}
                     ELSE {<<i, a - regions[i].start>> :
                             i \in {i \in DOMAIN regions : Inside(regions[i], a, 1)}}

\* With one region, a device's access reaches RAM exactly when all of it lies in
\* the region, for lengths that would run past the last address too.
AccessInside ==
  (Len(regions) = 1 /\ last.got # "none") =>
    (last.got = "ram" <=> Inside(regions[1], last.addr, last.len))
=============================================================================
