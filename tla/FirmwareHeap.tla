---------------------------- MODULE FirmwareHeap ----------------------------
(***************************************************************************)
(* The firmware's heap (src/guest/firmware/mem/heap.c), from which the     *)
(* UEFI pool, events and handle buffers come: blocks with a header, a list *)
(* of freed blocks searched first fit, and otherwise a bump pointer.  The  *)
(* heap is single-threaded; callers free what they were given, once.       *)
(***************************************************************************)
EXTENDS Naturals, Sequences

CONSTANTS
  HEAP_START, HEAP_END,
  Sizes                   \* sizes callers ask for

HDR == 16                 \* sizeof(struct heap_hdr)

ASSUME FirmwareHeapAssumption ==
  /\ HEAP_START \in Nat /\ HEAP_END \in Nat /\ HEAP_START =< HEAP_END
  /\ Sizes \subseteq Nat

VARIABLES
  heap_ptr,
  free_list,   \* addresses of the headers of free blocks
  size,        \* address of a header -> the size it holds
  live,        \* headers of blocks given out
  asked        \* address of a header -> bytes its user asked for

vars == <<heap_ptr, free_list, size, live, asked>>

Addresses == HEAP_START .. HEAP_END

Init ==
  /\ heap_ptr = HEAP_START /\ free_list = <<>> /\ live = {}
  /\ size = [a \in Addresses |-> 0] /\ asked = [a \in Addresses |-> 0]

-----------------------------------------------------------------------------
\* Header and data, rounded up to eight bytes
Needed(n) == 8 * ((HDR + n + 7) \div 8)

\* The list without its i-th member
Unlink(i) ==
  [j \in 1 .. Len(free_list) - 1 |-> IF j < i THEN free_list[j] ELSE free_list[j + 1]]

Fits(i, n) == size[free_list[i]] >= Needed(n)

\* malloc finds the first block of the list that is large enough ...
Reuse(n, i) ==
  /\ Fits(i, n) /\ \A j \in 1 .. i - 1 : ~Fits(j, n)
  /\ free_list' = Unlink(i)
  /\ live' = live \cup {free_list[i]}
  /\ asked' = [asked EXCEPT ![free_list[i]] = n]
  /\ UNCHANGED <<heap_ptr, size>>

\* ... or takes a new one, unless it would pass the end of the heap
\* (then it returns NULL).
Bump(n) ==
  /\ \A j \in 1 .. Len(free_list) : ~Fits(j, n)
  /\ heap_ptr + Needed(n) =< HEAP_END
  /\ size' = [size EXCEPT ![heap_ptr] = Needed(n)]
  /\ heap_ptr' = heap_ptr + Needed(n)
  /\ live' = live \cup {heap_ptr}
  /\ asked' = [asked EXCEPT ![heap_ptr] = n]
  /\ UNCHANGED free_list

malloc(n) == Bump(n) \/ \E i \in 1 .. Len(free_list) : Reuse(n, i)

FreeKeepsLive(h) ==
  /\ h \in live /\ Len(free_list) < 4
  /\ free_list' = <<h>> \o free_list
  /\ UNCHANGED <<heap_ptr, size, live, asked>>
free(h) ==
  /\ h \in live
  /\ free_list' = <<h>> \o free_list
  /\ live' = live \ {h}
  /\ asked' = [asked EXCEPT ![h] = 0]
  /\ UNCHANGED <<heap_ptr, size>>

Next == (\E n \in Sizes : malloc(n)) \/ (\E h \in live : free(h))
Spec == Init /\ [][Next]_vars

-----------------------------------------------------------------------------
Free == {free_list[i] : i \in 1 .. Len(free_list)}
Blocks == live \cup Free

\* Type invariant.
TypeOK ==
  /\ heap_ptr \in Addresses /\ free_list \in Seq(Addresses)
  /\ size \in [Addresses -> Nat] /\ live \subseteq Addresses /\ asked \in [Addresses -> Nat]

\* The bytes a caller was given lie in the heap and overlap neither the header
\* nor the bytes of any other block, given out or free.
LiveApart ==
  \A h \in live :
    /\ HEAP_START =< h /\ h + HDR + asked[h] =< HEAP_END
    /\ \A g \in Blocks : g # h => (h + HDR + asked[h] =< g \/ g + size[g] =< h)

\* No memory is lost: below the bump pointer every byte is in a block that is
\* given out or can be given out again.
Tiled == \A a \in HEAP_START .. heap_ptr - 1 : \E h \in Blocks : h =< a /\ a < h + size[h]

\* What the two rest on: whole blocks lie apart below the bump pointer, each at
\* most once in the list and not there while it is given out.
BlocksApart ==
  /\ \A h \in Blocks : size[h] >= HDR /\ h + size[h] =< heap_ptr
  /\ \A g, h \in Blocks : g # h => (h + size[h] =< g \/ g + size[g] =< h)
  /\ \A h \in live : HDR + asked[h] =< size[h]
  /\ \A i \in 1 .. Len(free_list) :
       /\ free_list[i] \notin live
       /\ \A j \in 1 .. Len(free_list) : free_list[i] = free_list[j] => i = j
=============================================================================
