----------------------------- MODULE BufferQueue -----------------------------
(***************************************************************************)
(* What a virtqueue promises to its two users, with no rings and no        *)
(* indices: the driver's buffers go round one loop, own -> offered ->      *)
(* held -> returned -> own, in first-in first-out order, and each carries  *)
(* back the length the device gave it.  VirtQueue implements this.         *)
(***************************************************************************)
EXTENDS Naturals, Sequences

CONSTANTS
  Size,   \* number of buffers, descriptor indices 0 .. Size - 1
  Lens    \* lengths the device may report

VARIABLES
  own,       \* buffers the driver holds, in the order it will post them
  offered,   \* published on the avail ring, not yet popped
  held,      \* popped by the device, not yet pushed (at most one)
  returned   \* published on the used ring, not yet seen by the driver

bqVars == <<own, offered, held, returned>>

BQInit ==
  /\ own = [i \in 1..Size |-> i - 1]
  /\ offered = <<>> /\ held = <<>> /\ returned = <<>>

Offer ==
  /\ own # <<>>
  /\ offered' = Append(offered, Head(own))
  /\ own' = Tail(own)
  /\ UNCHANGED <<held, returned>>

Take ==
  /\ held = <<>> /\ offered # <<>>
  /\ held' = <<Head(offered)>>
  /\ offered' = Tail(offered)
  /\ UNCHANGED <<own, returned>>

Return(len) ==
  /\ held # <<>>
  /\ returned' = Append(returned, [id |-> Head(held), len |-> len])
  /\ held' = <<>>
  /\ UNCHANGED <<own, offered>>

Reclaim ==
  /\ own = <<>> /\ returned # <<>>
  /\ own' = <<Head(returned).id>>
  /\ returned' = Tail(returned)
  /\ UNCHANGED <<offered, held>>

BQNext == Offer \/ Take \/ Reclaim \/ \E len \in Lens : Return(len)

BQSpec == BQInit /\ [][BQNext]_bqVars
==============================================================================
