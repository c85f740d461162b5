------------------------------ MODULE VirtQueue ------------------------------
(***************************************************************************)
(* One split virtqueue in guest memory, between VirtioQueue                *)
(* (src/src/devices/virtio/virtio.rs) on the device side and the receive   *)
(* side of the firmware's net driver (src/guest/firmware/virtio/net.c),    *)
(* the driver of the repository that keeps a whole ring in flight.         *)
(*                                                                         *)
(* A vCPU runs the driver; another vCPU or the tick thread runs the        *)
(* device under the device map's lock.  Nothing orders the two but the     *)
(* ring indices, so each access to shared memory is a step.                *)
(***************************************************************************)
EXTENDS Naturals, Sequences, FiniteSets

CONSTANTS
  Size,     \* VirtioQueue.size, QUEUE_SIZE of the driver
  IdxMod,   \* 2^16: the ring indices are u16 and wrap
  Lens      \* lengths a device reports in a used element

ASSUME QueueAssumption ==
  /\ Size \in Nat \ {0}
  /\ IdxMod \in Nat
  /\ Size < IdxMod
  /\ IdxMod % Size = 0

VARIABLES
  avail_ring, avail_idx,               \* driver area of guest memory
  used_ring, used_idx,                 \* device area of guest memory
  rx_avail_idx, rx_last_used, own,     \* driver: own is what it has to post
  last_avail_idx, last_used_idx,       \* device: VirtioQueue
  dev_pc, head, len                    \* device: where it is in its loop

driverVars == <<rx_avail_idx, rx_last_used, own>>
deviceVars == <<last_avail_idx, last_used_idx, dev_pc, head, len>>
vars == <<avail_ring, avail_idx, used_ring, used_idx, driverVars, deviceVars>>

Desc == 0..(Size - 1)
Idx == 0..(IdxMod - 1)

\* u16::wrapping_add(1), and the driver's uint16_t ++
wrapping_add(i) == (i + 1) % IdxMod

slot(i) == i % Size

\* virtio_net_init posts buffers 0 .. QUEUE_SIZE - 1 in this order; the rings
\* are zeroed statics.
Init ==
  /\ avail_ring = [i \in Desc |-> 0] /\ avail_idx = 0
  /\ used_ring = [i \in Desc |-> [id |-> 0, len |-> 0]] /\ used_idx = 0
  /\ rx_avail_idx = 0 /\ rx_last_used = 0
  /\ own = [i \in 1..Size |-> i - 1]
  /\ last_avail_idx = 0 /\ last_used_idx = 0
  /\ dev_pc = "idle" /\ head = 0 /\ len = 0

-----------------------------------------------------------------------------
(* The driver *)

\* net_rx_post_buffer: ring entry and private index first ...
PostEntry ==
  /\ own # <<>> /\ rx_avail_idx = avail_idx
  /\ avail_ring' = [avail_ring EXCEPT ![slot(rx_avail_idx)] = Head(own)]
  /\ rx_avail_idx' = wrapping_add(rx_avail_idx)
  /\ UNCHANGED <<avail_idx, used_ring, used_idx, rx_last_used, own, deviceVars>>

\* ... then, behind the barrier, the index the device reads
PostIdx ==
  /\ rx_avail_idx # avail_idx
  /\ avail_idx' = rx_avail_idx
  /\ own' = Tail(own)
  /\ UNCHANGED <<avail_ring, used_ring, used_idx, rx_avail_idx, rx_last_used,
                 deviceVars>>

\* virtio_net_poll_receive: one used element, its buffer posted again at once
PollUnguarded ==
  /\ own = <<>> /\ rx_avail_idx = avail_idx
  /\ own' = <<used_ring[slot(rx_last_used)].id>>
  /\ rx_last_used' = wrapping_add(rx_last_used)
  /\ UNCHANGED <<avail_ring, avail_idx, used_ring, used_idx, rx_avail_idx,
                 deviceVars>>
Poll ==
  /\ own = <<>> /\ rx_avail_idx = avail_idx
  /\ used_idx # rx_last_used
  /\ own' = <<used_ring[slot(rx_last_used)].id>>
  /\ rx_last_used' = wrapping_add(rx_last_used)
  /\ UNCHANGED <<avail_ring, avail_idx, used_ring, used_idx, rx_avail_idx,
                 deviceVars>>

-----------------------------------------------------------------------------
(* The device *)

\* pop_avail reads the avail index: None when nothing is new ...
PopIdx ==
  /\ dev_pc = "idle"
  /\ last_avail_idx # avail_idx
  /\ dev_pc' = "pop"
  /\ UNCHANGED <<avail_ring, avail_idx, used_ring, used_idx, driverVars,
                 last_avail_idx, last_used_idx, head, len>>

\* ... else the ring entry, in a later access
PopHead ==
  /\ dev_pc = "pop"
  /\ head' = avail_ring[slot(last_avail_idx)]
  /\ last_avail_idx' = wrapping_add(last_avail_idx)
  /\ dev_pc' = "work"
  /\ UNCHANGED <<avail_ring, avail_idx, used_ring, used_idx, driverVars,
                 last_used_idx, len>>

\* push_used: the element's two words first ...
PushEntry(l) ==
  /\ dev_pc = "work"
  /\ len' = l
  /\ used_ring' = [used_ring EXCEPT ![slot(last_used_idx)] = [id |-> head, len |-> l]]
  /\ dev_pc' = "push"
  /\ UNCHANGED <<avail_ring, avail_idx, used_idx, driverVars,
                 last_avail_idx, last_used_idx, head>>

\* ... then the used index
PushIdx ==
  /\ dev_pc = "push"
  /\ last_used_idx' = wrapping_add(last_used_idx)
  /\ used_idx' = wrapping_add(last_used_idx)
  /\ dev_pc' = "idle"
  /\ UNCHANGED <<avail_ring, avail_idx, used_ring, driverVars,
                 last_avail_idx, head, len>>

Device == PopIdx \/ PopHead \/ PushIdx \/ \E l \in Lens : PushEntry(l)
Driver == PostEntry \/ PostIdx \/ Poll
Next == Driver \/ Device

Spec == Init /\ [][Next]_vars

-----------------------------------------------------------------------------
(* What the rings hold between two indices *)

Window(ring, from, to) ==
  [i \in 1..((to + IdxMod - from) % IdxMod) |-> ring[slot((from + i - 1) % IdxMod)]]

offered == Window(avail_ring, last_avail_idx, avail_idx)
held == IF dev_pc \in {"work", "push"} THEN <<head>> ELSE <<>>
returned == Window(used_ring, rx_last_used, used_idx)

\* The rings implement the exchange of buffers: pop_avail takes them in the
\* order posted, and the driver reads each used element exactly as push_used
\* wrote it, never a slot whose element is not written yet.
BQ == INSTANCE BufferQueue
ImplementsBufferQueue == BQ!BQSpec
==============================================================================
