----------------------------- MODULE NetSystem -----------------------------
(***************************************************************************)
(* The network path: the TAP interface and its receive queue (src/src/     *)
(* platform/networking/tap.rs), NetVirtio (src/src/devices/virtio/devices/ *)
(* net.rs) called by the tick thread or by a notifying vCPU, and the       *)
(* guest's polling driver (src/guest/firmware/virtio/net.c).               *)
(*                                                                         *)
(* The virtqueues are the FIFO pairs VirtQueue implements.  A frame is its *)
(* number in the order the host sent them; frames holds their lengths.     *)
(* The device handles one descriptor per step with the device map locked;  *)
(* the driver works on the rings meanwhile.                                *)
(***************************************************************************)
EXTENDS Naturals, Sequences

CONSTANTS
  Slots,       \* receive descriptors, each with its buffer
  Lens,        \* lengths of frames, both ways
  MaxFrames,   \* bound: frames the host sends
  MaxSends,    \* bound: frames the guest sends
  MaxDrivers,  \* bound: drivers that take the device over, one after the other
  DEV_HDR,     \* header bytes of the device
  DRV_HDR,     \* sizeof(VirtioNetHdr) of the driver
  MAX_FRAME    \* largest Ethernet frame

NET_BUF_SIZE == DRV_HDR + MAX_FRAME

ASSUME NetAssumption ==
  /\ DRV_HDR \in Nat \ {0} /\ DEV_HDR \in Nat /\ DRV_HDR =< DEV_HDR
  /\ MAX_FRAME \in Nat /\ Lens \subseteq Nat
  /\ Slots \subseteq Nat /\ 0 \in Slots

VARIABLES
  frames,         \* lengths of the frames the host has sent
  taken,          \* how many of them TAPDevice::update has read
  packet_recive_queue,
  avail, used,    \* receive queue: slots; [slot, len]
  buf,            \* slot -> frame the device wrote there, 0 for none
  tx_avail, tx_used, \* transmit queue: lengths of descriptors; how many retired
  out,            \* frames that left through the TAP: [len, lost]
  dev,            \* call of the device in progress
  drv,            \* driver: [pc, slot, len]
  drivers,        \* drivers so far
  got,            \* history: frames returned by virtio_net_poll_receive
  cleared         \* history: frames read before the present driver's reset

hostVars == <<frames, taken, packet_recive_queue>>
rxVars == <<avail, used, buf>>
txVars == <<tx_avail, tx_used, out>>
histVars == <<drivers, got, cleared>>
netVars == <<hostVars, rxVars, txVars, dev, drv, histVars>>

Idle == [by |-> "none", at |-> "none"]
Fits(f) == frames[f] + DEV_HDR =< NET_BUF_SIZE

NetInit ==
  /\ frames = <<>> /\ taken = 0 /\ packet_recive_queue = <<>>
  /\ avail = <<>> /\ used = <<>> /\ buf = [s \in Slots |-> 0]
  /\ tx_avail = <<>> /\ tx_used = 0 /\ out = <<>>
  /\ dev = Idle
  /\ drv = [pc |-> "off", slot |-> 0, len |-> 0]
  /\ drivers = 0 /\ got = <<>> /\ cleared = 0

-----------------------------------------------------------------------------
(* The driver *)

\* virtio_net_init up to DRIVER_OK.  The reset clears the rings and the frames
\* the device holds; a later driver brings rings of its own.
DriverInit ==
  /\ drv.pc \in {"off", "idle"} /\ drivers < MaxDrivers /\ dev = Idle
  /\ drivers' = drivers + 1
  /\ packet_recive_queue' = <<>> /\ cleared' = taken
  /\ avail' = <<>> /\ used' = <<>> /\ buf' = [s \in Slots |-> 0]
  /\ tx_avail' = <<>> /\ tx_used' = 0
  /\ drv' = [pc |-> "fill", slot |-> 0, len |-> 0]
  /\ got' = <<>>
  /\ UNCHANGED <<frames, taken, out, dev>>

\* The loop that fills the receive ring, and the notification after it.
Prefill ==
  /\ drv.pc = "fill"
  /\ avail' = Append(avail, drv.slot)
  /\ drv' = IF drv.slot + 1 \in Slots THEN [drv EXCEPT !.slot = @ + 1]
                                       ELSE [drv EXCEPT !.pc = "kick_rx"]
  /\ UNCHANGED <<hostVars, used, buf, txVars, dev, histVars>>

\* virtio_net_poll_receive: take a used element; one without even a header is
\* recycled at once.
PollReceive ==
  /\ drv.pc = "idle" /\ used # <<>>
  /\ LET e == Head(used)
     IN  drv' = [pc |-> IF e.len < DRV_HDR THEN "post" ELSE "copy",
                 slot |-> e.slot, len |-> e.len]
  /\ used' = Tail(used)
  /\ UNCHANGED <<hostVars, avail, buf, txVars, dev, histVars>>

\* It copies what follows its own header; the caller's buffer is large enough.
Copied ==
  [frame |-> buf[drv.slot], len |-> drv.len - DRV_HDR, ahead |-> DEV_HDR - DRV_HDR]

PollCopy ==
  /\ drv.pc = "copy"
  /\ got' = Append(got, Copied)
  /\ drv' = [drv EXCEPT !.pc = "post"]
  /\ UNCHANGED <<hostVars, rxVars, txVars, dev, drivers, cleared>>

\* net_rx_post_buffer
PollRecycle ==
  /\ drv.pc = "post"
  /\ avail' = Append(avail, drv.slot)
  /\ drv' = [drv EXCEPT !.pc = "kick_rx"]
  /\ UNCHANGED <<hostVars, used, buf, txVars, dev, histVars>>

\* virtio_net_send up to the notification; it returns once the frame is used.
Send(len) ==
  /\ drv.pc = "idle" /\ Len(out) < MaxSends
  /\ len + DRV_HDR =< NET_BUF_SIZE
  /\ tx_avail' = Append(tx_avail, len + DRV_HDR)
  /\ drv' = [drv EXCEPT !.pc = "kick_tx"]
  /\ UNCHANGED <<hostVars, rxVars, tx_used, out, dev, histVars>>

SendReturn ==
  /\ drv.pc = "sent" /\ tx_used > 0
  /\ tx_used' = tx_used - 1
  /\ drv' = [drv EXCEPT !.pc = "idle"]
  /\ UNCHANGED <<hostVars, rxVars, tx_avail, out, dev, histVars>>

\* A write to QUEUE_NOTIFY enters the device with the map locked.
Notify ==
  /\ drv.pc \in {"kick_rx", "kick_tx"} /\ dev = Idle
  /\ dev' = [by |-> "vcpu", at |-> IF drv.pc = "kick_rx" THEN "rx" ELSE "tx"]
  /\ drv' = [drv EXCEPT !.pc = "calling"]
  /\ UNCHANGED <<hostVars, rxVars, txVars, histVars>>

-----------------------------------------------------------------------------
(* The device, on behalf of a vCPU or of the tick thread *)

\* The tick thread's pass over the device: receive, transmit, update.
TickEnter ==
  /\ dev = Idle /\ drv.pc # "off"
  /\ dev' = [by |-> "tick", at |-> "rx"]
  /\ UNCHANGED <<hostVars, rxVars, txVars, drv, histVars>>

\* One turn of the receive loop: a frame and a buffer are there.  A frame too
\* long for the buffer is dropped and the buffer returned empty.
RxFrame ==
  /\ dev.at = "rx" /\ packet_recive_queue # <<>> /\ avail # <<>>
  /\ LET f == Head(packet_recive_queue)
         s == Head(avail)
     IN  /\ buf' = IF Fits(f) THEN [buf EXCEPT ![s] = f] ELSE buf
         /\ used' = Append(used, [slot |-> s, len |-> IF Fits(f) THEN DEV_HDR + frames[f] ELSE 0])
  /\ packet_recive_queue' = Tail(packet_recive_queue)
  /\ avail' = Tail(avail)
  /\ UNCHANGED <<frames, taken, txVars, dev, drv, histVars>>

\* The loop ends: no frame, or no buffer for the frame, which goes back to the
\* front.  A notifying vCPU returns to the guest.
RxDoneToTheBack ==
  /\ dev.at = "rx" /\ (packet_recive_queue = <<>> \/ avail = <<>>)
  /\ packet_recive_queue' = IF packet_recive_queue = <<>> THEN <<>>
                            ELSE Append(Tail(packet_recive_queue), Head(packet_recive_queue))
  /\ IF dev.by = "tick" THEN dev' = [dev EXCEPT !.at = "tx"] /\ UNCHANGED drv
                        ELSE dev' = Idle /\ drv' = [drv EXCEPT !.pc = "idle"]
  /\ UNCHANGED <<frames, taken, rxVars, txVars, histVars>>
RxDoneLosesFrame ==
  /\ dev.at = "rx" /\ (packet_recive_queue = <<>> \/ avail = <<>>)
  /\ packet_recive_queue' = IF packet_recive_queue = <<>> THEN <<>> ELSE Tail(packet_recive_queue)
  /\ IF dev.by = "tick" THEN dev' = [dev EXCEPT !.at = "tx"] /\ UNCHANGED drv
                        ELSE dev' = Idle /\ drv' = [drv EXCEPT !.pc = "idle"]
  /\ UNCHANGED <<frames, taken, rxVars, txVars, histVars>>
RxDone ==
  /\ dev.at = "rx" /\ (packet_recive_queue = <<>> \/ avail = <<>>)
  /\ IF dev.by = "tick" THEN dev' = [dev EXCEPT !.at = "tx"] /\ UNCHANGED drv
                        ELSE dev' = Idle /\ drv' = [drv EXCEPT !.pc = "idle"]
  /\ UNCHANGED <<hostVars, rxVars, txVars, histVars>>

\* One turn of the transmit loop.  What is too short for a header is retired
\* unsent; the TAP may refuse the frame, which nobody notices.
TxFrameKeepsShort ==
  /\ dev.at = "tx" /\ tx_avail # <<>>
  /\ tx_avail' = Tail(tx_avail)
  /\ IF Head(tx_avail) < DEV_HDR THEN UNCHANGED <<tx_used, out>>
     ELSE /\ tx_used' = tx_used + 1
          /\ out' = Append(out, [len |-> Head(tx_avail) - DEV_HDR, lost |-> FALSE])
  /\ UNCHANGED <<hostVars, rxVars, dev, drv, histVars>>
TxFrame ==
  /\ dev.at = "tx" /\ tx_avail # <<>>
  /\ tx_avail' = Tail(tx_avail) /\ tx_used' = tx_used + 1
  /\ IF Head(tx_avail) < DEV_HDR THEN UNCHANGED out
     ELSE \E lost \in BOOLEAN :
            out' = Append(out, [len |-> Head(tx_avail) - DEV_HDR, lost |-> lost])
  /\ UNCHANGED <<hostVars, rxVars, dev, drv, histVars>>

TxDone ==
  /\ dev.at = "tx" /\ tx_avail = <<>>
  /\ IF dev.by = "tick" THEN dev' = [dev EXCEPT !.at = "update"] /\ UNCHANGED drv
                        ELSE dev' = Idle /\ drv' = [drv EXCEPT !.pc = "sent"]
  /\ UNCHANGED <<hostVars, rxVars, txVars, histVars>>

\* TAPDevice::update reads at most one frame (an error is as if there were
\* none), and the pass is over.
Update ==
  /\ dev.at = "update"
  /\ IF taken < Len(frames)
     THEN /\ taken' = taken + 1
          /\ packet_recive_queue' = Append(packet_recive_queue, taken + 1)
     ELSE UNCHANGED <<taken, packet_recive_queue>>
  /\ dev' = Idle
  /\ UNCHANGED <<frames, rxVars, txVars, drv, histVars>>

\* A frame arrives from the host's network.
FrameArrives(len) ==
  /\ Len(frames) < MaxFrames
  /\ frames' = Append(frames, len)
  /\ UNCHANGED <<taken, packet_recive_queue, rxVars, txVars, dev, drv, histVars>>

Device == RxFrame \/ RxDone \/ TxFrame \/ TxDone \/ Update
Driver == Prefill \/ PollReceive \/ PollCopy \/ PollRecycle \/ SendReturn \/ Notify
NetNext ==
  \/ TickEnter \/ Device \/ Driver \/ DriverInit
  \/ \E len \in Lens : FrameArrives(len) \/ Send(len)

NetSpec == NetInit /\ [][NetNext]_netVars

\* The tick thread runs for ever, and so do the vCPU that is inside the device
\* and the guest's loop, which comes back to polling however much it sends.  A
\* thread that waits for the device map's lock gets it in the end.
NetFairSpec ==
  /\ NetSpec
  /\ WF_netVars(Device) /\ SF_netVars(TickEnter) /\ WF_netVars(DriverInit /\ drivers = 0)
  /\ WF_netVars(Driver) /\ SF_netVars(Notify) /\ SF_netVars(PollReceive)

-----------------------------------------------------------------------------
\* Where the frames of the present driver are, from the caller of
\* virtio_net_poll_receive back to the receive queue, and which one is at a place.
Places ==
  ({1} \X DOMAIN got) \cup (IF drv.pc = "copy" THEN {<<2, 1>>} ELSE {})
  \cup ({3} \X {k \in DOMAIN used : used[k].len > 0})
  \cup ({4} \X {k \in DOMAIN packet_recive_queue : Fits(packet_recive_queue[k])})
FrameAt(p) ==
  CASE p[1] = 1 -> got[p[2]].frame
    [] p[1] = 2 -> buf[drv.slot]
    [] p[1] = 3 -> buf[used[p[2]].slot]
    [] p[1] = 4 -> packet_recive_queue[p[2]]
Before(p, q) == p[1] < q[1] \/ (p[1] = q[1] /\ p[2] < q[2])

\* Every frame read from the TAP since the driver's reset, but for those that
\* are too long, is in one place only, and they stay in order: none is lost when
\* the guest has no buffer, none is overwritten before the driver copied it,
\* none is delivered twice, and each is handed over whole, behind the bytes by
\* which the device's header is longer than the driver's.
FramesInOrder ==
  /\ {FrameAt(p) : p \in Places} = {f \in cleared + 1 .. taken : Fits(f)}
  /\ \A p, q \in Places : Before(p, q) => FrameAt(p) < FrameAt(q)
  /\ \A k \in DOMAIN got : got[k].len = got[k].ahead + frames[got[k].frame]

\* A frame that fits reaches the caller of virtio_net_poll_receive, although
\* the device may have been out of buffers when it came.
FramesArrive ==
  \A f \in 1 .. MaxFrames :
    (f \in cleared + 1 .. Len(frames) /\ Fits(f) /\ drivers = MaxDrivers)
      ~> (\E k \in DOMAIN got : got[k].frame = f)

\* virtio_net_send returns, also for a frame the device does not send.
SendsReturn == drv.pc = "kick_tx" ~> drv.pc = "idle"
=============================================================================
