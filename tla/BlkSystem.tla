------------------------------ MODULE BlkSystem ------------------------------
(***************************************************************************)
(* The block device at work: BlkVirtio (src/src/devices/virtio/devices/    *)
(* blk.rs) behind an MMIOTransport, the tick thread and KVM's line, and a  *)
(* guest that is first the firmware (src/guest/firmware/virtio/blk.c, one  *)
(* request at a time, polling) and then an operating system whose driver   *)
(* waits for interrupts (external).                                        *)
(*                                                                         *)
(* The virtqueue is the pair of FIFO queues VirtQueue is shown to          *)
(* implement.  The device takes one request per step while the vCPU or     *)
(* the tick thread that called it holds the device map's lock; the driver  *)
(* works on the rings meanwhile.                                           *)
(***************************************************************************)
EXTENDS Naturals, Sequences, FiniteSets

CONSTANTS
  Slots,         \* request slots of the driver
  Sectors,       \* 0 .. k, the last ones may lie past the end of the image
  ImageSectors,  \* sectors in the image at the start
  Vals,          \* contents of a sector; 0 is what a hole reads as
  Eof,           \* content of a sector past the end of the image
  Kinds,         \* how requests may fare: subset of {"ok", "fail", "bad"}
  MAX_BATCH,     \* requests one call of tick may retire
  MaxCommands    \* bound on the queue of interrupt commands

ASSUME BlkAssumption == Sectors \subseteq Nat /\ 0 \in Vals

VARIABLES
  status, interrupt_status, queue_sel, ready, commands,
  tick_pc, next_dev, irqs, line,   \* MMIOTransport
  avail, used,                     \* the virtqueue
  disk,                            \* the image file
  dev,                             \* the call of BlkVirtio::tick in progress
  mode, drv_pc, kick,              \* the guest's driver
  irq_pc,                          \* its interrupt handler
  model_disk                       \* history: the image once all is retired

blk == 1
T == INSTANCE MMIOTransport WITH
       N <- 1, irq_sel <- [d \in {blk} |-> 5], queue_num <- [d \in {blk} |-> 1],
       LegacyLines <- {}, Lines <- {5}, StatusVals <- {0, 15}, AckVals <- {1}

tVars == <<status, interrupt_status, queue_sel, ready, commands,
           tick_pc, next_dev, irqs, line>>
drvVars == <<mode, drv_pc, kick, irq_pc, model_disk>>
vars == <<tVars, avail, used, disk, dev, drvVars>>

\* kind: "ok"; "fail", the host's read or write fails; "bad", the chain is
\* malformed or the seek fails
Request == [slot : Slots, write : BOOLEAN, sector : Sectors, val : Vals,
            kind : Kinds, want : Vals \cup {Eof}]
Result == [slot : Slots, write : BOOLEAN, kind : Kinds, want : Vals \cup {Eof},
           data : Vals \cup {Eof}, ok : BOOLEAN]
NoCall == [by |-> "none", count |-> 0, did_work |-> FALSE]

\* write_all past the end grows the file; the gap reads as zeroes
Written(image, s, v) ==
  [t \in Sectors |-> IF t = s THEN v
                     ELSE IF t < s /\ image[t] = Eof THEN 0 ELSE image[t]]

Busy(s) == \E i \in DOMAIN avail : avail[i].slot = s
Unseen(s) == \E i \in DOMAIN used : used[i].slot = s

Init ==
  /\ T!Init
  /\ avail = <<>> /\ used = <<>>
  /\ disk = [s \in Sectors |-> IF s < ImageSectors THEN 0 ELSE Eof]
  /\ dev = NoCall
  /\ mode = "firmware" /\ drv_pc = "off" /\ kick = FALSE /\ irq_pc = "idle"
  /\ model_disk = disk

-----------------------------------------------------------------------------
(* The driver.  virtio_blk_init: reset, queue, DRIVER_OK. *)

LockFree == dev = NoCall   \* T's own guards add the tick thread's pass

\* The first write of virtio_blk_init, by the firmware and again by the
\* operating system that takes over or reloads its driver.
DriverReset ==
  /\ LockFree /\ irq_pc = "idle"
  /\ \/ drv_pc = "off" /\ UNCHANGED mode
     \/ /\ drv_pc = "ok" /\ mode' = "os"
        /\ mode = "firmware" => avail = <<>> /\ used = <<>> /\ ~kick
  /\ T!WriteStatus(blk, 0)
  /\ avail' = <<>> /\ used' = <<>> /\ kick' = FALSE
  /\ model_disk' = disk
  /\ drv_pc' = "reset"
  /\ UNCHANGED <<disk, dev, irq_pc>>

DriverQueue ==
  /\ LockFree /\ drv_pc = "reset"
  /\ T!WriteQueueReady(blk, TRUE)
  /\ drv_pc' = "queue"
  /\ UNCHANGED <<avail, used, disk, dev, mode, kick, irq_pc, model_disk>>

DriverOk ==
  /\ LockFree /\ drv_pc = "queue"
  /\ T!WriteStatus(blk, 15)
  /\ drv_pc' = "ok"
  /\ UNCHANGED <<avail, used, disk, dev, mode, kick, irq_pc, model_disk>>

\* virtio_blk_read and virtio_blk_write up to the publication of the request.
\* The firmware waits for the previous one to be over.
Submit(slot, write, sector, val, kind) ==
  LET good == kind = "ok"
      want == IF write \/ ~good THEN Eof ELSE model_disk[sector]
  IN  /\ drv_pc = "ok"
      /\ ~Busy(slot) /\ ~Unseen(slot)
      /\ mode = "firmware" => avail = <<>> /\ used = <<>> /\ ~kick
      /\ avail' = Append(avail, [slot |-> slot, write |-> write, sector |-> sector,
                                 val |-> val, kind |-> kind, want |-> want])
      /\ model_disk' = IF write /\ good THEN Written(model_disk, sector, val)
                                        ELSE model_disk
      /\ kick' = TRUE
      /\ UNCHANGED <<tVars, used, disk, dev, mode, drv_pc, irq_pc>>

\* The firmware's wait loop sees the used index move.
PollUsed ==
  /\ mode = "firmware" /\ ~kick /\ used # <<>>
  /\ used' = Tail(used)
  /\ UNCHANGED <<tVars, avail, disk, dev, drvVars>>

\* The operating system's handler runs while the line is high.  It reads the
\* interrupt status (a read of 0 is not its interrupt), acknowledges what it
\* read, and only then takes everything off the used ring.
IrqRead ==
  /\ mode = "os" /\ drv_pc = "ok" /\ irq_pc = "idle" /\ line[5]
  /\ LockFree
  /\ T!ReadInterruptStatus(blk)
  /\ irq_pc' = "ack"
  /\ UNCHANGED <<avail, used, disk, dev, mode, drv_pc, kick, model_disk>>

IrqAck ==
  /\ irq_pc = "ack" /\ LockFree
  /\ T!WriteInterruptAck(blk, 1)
  /\ irq_pc' = "drain"
  /\ UNCHANGED <<avail, used, disk, dev, mode, drv_pc, kick, model_disk>>

IrqDrain ==
  /\ irq_pc = "drain"
  /\ IF used # <<>> THEN used' = Tail(used) /\ UNCHANGED irq_pc
                    ELSE irq_pc' = "idle" /\ UNCHANGED used
  /\ UNCHANGED <<tVars, avail, disk, dev, mode, drv_pc, kick, model_disk>>

-----------------------------------------------------------------------------
(* BlkVirtio::tick, on behalf of a vCPU or of the tick thread *)

\* write 0x050 enters the device with the map locked
KickEnter ==
  /\ kick /\ LockFree /\ T!VcpuMayRun /\ ready[blk][0]
  /\ dev' = [NoCall EXCEPT !.by = "vcpu"]
  /\ kick' = FALSE
  /\ UNCHANGED <<tVars, avail, used, disk, mode, drv_pc, irq_pc, model_disk>>

\* MMIOTransport::tick enters it for a queue that is ready once DRIVER_OK is set
TickEnter ==
  /\ tick_pc = "mmio" /\ next_dev = blk /\ LockFree
  /\ T!DRIVER_OK(status[blk]) /\ ready[blk][0]
  /\ dev' = [NoCall EXCEPT !.by = "tick"]
  /\ UNCHANGED <<tVars, avail, used, disk, drvVars>>

\* One request: read_exact stops at the end of the file, write_all grows it.
Serve(r) ==
  LET ok == r.kind = "ok" /\ (r.write \/ disk[r.sector] # Eof)
  IN  /\ disk' = IF r.write /\ ok THEN Written(disk, r.sector, r.val) ELSE disk
      /\ used' = Append(used, [slot |-> r.slot, write |-> r.write, kind |-> r.kind,
                               want |-> r.want, ok |-> ok,
                               data |-> IF ok /\ ~r.write THEN disk[r.sector] ELSE Eof])
      /\ UNCHANGED <<tVars, drvVars>>

BlkRequestNewestFirst ==
  /\ dev.by # "none" /\ dev.count < MAX_BATCH /\ avail # <<>>
  /\ avail' = SubSeq(avail, 1, Len(avail) - 1)
  /\ Serve(avail[Len(avail)])
  /\ dev' = [dev EXCEPT !.count = @ + 1, !.did_work = TRUE]
BlkRequestForgetsWork ==
  /\ dev.by # "none" /\ dev.count < MAX_BATCH /\ avail # <<>>
  /\ avail' = Tail(avail)
  /\ Serve(Head(avail))
  /\ dev' = [dev EXCEPT !.count = @ + 1, !.did_work = used'[Len(used')].ok]
\* One turn of the loop: pop_avail, the request, push_used.  A malformed chain
\* or a failed seek is retired with length 0 and does not count as work.
BlkRequest ==
  /\ dev.by # "none" /\ dev.count < MAX_BATCH /\ avail # <<>>
  /\ avail' = Tail(avail)
  /\ Serve(Head(avail))
  /\ dev' = [dev EXCEPT !.count = @ + 1,
                        !.did_work = @ \/ Head(avail).kind # "bad"]

\* pop_avail finds nothing, or the batch is full
BlkDone == dev.by # "none" /\ (avail = <<>> \/ dev.count = MAX_BATCH)

KickLeave ==
  /\ BlkDone /\ dev.by = "vcpu"
  /\ T!WriteQueueNotify(blk, 0, dev.did_work)
  /\ dev' = NoCall
  /\ UNCHANGED <<avail, used, disk, drvVars>>

TickLeave ==
  /\ BlkDone /\ dev.by = "tick"
  /\ T!TickDevice(dev.did_work)
  /\ dev' = NoCall
  /\ UNCHANGED <<avail, used, disk, drvVars>>

\* A transport whose driver is not up is passed over.
TickSkip ==
  /\ next_dev = blk /\ LockFree
  /\ ~(T!DRIVER_OK(status[blk]) /\ ready[blk][0])
  /\ T!TickDevice(FALSE)
  /\ UNCHANGED <<avail, used, disk, dev, drvVars>>

\* The rest of the tick thread.
TickOther ==
  /\ \/ LockFree /\ T!TickLock
     \/ T!TickUnlock \/ T!TakeCommands \/ T!Deliver \/ T!TickSleep
  /\ UNCHANGED <<avail, used, disk, dev, drvVars>>

-----------------------------------------------------------------------------
TickThread == TickEnter \/ TickLeave \/ TickSkip \/ TickOther
Call == BlkRequest \/ KickLeave
DriverUp == (drv_pc = "off" /\ DriverReset) \/ DriverQueue \/ DriverOk
Irq == IrqRead \/ IrqAck \/ IrqDrain

Next ==
  \/ DriverReset \/ DriverQueue \/ DriverOk
  \/ \E slot \in Slots, sector \in Sectors, val \in Vals, kind \in Kinds :
        Submit(slot, TRUE, sector, val, kind)
  \/ \E slot \in Slots, sector \in Sectors, kind \in Kinds :
        Submit(slot, FALSE, sector, 0, kind)
  \/ KickEnter \/ PollUsed \/ Irq \/ Call \/ TickThread

\* The tick thread loops for ever; a vCPU that entered the device comes out of
\* it; a driver that is coming up goes on, notifies what it submitted, polls,
\* and a guest with an interrupt line up and its handler runs the handler.  No
\* request need ever be submitted.
Fairness ==
  /\ WF_vars(TickThread) /\ WF_vars(Call) /\ WF_vars(DriverUp)
  /\ SF_vars(KickEnter) /\ WF_vars(PollUsed)
  /\ SF_vars(IrqRead) /\ SF_vars(IrqAck) /\ WF_vars(IrqDrain)

Spec == Init /\ [][Next]_vars /\ Fairness

-----------------------------------------------------------------------------
\* A read that succeeds returns what the requests submitted before it left in
\* that sector, through batches, two callers of tick, resets, writes that fail
\* and writes that grow the image; a read past the end never succeeds.
ReadsSeeWrites ==
  \A i \in DOMAIN used :
    LET u == used[i]
    IN  u.kind = "ok" /\ ~u.write => u.data = u.want /\ (u.ok <=> u.want # Eof)

\* No lost wakeup: a request that counts as work and that the operating system
\* has not seen is covered by a pending interrupt, by the call that is still
\* running, or by a handler that has yet to look at the ring, although reading
\* the status clears it and the acknowledgement may clear a later completion.
WorkAnnounced ==
  (\E i \in DOMAIN used : used[i].kind # "bad") =>
    \/ interrupt_status[blk] = 1
    \/ dev.did_work
    \/ irq_pc \in {"ack", "drain"}
    \/ mode = "firmware"

Good(q, s) == \E i \in DOMAIN q : q[i].slot = s /\ q[i].kind # "bad"

\* Every well-formed request is answered and the guest learns of it, from the
\* interrupt or by polling, also after malformed ones that raise no interrupt:
\* the batch limit leaves no request behind and the rising-edge rule of tick
\* hides no completion.
RequestsComplete ==
  \A s \in Slots : Good(avail \o used, s) ~> ~Good(avail \o used, s)
==============================================================================
