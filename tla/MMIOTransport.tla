---------------------------- MODULE MMIOTransport ----------------------------
(***************************************************************************)
(* The interrupt path of the virtio-mmio devices: every MMIOTransport      *)
(* (src/src/devices/virtio/transports/mmio.rs), the IRQHandler its         *)
(* set_irq_line calls push commands to (src/src/irq/handler.rs), the tick  *)
(* thread that drains them (src/src/vm/tick.rs), and KVM's interrupt lines *)
(* (external).                                                             *)
(*                                                                         *)
(* vCPU threads call read and write under the device map's lock; the tick  *)
(* thread holds that lock over its whole pass over the devices, and no     *)
(* lock while it delivers a batch of commands.  Each write or read handler *)
(* is one step: it pushes at most one command, under the lock.             *)
(***************************************************************************)
EXTENDS Naturals, Sequences

CONSTANTS
  N,             \* transports, in the order main.rs registers them
  irq_sel,       \* transport -> interrupt line (main.rs)
  queue_num,     \* transport -> number of queues
  LegacyLines,   \* lines the PIT and the serial ports drive
  Lines,         \* every line in use
  StatusVals,    \* values a driver writes to the status register
  AckVals,       \* values a driver writes to the acknowledge register
  MaxCommands    \* bound: a vCPU is held back while this many are queued

Dev == 1..N

ASSUME TransportAssumption ==
  /\ N \in Nat
  /\ irq_sel \in [Dev -> Lines]
  /\ queue_num \in [Dev -> Nat \ {0}]
  /\ LegacyLines \subseteq Lines
  /\ StatusVals \subseteq Nat
  /\ AckVals \subseteq Nat

VARIABLES
  status, interrupt_status, queue_sel, ready,   \* per transport
  commands,                                     \* IRQHandler.commands
  tick_pc, next_dev, irqs,                      \* the tick thread
  line                                          \* level of each line at KVM

transportVars == <<status, interrupt_status, queue_sel, ready>>
tickVars == <<tick_pc, next_dev, irqs>>
vars == <<transportVars, commands, tickVars, line>>

Queue(d) == 0..(queue_num[d] - 1)
Command == [irq_line : Lines, value : BOOLEAN]
NotReady(d) == [q \in Queue(d) |-> FALSE]

Init ==
  /\ status = [d \in Dev |-> 0]
  /\ interrupt_status = [d \in Dev |-> 0]
  /\ queue_sel = [d \in Dev |-> 0]
  /\ ready = [d \in Dev |-> NotReady(d)]
  /\ commands = <<>>
  /\ tick_pc = "lock" /\ next_dev = 1 /\ irqs = <<>>
  /\ line = [l \in Lines |-> FALSE]

-----------------------------------------------------------------------------
trigger_irq(l, v) == commands' = Append(commands, [irq_line |-> l, value |-> v])
set_irq_line(d, v) == trigger_irq(irq_sel[d], v)

DRIVER_OK(s) == (s \div 4) % 2 = 1

\* A vCPU has the device map's lock.  The queue of commands is unbounded.
VcpuMayRun == tick_pc # "mmio" /\ Len(commands) < MaxCommands

\* read 0x060.  Reading 0 changes nothing.
ReadInterruptStatusKeepsLine(d) ==
  /\ VcpuMayRun
  /\ interrupt_status[d] # 0
  /\ interrupt_status' = [interrupt_status EXCEPT ![d] = 0]
  /\ UNCHANGED <<status, queue_sel, ready, commands, tickVars, line>>
ReadInterruptStatus(d) ==
  /\ VcpuMayRun
  /\ interrupt_status[d] # 0
  /\ interrupt_status' = [interrupt_status EXCEPT ![d] = 0]
  /\ set_irq_line(d, FALSE)
  /\ UNCHANGED <<status, queue_sel, ready, tickVars, line>>

\* write 0x060 or 0x064: only bit 0 of interrupt_status is ever set.
WriteInterruptAck(d, ack) ==
  /\ VcpuMayRun
  /\ interrupt_status' =
       [interrupt_status EXCEPT ![d] = IF ack % 2 = 1 THEN 0 ELSE @]
  /\ IF interrupt_status'[d] = 0
     THEN set_irq_line(d, FALSE)
     ELSE UNCHANGED commands
  /\ UNCHANGED <<status, queue_sel, ready, tickVars, line>>

\* write 0x070: zero resets the transport, its queues and its device.
WriteStatus(d, val) ==
  /\ VcpuMayRun
  /\ status' = [status EXCEPT ![d] = val]
  /\ IF val = 0
     THEN /\ ready' = [ready EXCEPT ![d] = NotReady(d)]
          /\ interrupt_status' = [interrupt_status EXCEPT ![d] = 0]
          /\ queue_sel' = [queue_sel EXCEPT ![d] = 0]
          /\ set_irq_line(d, FALSE)
     ELSE UNCHANGED <<ready, interrupt_status, queue_sel, commands>>
  /\ UNCHANGED <<tickVars, line>>

\* write 0x030: an index past the queues is ignored.
WriteQueueSel(d, sel) ==
  /\ VcpuMayRun
  /\ sel < queue_num[d]
  /\ queue_sel' = [queue_sel EXCEPT ![d] = sel]
  /\ UNCHANGED <<status, interrupt_status, ready, commands, tickVars, line>>

\* write 0x044.  (It also rewinds last_avail_idx: BlkSystem.)
WriteQueueReady(d, v) ==
  /\ VcpuMayRun
  /\ ready' = [ready EXCEPT ![d][queue_sel[d]] = v]
  /\ UNCHANGED <<status, interrupt_status, queue_sel, commands, tickVars, line>>

\* write 0x050: the device runs on the vCPU's thread, DRIVER_OK or not.
\* did_work is what the device's tick answered.
WriteQueueNotify(d, q, did_work) ==
  /\ VcpuMayRun
  /\ q \in Queue(d) /\ ready[d][q]
  /\ IF did_work
     THEN /\ interrupt_status' = [interrupt_status EXCEPT ![d] = 1]
          /\ set_irq_line(d, TRUE)
     ELSE UNCHANGED <<interrupt_status, commands>>
  /\ UNCHANGED <<status, queue_sel, ready, tickVars, line>>

\* The PIT and the serial ports push commands for their own lines, from a
\* vCPU's port access or from the tick thread, under another lock (io_map).
LegacyCommand(l, v) ==
  /\ Len(commands) < MaxCommands
  /\ l \in LegacyLines
  /\ trigger_irq(l, v)
  /\ UNCHANGED <<transportVars, tickVars, line>>

-----------------------------------------------------------------------------
(* The tick thread: VirtualMachine::tick *)

TickLock ==
  /\ tick_pc = "lock"
  /\ tick_pc' = "mmio" /\ next_dev' = 1
  /\ UNCHANGED <<transportVars, commands, irqs, line>>

\* MMIOTransport::tick of the next device.  did_work: a ready queue completed
\* something.  The line is raised only when the status was clear before.
TickDevice(did_work) ==
  /\ tick_pc = "mmio" /\ next_dev \in Dev
  /\ did_work => DRIVER_OK(status[next_dev])
                 /\ \E q \in Queue(next_dev) : ready[next_dev][q]
  /\ interrupt_status' =
       [interrupt_status EXCEPT ![next_dev] = IF did_work THEN 1 ELSE @]
  /\ IF interrupt_status[next_dev] = 0 /\ did_work
     THEN set_irq_line(next_dev, TRUE)
     ELSE UNCHANGED commands
  /\ next_dev' = next_dev + 1
  /\ UNCHANGED <<status, queue_sel, ready, tick_pc, irqs, line>>

TickUnlock ==
  /\ tick_pc = "mmio" /\ next_dev = N + 1
  /\ tick_pc' = "take"
  /\ UNCHANGED <<transportVars, commands, next_dev, irqs, line>>

\* IRQHandler::handle_irqs
TakeCommands ==
  /\ tick_pc = "take"
  /\ irqs' = commands /\ commands' = <<>>
  /\ tick_pc' = "drain"
  /\ UNCHANGED <<transportVars, next_dev, line>>

\* pop_front and set_irq_line on the VM
DeliverLast ==
  /\ tick_pc = "drain" /\ irqs # <<>>
  /\ line' = [line EXCEPT ![irqs[Len(irqs)].irq_line] = irqs[Len(irqs)].value]
  /\ irqs' = SubSeq(irqs, 1, Len(irqs) - 1)
  /\ UNCHANGED <<transportVars, commands, tick_pc, next_dev>>
Deliver ==
  /\ tick_pc = "drain" /\ irqs # <<>>
  /\ line' = [line EXCEPT ![Head(irqs).irq_line] = Head(irqs).value]
  /\ irqs' = Tail(irqs)
  /\ UNCHANGED <<transportVars, commands, tick_pc, next_dev>>

\* sleep, and round again
TickSleep ==
  /\ tick_pc = "drain" /\ irqs = <<>>
  /\ tick_pc' = "lock"
  /\ UNCHANGED <<transportVars, commands, next_dev, irqs, line>>

TickThread ==
  \/ TickLock \/ TickUnlock \/ TakeCommands \/ Deliver \/ TickSleep
  \/ \E w \in BOOLEAN : TickDevice(w)

Vcpu(d) ==
  \/ ReadInterruptStatus(d)
  \/ \E ack \in AckVals : WriteInterruptAck(d, ack)
  \/ \E val \in StatusVals : WriteStatus(d, val)
  \/ \E sel \in 0..queue_num[d] : WriteQueueSel(d, sel)
  \/ \E v \in BOOLEAN : WriteQueueReady(d, v)
  \/ \E q \in Queue(d), w \in BOOLEAN : WriteQueueNotify(d, q, w)

Next ==
  \/ \E d \in Dev : Vcpu(d)
  \/ \E l \in LegacyLines, v \in BOOLEAN : LegacyCommand(l, v)
  \/ TickThread

\* The tick thread is a loop that never blocks for good: the device map's
\* lock is released at the end of every handler.
Fairness == WF_vars(TickThread)
Spec == Init /\ [][Next]_vars /\ Fairness

-----------------------------------------------------------------------------
\* Type invariant: among others, queue_sel always names a queue, so no
\* register access indexes past the queues.
TypeOK ==
  /\ status \in [Dev -> Nat]
  /\ interrupt_status \in [Dev -> {0, 1}]
  /\ queue_sel \in [Dev -> Nat]
  /\ \A d \in Dev : queue_sel[d] \in Queue(d)
  /\ DOMAIN ready = Dev /\ \A d \in Dev : ready[d] \in [Queue(d) -> BOOLEAN]
  /\ commands \in Seq(Command) /\ irqs \in Seq(Command)
  /\ tick_pc \in {"lock", "mmio", "take", "drain"}
  /\ next_dev \in 1..(N + 1)
  /\ line \in [Lines -> BOOLEAN]

\* d is the only device that drives its line.  (In main.rs: block, network,
\* file system and GPU; rng, counter and the PIT share line 0.)
Sole(d) ==
  /\ irq_sel[d] \notin LegacyLines
  /\ \A e \in Dev \ {d} : irq_sel[e] # irq_sel[d]

Silent(s, l) == \A i \in DOMAIN s : s[i].irq_line # l
LastIs(s, l, v) ==
  \E i \in DOMAIN s : /\ s[i] = [irq_line |-> l, value |-> v]
                       /\ \A j \in DOMAIN s : j > i => s[j].irq_line # l

\* The level line l will have once everything queued now has been delivered.
Settles(l, v) ==
  \/ LastIs(commands, l, v)
  \/ Silent(commands, l) /\ LastIs(irqs, l, v)
  \/ Silent(commands, l) /\ Silent(irqs, l) /\ line[l] = v

\* The deferred commands never contradict the register they stand for: once
\* what is queued is delivered, the line of an unshared device is high exactly
\* when its interrupt_status is not 0.  read, write and tick push a command
\* whenever, and only when, the level has to change, and the tick thread
\* delivers in order.
LineFollowsStatus ==
  \A d \in Dev : Sole(d) => Settles(irq_sel[d], interrupt_status[d] # 0)

\* The level follows in the end.  A completion reaches the guest: a pending
\* interrupt puts its line high unless the driver acknowledges or resets first,
\* though tick pushes no command for a status that is already set.  And there is
\* no interrupt storm: the line of a device with nothing pending goes low again
\* unless something new completes.
LineAnswers ==
  \A d \in Dev : Sole(d) =>
    /\ interrupt_status[d] = 1 ~> (line[irq_sel[d]] \/ interrupt_status[d] = 0)
    /\ interrupt_status[d] = 0 ~> (~line[irq_sel[d]] \/ interrupt_status[d] = 1)
==============================================================================
