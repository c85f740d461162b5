-------------------------- MODULE Transport_proofs --------------------------
(***************************************************************************)
(* The transport every virtio device sits behind, and the network card     *)
(* behind one. MMIOTransport, for any number of devices; NetSystem, for    *)
(* any frames, any number of buffers and any sizes of the queues between   *)
(* the threads.                                                            *)
(***************************************************************************)
EXTENDS MMIOTransport, NetSystem, SequenceTheorems, TLAPS

-----------------------------------------------------------------------------
(***************************************************************************)
(* MMIOTransport: the interrupt line follows the status of the devices.    *)
(***************************************************************************)

BatchDone == tick_pc # "drain" => irqs = <<>>

IInv == TypeOK /\ BatchDone /\ LineFollowsStatus

-----------------------------------------------------------------------------
\* The command IRQHandler::trigger_irq pushed last decides its line.
LEMMA AppendDecides ==
  ASSUME NEW s \in Seq(Command), NEW l \in Lines, NEW v \in BOOLEAN
  PROVE  LastIs(Append(s, [irq_line |-> l, value |-> v]), l, v)
<1> DEFINE c == [irq_line |-> l, value |-> v]
           t == Append(s, c)
<1>1. c \in Command
  BY Zenon DEF Command
<1>2. DOMAIN t = 1..(Len(s) + 1) /\ t[Len(s) + 1] = c /\ Len(s) + 1 \in DOMAIN t
  BY <1>1
<1>3. \A j \in DOMAIN t : j > Len(s) + 1 => t[j].irq_line # l
  BY <1>2
<1> QED
  BY <1>2, <1>3, Zenon DEF LastIs

\* A command for another line changes nothing for line l.
LEMMA AppendOther ==
  ASSUME NEW s \in Seq(Command), NEW l \in Lines, NEW m \in Lines, m # l,
         NEW v \in BOOLEAN, NEW w \in BOOLEAN
  PROVE  LET t == Append(s, [irq_line |-> m, value |-> w])
         IN  /\ Silent(s, l) => Silent(t, l)
             /\ LastIs(s, l, v) => LastIs(t, l, v)
<1> DEFINE c == [irq_line |-> m, value |-> w]
           t == Append(s, c)
<1>1. c \in Command /\ c.irq_line # l
  BY Zenon DEF Command
<1>2. /\ DOMAIN s = 1..Len(s) /\ Len(s) \in Nat
      /\ DOMAIN t = 1..(Len(s) + 1) /\ t[Len(s) + 1] = c
      /\ \A i \in 1..Len(s) : t[i] = s[i]
  BY <1>1
<1> HIDE DEF t, c
<1>3. ASSUME Silent(s, l) PROVE Silent(t, l)
  BY <1>1, <1>2, <1>3 DEF Silent
<1>4. ASSUME LastIs(s, l, v) PROVE LastIs(t, l, v)
  <2>1. PICK i \in DOMAIN s : /\ s[i] = [irq_line |-> l, value |-> v]
                              /\ \A j \in DOMAIN s : j > i => s[j].irq_line # l
    BY <1>4, Zenon DEF LastIs
  <2>2. i \in DOMAIN t /\ t[i] = [irq_line |-> l, value |-> v]
    BY <1>2, <2>1
  <2>3. \A j \in DOMAIN t : j > i => t[j].irq_line # l
    BY <1>1, <1>2, <2>1
  <2> QED
    BY <2>2, <2>3, Zenon DEF LastIs
<1> QED
  BY <1>3, <1>4, Zenon DEF t, c

\* Delivering the first command of a batch.
LEMMA DeliverSettles ==
  ASSUME NEW l \in Lines, NEW v \in BOOLEAN, TypeOK, Deliver, Settles(l, v)
  PROVE  Settles(l, v)'
<1>1. /\ irqs \in Seq(Command) /\ irqs # <<>> /\ Len(irqs) \in Nat
      /\ DOMAIN irqs = 1..Len(irqs) /\ irqs' = Tail(irqs)
      /\ commands' = commands
      /\ line' = [line EXCEPT ![irqs[1].irq_line] = irqs[1].value]
      /\ irqs[1] \in Command
  <2>1. irqs \in Seq(Command) /\ irqs # <<>> /\ irqs' = Tail(irqs)
        /\ commands' = commands
    BY Zenon DEF Deliver, TypeOK
  <2>2. Len(irqs) \in Nat /\ DOMAIN irqs = 1..Len(irqs) /\ 1 \in DOMAIN irqs
        /\ irqs[1] \in Command /\ Head(irqs) = irqs[1]
    BY <2>1
  <2> QED
    BY <2>1, <2>2 DEF Deliver
<1>2. /\ DOMAIN irqs' = 1..(Len(irqs) - 1)
      /\ \A i \in 1..(Len(irqs) - 1) : irqs'[i] = irqs[i + 1]
  BY <1>1
<1>3. CASE LastIs(commands, l, v)
  BY <1>1, <1>3, Zenon DEF Settles, LastIs
<1>4. CASE Silent(commands, l) /\ LastIs(irqs, l, v)
  <2>1. PICK i \in DOMAIN irqs :
            /\ irqs[i] = [irq_line |-> l, value |-> v]
            /\ \A j \in DOMAIN irqs : j > i => irqs[j].irq_line # l
    BY <1>4, Zenon DEF LastIs
  <2>2. Silent(commands, l)'
    BY <1>1, <1>4 DEF Silent
  <2>3. CASE i = 1
    <3>1. Silent(irqs, l)'
      BY <1>1, <1>2, <2>1, <2>3 DEF Silent
    <3>2. line'[l] = v
      BY <1>1, <2>1, <2>3 DEF TypeOK
    <3> QED
      BY <2>2, <3>1, <3>2, Zenon DEF Settles
  <2>4. CASE i # 1
    <3>1. /\ i - 1 \in DOMAIN irqs'
          /\ irqs'[i - 1] = [irq_line |-> l, value |-> v]
      BY <1>1, <1>2, <2>1, <2>4
    <3>2. \A j \in DOMAIN irqs' : j > i - 1 => irqs'[j].irq_line # l
      BY <1>1, <1>2, <2>1, <2>4, SMTT(30)
    <3>3. LastIs(irqs, l, v)'
      BY <3>1, <3>2 DEF LastIs
    <3> QED
      BY <2>2, <3>3, Zenon DEF Settles
  <2> QED
    BY <2>3, <2>4
<1>5. CASE Silent(commands, l) /\ Silent(irqs, l) /\ line[l] = v
  <2>1. Silent(commands, l)' /\ Silent(irqs, l)'
    BY <1>1, <1>2, <1>5 DEF Silent
  <2>2. irqs[1].irq_line # l
    <3>1. 1 \in DOMAIN irqs
      BY <1>1
    <3> QED
      BY <3>1, <1>5, Zenon DEF Silent
  <2>3. line'[l] = line[l]
    BY <1>1, <2>2 DEF TypeOK
  <2> QED
    BY <2>1, <2>3, <1>5 DEF Settles
<1> QED
  BY <1>3, <1>4, <1>5, Zenon DEF Settles

\* Taking a batch: nothing is left of the previous one.
LEMMA TakeSettles ==
  ASSUME NEW l \in Lines, NEW v \in BOOLEAN,
         TypeOK, irqs = <<>>, TakeCommands, Settles(l, v)
  PROVE  Settles(l, v)'
<1>1. irqs' = commands /\ commands' = <<>> /\ line' = line
  BY Zenon DEF TakeCommands
<1>2. ~LastIs(irqs, l, v)
  BY DEF LastIs
<1>3. Silent(commands, l)'
  BY <1>1 DEF Silent
<1> QED
  BY <1>1, <1>2, <1>3 DEF Settles, LastIs, Silent

\* Pushing a command decides its own line ...
LEMMA PushOwn ==
  ASSUME NEW l \in Lines, NEW v \in BOOLEAN, TypeOK, trigger_irq(l, v)
  PROVE  Settles(l, v)'
<1>1. commands \in Seq(Command)
  BY Zenon DEF TypeOK
<1>2. LastIs(Append(commands, [irq_line |-> l, value |-> v]), l, v)
  BY <1>1, AppendDecides, Zenon
<1> QED
  BY <1>2, ZenonT(30) DEF trigger_irq, Settles, LastIs

\* ... and no other.
LEMMA PushOther ==
  ASSUME NEW l \in Lines, NEW m \in Lines, m # l,
         NEW v \in BOOLEAN, NEW w \in BOOLEAN,
         TypeOK, trigger_irq(m, w), UNCHANGED <<irqs, line>>, Settles(l, v)
  PROVE  Settles(l, v)'
<1>1. commands \in Seq(Command)
  BY Zenon DEF TypeOK
<1>2. commands' = Append(commands, [irq_line |-> m, value |-> w])
      /\ irqs' = irqs /\ line' = line
  BY SMTT(30) DEF trigger_irq
<1>3. /\ Silent(commands, l) => Silent(commands, l)'
      /\ LastIs(commands, l, v) => LastIs(commands, l, v)'
  BY <1>1, <1>2, AppendOther DEF Silent, LastIs
<1>4. /\ Silent(irqs, l) => Silent(irqs, l)'
      /\ LastIs(irqs, l, v) => LastIs(irqs, l, v)'
  BY <1>2 DEF Silent, LastIs
<1> QED
  BY <1>2, <1>3, <1>4, Zenon DEF Settles

\* A step that touches neither the commands nor the lines.
LEMMA QuietSettles ==
  ASSUME NEW l, NEW v, UNCHANGED <<commands, irqs, line>>, Settles(l, v)
  PROVE  Settles(l, v)'
BY Zenon DEF Settles, Silent, LastIs

-----------------------------------------------------------------------------
\* The registers, queues and batches keep their types.
LEMMA TypeStep ==
  TypeOK /\ [Next]_vars => TypeOK'
<1> SUFFICES ASSUME TypeOK, [Next]_vars PROVE TypeOK'
  BY Zenon
<1> USE TransportAssumption
<1>0. \A l \in Lines, v \in BOOLEAN : trigger_irq(l, v) => commands' \in Seq(Command)
  BY DEF TypeOK, trigger_irq, Command
<1>1. \A d \in Dev, v \in BOOLEAN : set_irq_line(d, v) => commands' \in Seq(Command)
  BY <1>0 DEF set_irq_line
<1>2. ASSUME NEW d \in Dev, ReadInterruptStatus(d) PROVE TypeOK'
  BY <1>1, <1>2, Zenon DEF TypeOK, ReadInterruptStatus, tickVars
<1>3. ASSUME NEW d \in Dev, NEW ack \in AckVals, WriteInterruptAck(d, ack) PROVE TypeOK'
  BY <1>1, <1>3, Zenon DEF TypeOK, WriteInterruptAck, tickVars
<1>4. ASSUME NEW d \in Dev, NEW val \in StatusVals, WriteStatus(d, val) PROVE TypeOK'
  <2>1. CASE val = 0
    <3>1. NotReady(d) \in [Queue(d) -> BOOLEAN] /\ 0 \in Queue(d)
      BY DEF NotReady, Queue
    <3>2. /\ DOMAIN ready' = Dev
          /\ \A e \in Dev : ready'[e] \in [Queue(e) -> BOOLEAN]
      BY <1>4, <2>1, <3>1, Zenon DEF TypeOK, WriteStatus
    <3>3. commands' \in Seq(Command)
      BY <1>1, <1>4, <2>1, Zenon DEF WriteStatus
    <3>4. /\ queue_sel' \in [Dev -> Nat]
          /\ \A e \in Dev : queue_sel'[e] \in Queue(e)
      BY <1>4, <2>1, <3>1, Zenon DEF TypeOK, WriteStatus
    <3> QED
      BY <1>4, <2>1, <3>2, <3>3, <3>4, Zenon DEF TypeOK, WriteStatus, tickVars
  <2>2. CASE val # 0
    BY <1>4, <2>2, Zenon DEF TypeOK, WriteStatus, tickVars
  <2> QED
    BY <2>1, <2>2, Zenon
<1>5. ASSUME NEW d \in Dev, NEW sel \in 0..queue_num[d], WriteQueueSel(d, sel) PROVE TypeOK'
  BY <1>5 DEF TypeOK, WriteQueueSel, tickVars, Queue
<1>6. ASSUME NEW d \in Dev, NEW v \in BOOLEAN, WriteQueueReady(d, v) PROVE TypeOK'
  BY <1>6 DEF TypeOK, WriteQueueReady, tickVars
<1>7. ASSUME NEW d \in Dev, NEW q \in Queue(d), NEW w \in BOOLEAN,
             WriteQueueNotify(d, q, w)
      PROVE TypeOK'
  BY <1>1, <1>7, ZenonT(30) DEF TypeOK, WriteQueueNotify, tickVars
<1>8. ASSUME NEW l \in LegacyLines, NEW v \in BOOLEAN, LegacyCommand(l, v) PROVE TypeOK'
  BY <1>0, <1>8, Zenon DEF TypeOK, LegacyCommand, tickVars, transportVars
<1>9. ASSUME NEW w \in BOOLEAN, TickDevice(w) PROVE TypeOK'
  <2>1. commands' \in Seq(Command)
    BY <1>1, <1>9, ZenonT(30) DEF TypeOK, TickDevice
  <2>2. next_dev' \in 1..(N + 1)
    BY <1>9 DEF TickDevice, Dev
  <2>3. interrupt_status' \in [Dev -> {0, 1}]
    BY <1>9, Zenon DEF TickDevice, TypeOK
  <2> QED
    BY <1>9, <2>1, <2>2, <2>3 DEF TypeOK, TickDevice
<1>10. CASE TickLock \/ TickUnlock \/ TickSleep
  BY <1>10, SMTT(30) DEF TypeOK, TickLock, TickUnlock, TickSleep, transportVars
<1>11. CASE TakeCommands
  BY <1>11 DEF TypeOK, TakeCommands, transportVars
<1>12. CASE Deliver
  <2>1. irqs # <<>> /\ irqs \in Seq(Command)
    BY <1>12, Zenon DEF Deliver, TypeOK
  <2>2. Head(irqs) \in Command /\ Tail(irqs) \in Seq(Command)
    BY <2>1
  <2>3. line' \in [Lines -> BOOLEAN]
    BY <1>12, <2>2 DEF Deliver, TypeOK, Command
  <2> QED
    BY <1>12, <2>2, <2>3, Zenon DEF TypeOK, Deliver, transportVars
<1>13. CASE UNCHANGED vars
  BY <1>13 DEF TypeOK, vars, transportVars, tickVars
<1> QED
  BY <1>2, <1>3, <1>4, <1>5, <1>6, <1>7, <1>8, <1>9, <1>10, <1>11, <1>12, <1>13, SMTT(30)
     DEF Next, Vcpu, TickThread

\* The tick thread has delivered a batch when it takes the next.
LEMMA BatchStep ==
  TypeOK /\ BatchDone /\ [Next]_vars => BatchDone'
BY ZenonT(30) DEF TypeOK, BatchDone, Next, Vcpu, TickThread, ReadInterruptStatus,
       WriteInterruptAck, WriteStatus, WriteQueueSel, WriteQueueReady,
       WriteQueueNotify, LegacyCommand, TickLock, TickDevice, TickUnlock,
       TakeCommands, Deliver, TickSleep, vars, tickVars

\* One step of anyone keeps the line of an unshared transport in step with
\* its interrupt_status; v and w are the pending flag before and after.
LEMMA LineStep ==
  ASSUME TypeOK, BatchDone, [Next]_vars,
         NEW d \in Dev, Sole(d),
         NEW v \in BOOLEAN, v = (interrupt_status[d] # 0),
         NEW w \in BOOLEAN, w = (interrupt_status'[d] # 0),
         Settles(irq_sel[d], v)
  PROVE  Settles(irq_sel[d], w)'
<1> DEFINE l == irq_sel[d]
<1>0. l \in Lines /\ Settles(l, v)
  BY TransportAssumption, SMTT(30)
<1> SUFFICES Settles(l, w)'
  OBVIOUS
<1> HIDE DEF l
<1>1. \A x \in BOOLEAN : set_irq_line(d, x) /\ w = x => Settles(l, w)'
  BY <1>0, PushOwn DEF set_irq_line, l
<1>2. ASSUME UNCHANGED <<irqs, line>>, w = v,
             NEW m \in Lines, m # l, NEW x \in BOOLEAN, trigger_irq(m, x)
      PROVE  Settles(l, w)'
  BY <1>0, <1>2, PushOther, ZenonT(30)
<1>3. ASSUME UNCHANGED <<irqs, line>>, w = v,
             NEW e \in Dev, e # d, NEW x \in BOOLEAN, set_irq_line(e, x)
      PROVE  Settles(l, w)'
  <2>1. irq_sel[e] \in Lines /\ irq_sel[e] # l
    BY <1>3, TransportAssumption DEF Sole, l
  <2> QED
    BY <1>2, <1>3, <2>1, Zenon DEF set_irq_line
<1>4. ASSUME UNCHANGED <<commands, irqs, line>>, w = v
      PROVE  Settles(l, w)'
  BY <1>0, <1>4, QuietSettles
<1>5. ASSUME NEW e \in Dev, ReadInterruptStatus(e) PROVE Settles(l, w)'
  <2>1. CASE e = d
    BY <1>1, <1>5, <2>1, ZenonT(30) DEF ReadInterruptStatus, TypeOK
  <2>2. CASE e # d
    BY <1>3, <1>5, <2>2, Zenon DEF ReadInterruptStatus, TypeOK, tickVars
  <2> QED
    BY <2>1, <2>2, ZenonT(30)
<1>6. ASSUME NEW e \in Dev, NEW ack \in AckVals, WriteInterruptAck(e, ack)
      PROVE  Settles(l, w)'
  <2>1. CASE interrupt_status'[e] = 0 /\ e = d
    BY <1>1, <1>6, <2>1, Zenon DEF WriteInterruptAck
  <2>2. CASE interrupt_status'[e] = 0 /\ e # d
    BY <1>3, <1>6, <2>2, Zenon DEF WriteInterruptAck, TypeOK, tickVars
  <2>3. CASE interrupt_status'[e] # 0
    <3>1. interrupt_status' = interrupt_status
      BY <1>6, <2>3, ZenonT(30) DEF WriteInterruptAck, TypeOK
    <3> QED
      BY <1>4, <1>6, <2>3, <3>1 DEF WriteInterruptAck, tickVars
  <2> QED
    BY <2>1, <2>2, <2>3, Zenon
<1>7. ASSUME NEW e \in Dev, NEW val \in StatusVals, WriteStatus(e, val)
      PROVE  Settles(l, w)'
  <2>1. CASE val = 0 /\ e = d
    BY <1>1, <1>7, <2>1, Zenon DEF WriteStatus, TypeOK
  <2>2. CASE val = 0 /\ e # d
    BY <1>3, <1>7, <2>2, ZenonT(30) DEF WriteStatus, TypeOK, tickVars
  <2>3. CASE val # 0
    BY <1>4, <1>7, <2>3, Zenon DEF WriteStatus, tickVars
  <2> QED
    BY <2>1, <2>2, <2>3, Zenon
<1>8. ASSUME NEW e \in Dev,
             \/ \E sel \in 0..queue_num[e] : WriteQueueSel(e, sel)
             \/ \E x \in BOOLEAN : WriteQueueReady(e, x)
      PROVE  Settles(l, w)'
  BY <1>4, <1>8, Zenon DEF WriteQueueSel, WriteQueueReady, tickVars
<1>9. ASSUME NEW e \in Dev, NEW q \in Queue(e), NEW x \in BOOLEAN,
             WriteQueueNotify(e, q, x)
      PROVE  Settles(l, w)'
  <2>1. CASE x /\ e = d
    <3>1. set_irq_line(d, TRUE)
      BY <1>9, <2>1, Zenon DEF WriteQueueNotify, TypeOK
    <3>2. w = TRUE
      <4>1. interrupt_status'[d] = 1
        BY <1>9, <2>1, Zenon DEF WriteQueueNotify, TypeOK
      <4>2. interrupt_status'[d] # 0
        BY <4>1
      <4> QED
        BY <4>2, ZenonT(30)
    <3> QED
      BY <1>1, <3>1, <3>2, Zenon
  <2>2. CASE x /\ e # d
    BY <1>3, <1>9, <2>2, ZenonT(30) DEF WriteQueueNotify, TypeOK, tickVars
  <2>3. CASE ~x
    BY <1>4, <1>9, <2>3, Zenon DEF WriteQueueNotify, tickVars
  <2> QED
    BY <2>1, <2>2, <2>3, Zenon
<1>10. ASSUME NEW m \in LegacyLines, NEW x \in BOOLEAN, LegacyCommand(m, x)
       PROVE  Settles(l, w)'
  <2>1. m \in Lines /\ m # l
    BY TransportAssumption DEF Sole, l
  <2> QED
    BY <1>2, <1>10, <2>1, ZenonT(30) DEF LegacyCommand, transportVars, tickVars
<1>11. ASSUME NEW x \in BOOLEAN, TickDevice(x) PROVE Settles(l, w)'
  <2> DEFINE raises == interrupt_status[next_dev] = 0 /\ x
  <2>1. CASE raises /\ next_dev = d
    <3>1. set_irq_line(d, TRUE)
      BY <1>11, <2>1, Zenon DEF TickDevice, TypeOK
    <3>2. w = TRUE
      <4>1. interrupt_status'[d] = 1
        BY <1>11, <2>1, Zenon DEF TickDevice, TypeOK
      <4>2. interrupt_status'[d] # 0
        BY <4>1
      <4> QED
        BY <4>2, ZenonT(30)
    <3> QED
      BY <1>1, <3>1, <3>2, ZenonT(30)
  <2>2. CASE raises /\ next_dev # d
    BY <1>3, <1>11, <2>2, Zenon DEF TickDevice, TypeOK
  <2>3. CASE ~raises
    <3>1. interrupt_status' = interrupt_status
      BY <1>11, <2>3 DEF TickDevice, TypeOK
    <3> QED
      BY <1>4, <1>11, <2>3, <3>1, ZenonT(30) DEF TickDevice
  <2> QED
    BY <2>1, <2>2, <2>3, ZenonT(30)
<1>12. CASE TickLock \/ TickUnlock \/ TickSleep
  BY <1>4, <1>12, Zenon DEF TickLock, TickUnlock, TickSleep, transportVars
<1>13. CASE TakeCommands
  <2>1. irqs = <<>> /\ w = v
    BY <1>13, Zenon DEF TakeCommands, BatchDone, transportVars
  <2> QED
    BY <1>0, <1>13, <2>1, TakeSettles, Zenon
<1>14. CASE Deliver
  <2>1. w = v
    <3>1. interrupt_status' = interrupt_status
      BY <1>14, Zenon DEF Deliver, transportVars
    <3> QED
      BY <3>1, Zenon
  <2> QED
    BY <1>0, <1>14, <2>1, DeliverSettles, ZenonT(30)
<1>15. CASE UNCHANGED vars
  BY <1>4, <1>15, Zenon DEF vars, transportVars, tickVars
<1> QED
  BY <1>5, <1>6, <1>7, <1>8, <1>9, <1>10, <1>11, <1>12, <1>13, <1>14, <1>15, Zenon
     DEF Next, Vcpu, TickThread

-----------------------------------------------------------------------------
\* Type correctness of the transports, the command queue and the tick thread.
THEOREM TypeCorrect == Spec => []TypeOK
<1>1. Init => TypeOK
  BY TransportAssumption
     DEF Init, TypeOK, Dev, Queue, NotReady
<1> QED
  BY <1>1, TypeStep, PTL DEF Spec

\* The invariant of the transport holds at the start.
LEMMA InitIInv == Init => IInv
<1> SUFFICES ASSUME Init PROVE IInv
  BY Zenon
<1>1. TypeOK
  BY TransportAssumption DEF Init, TypeOK, Dev, Queue, NotReady
<1>2. BatchDone
  BY Zenon  DEF Init, BatchDone
<1>3. ASSUME NEW d \in Dev PROVE Settles(irq_sel[d], interrupt_status[d] # 0)
  <2>1. Silent(commands, irq_sel[d]) /\ Silent(irqs, irq_sel[d])
    BY DEF Init, Silent
  <2>2. line[irq_sel[d]] = (interrupt_status[d] # 0)
    BY TransportAssumption, Zenon DEF Init
  <2> QED
    BY <2>1, <2>2, Zenon DEF Settles
<1> QED
  BY <1>1, <1>2, <1>3, Zenon DEF IInv, LineFollowsStatus

\* Every access and every step of a device keeps the invariant.
LEMMA StepIInv == IInv /\ [Next]_vars => IInv'
<1> SUFFICES ASSUME IInv, [Next]_vars PROVE IInv'
  BY Zenon
<1>1. TypeOK' /\ BatchDone'
  BY TypeStep, BatchStep DEF IInv
<1>2. ASSUME NEW d \in Dev, Sole(d)
      PROVE  Settles(irq_sel[d], interrupt_status[d] # 0)'
  <2>1. PICK v \in BOOLEAN : v = (interrupt_status[d] # 0)
    BY Zenon
  <2>2. PICK w \in BOOLEAN : w = (interrupt_status'[d] # 0)
    BY ZenonT(30)
  <2>3. Settles(irq_sel[d], v)
    BY <1>2, <2>1, Zenon DEF IInv, LineFollowsStatus
  <2>4. Settles(irq_sel[d], w)'
    BY <1>2, <2>1, <2>2, <2>3, LineStep, Zenon DEF IInv
  <2> QED
    BY <2>2, <2>4, Zenon DEF Settles, LastIs
<1> QED
  BY <1>1, <1>2, Zenon DEF IInv, LineFollowsStatus, Sole

\* The commands that are queued or being delivered always agree with the
\* interrupt_status registers of the transports that own their line.
THEOREM LineConsistent == Spec => []LineFollowsStatus
<1>1. IInv => LineFollowsStatus
  BY Zenon DEF IInv
<1> QED
  BY <1>1, InitIInv, StepIInv, PTL DEF Spec

-----------------------------------------------------------------------------
(***************************************************************************)
(* NetSystem: frames reach the guest in the order the host sent them. The  *)
(* invariant says where each frame still is, place after place on its way, *)
(* and that the places hold them in order.                                 *)
(***************************************************************************)

\* What a sequence with one more element holds.
LEMMA Longer ==
  ASSUME NEW S, NEW s \in Seq(S), NEW e \in S
  PROVE  /\ Append(s, e) \in Seq(S) /\ Len(s) \in Nat /\ Len(Append(s, e)) = Len(s) + 1
         /\ \A k \in 1 .. Len(s) : Append(s, e)[k] = s[k]
         /\ Append(s, e)[Len(s) + 1] = e
  BY AppendProperties, LenProperties

\* What a sequence without its first element holds.
LEMMA Shorter ==
  ASSUME NEW S, NEW s \in Seq(S), s # <<>>
  PROVE  /\ Tail(s) \in Seq(S) /\ Len(s) \in Nat /\ Len(s) >= 1 /\ Len(Tail(s)) = Len(s) - 1
         /\ Head(s) = s[1] /\ s[1] \in S
         /\ \A k \in 1 .. Len(s) - 1 : Tail(s)[k] = s[k + 1]
<1>1. Len(s) \in Nat /\ Len(s) # 0
  BY EmptySeq, LenProperties, Zenon
<1>2. Head(s) = s[1] /\ Head(s) \in S /\ Tail(s) \in Seq(S) /\ Len(Tail(s)) = Len(s) - 1
  BY <1>1, HeadTailProperties
<1>3. \A k \in 1 .. Len(s) - 1 : Tail(s)[k] = s[k + 1]
  BY <1>1, HeadTailProperties, Zenon
<1> QED  BY <1>1, <1>2, <1>3

Pcs == {"off", "fill", "copy", "post", "kick_rx", "kick_tx", "calling", "sent", "idle"}
Holding == {"fill", "copy", "post"}
Elements == [slot : Slots, len : Nat]
Copies == [frame : Nat, len : Nat, ahead : Nat]

NetType ==
  /\ frames \in Seq(Nat) /\ taken \in Nat /\ cleared \in Nat /\ taken <= Len(frames)
  /\ packet_recive_queue \in Seq(Nat) /\ cleared + Len(packet_recive_queue) <= taken
  /\ \A k \in 1 .. Len(packet_recive_queue) :
       packet_recive_queue[k] = taken - Len(packet_recive_queue) + k
  /\ avail \in Seq(Slots) /\ used \in Seq(Elements) /\ buf \in [Slots -> Nat]
  /\ drv \in [pc : Pcs, slot : Slots, len : Nat] /\ got \in Seq(Copies)

\* A call of the guest is the device's only as long as the guest waits for it
NetCalls ==
  /\ dev \in [by : {"none", "tick", "vcpu"}, at : {"none", "rx", "tx", "update"}]
  /\ dev.by = "none" => dev.at = "none"
  /\ dev.by = "vcpu" => drv.pc = "calling"

\* A buffer is in one place only
Free(s) == (\A k \in 1 .. Len(avail) : avail[k] # s) /\ \A k \in 1 .. Len(used) : used[k].slot # s
NetSlots ==
  /\ \A i, j \in 1 .. Len(avail) : avail[i] = avail[j] => i = j
  /\ \A i, j \in 1 .. Len(used) : used[i].slot = used[j].slot => i = j
  /\ \A i \in 1 .. Len(avail), j \in 1 .. Len(used) : avail[i] # used[j].slot
  /\ drv.pc \in Holding => Free(drv.slot)
  /\ drv.pc = "fill" => \A s \in Slots : s >= drv.slot => Free(s)

\* The frames the device is through with
Handled == {f \in cleared + 1 .. taken - Len(packet_recive_queue) : Fits(f)}
Whole(f, len) == f \in Handled /\ len = DEV_HDR + frames[f]
Full(k) == k \in 1 .. Len(used) /\ used[k].len > 0
In(k) == buf[used[k].slot]
Hand == drv.pc = "copy"

NetFrames ==
  /\ \A k \in 1 .. Len(used) : used[k].len > 0 => Whole(In(k), used[k].len)
  /\ Hand => Whole(buf[drv.slot], drv.len)
  /\ \A k \in 1 .. Len(got) : got[k].frame \in Handled /\ got[k].len = got[k].ahead + frames[got[k].frame]

NetOrder ==
  /\ \A i, j \in 1 .. Len(got) : i < j => got[i].frame < got[j].frame
  /\ Hand => \A i \in 1 .. Len(got) : got[i].frame < buf[drv.slot]
  /\ \A i \in 1 .. Len(got), j \in 1 .. Len(used) : Full(j) => got[i].frame < In(j)
  /\ Hand => \A j \in 1 .. Len(used) : Full(j) => buf[drv.slot] < In(j)
  /\ \A i, j \in 1 .. Len(used) : (Full(i) /\ Full(j) /\ i < j) => In(i) < In(j)

NetCover ==
  \A f \in Handled : \/ \E k \in 1 .. Len(got) : got[k].frame = f
                     \/ Hand /\ buf[drv.slot] = f
                     \/ \E k \in 1 .. Len(used) : Full(k) /\ In(k) = f

NetInv == NetType /\ NetCalls /\ NetSlots /\ NetFrames /\ NetOrder /\ NetCover

\* The headers of driver and device, the slots and the lengths of frames.
LEMMA NetConstants ==
  /\ DRV_HDR \in Nat /\ DRV_HDR > 0 /\ DEV_HDR \in Nat /\ DRV_HDR <= DEV_HDR /\ DEV_HDR - DRV_HDR \in Nat
  /\ Slots \subseteq Nat /\ 0 \in Slots /\ Lens \subseteq Nat
  BY NetAssumption

\* Nothing is anywhere yet
Newest ==
  /\ frames \in Seq(Nat) /\ taken \in Nat /\ taken <= Len(frames) /\ cleared = taken
  /\ packet_recive_queue = <<>> /\ avail = <<>> /\ used = <<>> /\ got = <<>>
  /\ buf = [s \in Slots |-> 0] /\ dev = Idle
  /\ drv \in [pc : {"off", "fill"}, slot : {0}, len : {0}]

\* Right after a reset the invariant of the network device holds.
LEMMA FreshIs == Newest => NetInv
<1> SUFFICES ASSUME Newest PROVE NetInv
  BY Zenon
<1>1. Len(packet_recive_queue) = 0 /\ Len(avail) = 0 /\ Len(used) = 0 /\ Len(got) = 0
  BY Zenon DEF Newest
<1>2. /\ packet_recive_queue \in Seq(Nat) /\ avail \in Seq(Slots) /\ used \in Seq(Elements) /\ got \in Seq(Copies)
      /\ frames \in Seq(Nat) /\ taken \in Nat /\ cleared = taken /\ taken <= Len(frames)
      /\ drv.pc \in {"off", "fill"} /\ drv.slot = 0 /\ drv.len = 0 /\ dev = Idle
      /\ buf \in [Slots -> Nat]
  BY DEF Newest
<1>3. NetType
  <2>1. drv \in [pc : Pcs, slot : Slots, len : Nat]
    BY NetConstants, Zenon DEF Newest, Pcs
  <2> QED  BY <1>1, <1>2, <2>1 DEF NetType
<1>4. NetCalls
  BY <1>2, Zenon DEF NetCalls, Idle
<1>5. NetSlots
  BY <1>1 DEF NetSlots, Free
<1>6. ~Hand
  BY <1>2, Zenon DEF Hand
<1>7. NetFrames /\ NetOrder
  BY <1>1, <1>6 DEF NetFrames, NetOrder
<1>8. NetCover
  <2>1. Handled = {}
    BY <1>1, <1>2 DEF Handled
  <2> QED  BY <2>1, Zenon DEF NetCover
<1> QED  BY <1>3, <1>4, <1>5, <1>7, <1>8, Zenon DEF NetInv

\* The invariant holds at the start.
LEMMA NetStart == NetInit => NetInv
<1>1. NetInit => Newest
  <2> SUFFICES ASSUME NetInit PROVE Newest
    BY Zenon
  <2>1. frames = <<>> /\ Len(frames) = 0
    BY Zenon DEF NetInit
  <2>2. drv \in [pc : {"off", "fill"}, slot : {0}, len : {0}]
    BY Zenon DEF NetInit
  <2> QED  BY <2>1, <2>2 DEF NetInit, Newest
<1> QED  BY <1>1, FreshIs, Zenon

\* virtio_net_init keeps it: what was in the rings is given up.
LEMMA NetReset == ASSUME NetInv, DriverInit PROVE NetInv'
<1>1. Newest'
  <2>1. /\ packet_recive_queue' = <<>> /\ cleared' = taken /\ avail' = <<>> /\ used' = <<>>
        /\ buf' = [s \in Slots |-> 0] /\ drv' = [pc |-> "fill", slot |-> 0, len |-> 0] /\ got' = <<>>
        /\ UNCHANGED <<frames, taken, dev>> /\ dev = Idle
    BY Zenon DEF DriverInit
  <2>2. drv' \in [pc : {"off", "fill"}, slot : {0}, len : {0}]
    BY <2>1, Zenon
  <2> QED  BY <2>1, <2>2, Zenon DEF Newest, NetInv, NetType, Idle
<1> QED  BY <1>1, FreshIs, PTL

\* A step that leaves the buffers and the frames where they are
LEMMA NetAside ==
  ASSUME NetInv, UNCHANGED <<hostVars, rxVars, got, cleared>>, NetCalls',
         drv' \in [pc : Pcs, slot : Slots, len : Nat], drv.pc \notin Holding, drv'.pc \notin Holding
  PROVE  NetInv'
<1>1. UNCHANGED <<frames, taken, packet_recive_queue, avail, used, buf, got, cleared>>
  BY Zenon DEF hostVars, rxVars
<1>2. NetType'
  BY <1>1, Zenon DEF NetInv, NetType
<1>3. NetSlots'
  BY <1>1 DEF NetInv, NetSlots, Free, Holding
<1>4. ~Hand /\ ~Hand'
  BY Zenon DEF Hand, Holding
<1>5. Handled' = Handled
  BY <1>1, Zenon DEF Handled, Fits, NET_BUF_SIZE
<1>6. NetFrames'
  BY <1>1, <1>4, <1>5, Zenon DEF NetInv, NetFrames, Whole, In
<1>7. NetOrder'
  BY <1>1, <1>4, Zenon DEF NetInv, NetOrder, In, Full
<1>8. NetCover'
  BY <1>1, <1>4, <1>5, Zenon DEF NetInv, NetCover, In, Full
<1> QED  BY <1>2, <1>3, <1>6, <1>7, <1>8, Zenon DEF NetInv

\* A step that leaves host, rings and driver alone keeps it.
LEMMA NetStill ==
  ASSUME NetInv, UNCHANGED <<hostVars, rxVars, drv, got, cleared>>, NetCalls'
  PROVE  NetInv'
<1>1. UNCHANGED <<frames, taken, packet_recive_queue, avail, used, buf, got, cleared, drv>>
  BY Zenon DEF hostVars, rxVars
<1>2. NetType'
  BY <1>1, Zenon DEF NetInv, NetType
<1>3. NetSlots'
  BY <1>1 DEF NetInv, NetSlots, Free
<1>4. Hand' = Hand
  BY <1>1, Zenon DEF Hand
<1>5. Handled' = Handled
  BY <1>1, Zenon DEF Handled, Fits, NET_BUF_SIZE
<1>6. NetFrames'
  BY <1>1, <1>4, <1>5, Zenon DEF NetInv, NetFrames, Whole, In
<1>7. NetOrder'
  BY <1>1, <1>4, Zenon DEF NetInv, NetOrder, In, Full
<1>8. NetCover'
  BY <1>1, <1>4, <1>5, Zenon DEF NetInv, NetCover, In, Full
<1> QED  BY <1>2, <1>3, <1>6, <1>7, <1>8, Zenon DEF NetInv

\* Calls of the device, what it transmits, and the end of its loops
LEMMA NetQuiet ==
  ASSUME NetInv,
         \/ TickEnter \/ RxDone \/ TxFrame \/ TxDone \/ SendReturn \/ Notify \/ UNCHANGED netVars
         \/ \E len \in Lens : Send(len)
  PROVE  NetInv'
<1>1. /\ drv \in [pc : Pcs, slot : Slots, len : Nat] /\ drv.pc \in Pcs
      /\ dev \in [by : {"none", "tick", "vcpu"}, at : {"none", "rx", "tx", "update"}]
      /\ dev.by = "none" => dev.at = "none"
      /\ dev.by = "vcpu" => drv.pc = "calling"
  BY Zenon DEF NetInv, NetType, NetCalls
<1>2. ASSUME NEW pc \in Pcs, drv' = [drv EXCEPT !.pc = pc]
      PROVE  drv' \in [pc : Pcs, slot : Slots, len : Nat] /\ drv'.pc = pc
  BY <1>1, <1>2, Zenon
<1>3. ASSUME NEW at \in {"none", "rx", "tx", "update"}, dev' = [dev EXCEPT !.at = at], dev.by # "none"
      PROVE  /\ dev' \in [by : {"none", "tick", "vcpu"}, at : {"none", "rx", "tx", "update"}]
             /\ dev'.by = dev.by /\ dev'.at = at
  BY <1>1, <1>3, Zenon
<1>4. CASE TickEnter
  <2>1. dev' = [by |-> "tick", at |-> "rx"] /\ UNCHANGED <<hostVars, rxVars, drv, histVars>>
    BY <1>4, Zenon DEF TickEnter
  <2>2. NetCalls'
    BY <1>1, <2>1, Zenon DEF NetCalls
  <2> QED  BY <2>1, <2>2, NetStill, Zenon DEF histVars
<1>5. CASE RxDone \/ TxDone
  <2>1. /\ UNCHANGED <<hostVars, rxVars, histVars>> /\ dev.by # "none"
        /\ \E at \in {"tx", "update"}, pc \in {"idle", "sent"} :
             IF dev.by = "tick" THEN dev' = [dev EXCEPT !.at = at] /\ UNCHANGED drv
             ELSE dev' = Idle /\ drv' = [drv EXCEPT !.pc = pc]
    BY <1>1, <1>5, Zenon DEF RxDone, TxDone
  <2>2. PICK at \in {"tx", "update"}, pc \in {"idle", "sent"} :
             IF dev.by = "tick" THEN dev' = [dev EXCEPT !.at = at] /\ UNCHANGED drv
             ELSE dev' = Idle /\ drv' = [drv EXCEPT !.pc = pc]
    BY <2>1, Zenon
  <2>3. CASE dev.by = "tick"
    <3>1. dev' = [dev EXCEPT !.at = at] /\ UNCHANGED drv
      BY <2>2, <2>3, Zenon
    <3>2. NetCalls'
      BY <1>3, <2>1, <2>3, <3>1, Zenon DEF NetCalls
    <3> QED  BY <2>1, <3>1, <3>2, NetStill, Zenon DEF histVars
  <2>4. CASE dev.by # "tick"
    <3>1. dev' = Idle /\ drv' = [drv EXCEPT !.pc = pc]
      BY <2>2, <2>4, Zenon
    <3>2. drv.pc = "calling" /\ pc \in Pcs /\ pc \notin Holding /\ drv.pc \notin Holding
      BY <1>1, <2>1, <2>4, Zenon DEF Pcs, Holding
    <3>3. drv' \in [pc : Pcs, slot : Slots, len : Nat] /\ drv'.pc \notin Holding
      BY <1>2, <3>1, <3>2, Zenon
    <3>4. NetCalls'
      BY <3>1, Zenon DEF NetCalls, Idle
    <3> QED  BY <2>1, <3>2, <3>3, <3>4, NetAside, Zenon DEF histVars
  <2> QED  BY <2>3, <2>4, Zenon
<1>6. CASE TxFrame \/ UNCHANGED netVars
  <2>1. UNCHANGED <<hostVars, rxVars, drv, histVars, dev>>
    BY <1>6, Zenon DEF TxFrame, netVars
  <2>2. NetCalls'
    BY <2>1, Zenon DEF NetInv, NetCalls
  <2> QED  BY <2>1, <2>2, NetStill, Zenon DEF histVars
<1>7. CASE SendReturn \/ \E len \in Lens : Send(len)
  <2>1. /\ UNCHANGED <<hostVars, rxVars, dev, histVars>> /\ drv.pc \in {"sent", "idle"}
        /\ \E pc \in {"idle", "kick_tx"} : drv' = [drv EXCEPT !.pc = pc]
    BY <1>7, Zenon DEF SendReturn, Send
  <2>2. PICK pc \in {"idle", "kick_tx"} : drv' = [drv EXCEPT !.pc = pc]
    BY <2>1, Zenon
  <2>3. pc \in Pcs /\ pc \notin Holding /\ drv.pc \notin Holding
    BY <2>1, Zenon DEF Pcs, Holding
  <2>4. drv' \in [pc : Pcs, slot : Slots, len : Nat] /\ drv'.pc \notin Holding
    BY <1>2, <2>2, <2>3, Zenon
  <2>5. NetCalls'
    BY <1>1, <2>1, Zenon DEF NetInv, NetCalls
  <2> QED  BY <2>1, <2>3, <2>4, <2>5, NetAside, Zenon DEF histVars
<1>8. CASE Notify
  <2>1. /\ UNCHANGED <<hostVars, rxVars, histVars>> /\ drv.pc \in {"kick_rx", "kick_tx"}
        /\ dev' = [by |-> "vcpu", at |-> IF drv.pc = "kick_rx" THEN "rx" ELSE "tx"]
        /\ drv' = [drv EXCEPT !.pc = "calling"]
    BY <1>8, Zenon DEF Notify
  <2>2. "calling" \in Pcs /\ "calling" \notin Holding /\ drv.pc \notin Holding
    BY <2>1, Zenon DEF Pcs, Holding
  <2>3. drv' \in [pc : Pcs, slot : Slots, len : Nat] /\ drv'.pc = "calling"
    BY <1>2, <2>1, <2>2, Zenon
  <2>4. NetCalls'
    BY <2>1, <2>3, Zenon DEF NetCalls
  <2> QED  BY <2>1, <2>2, <2>3, <2>4, NetAside, Zenon DEF histVars
<1> QED  BY <1>4, <1>5, <1>6, <1>7, <1>8, Zenon

\* The host's side: a frame arrives, a frame is read
LEMMA NetHost ==
  ASSUME NetInv, Update \/ \E len \in Lens : FrameArrives(len)
  PROVE  NetInv'
<1>1. /\ frames \in Seq(Nat) /\ taken \in Nat /\ cleared \in Nat /\ taken <= Len(frames) /\ Len(frames) \in Nat
      /\ packet_recive_queue \in Seq(Nat) /\ cleared + Len(packet_recive_queue) <= taken
      /\ Len(packet_recive_queue) \in Nat
      /\ \A k \in 1 .. Len(packet_recive_queue) :
           packet_recive_queue[k] = taken - Len(packet_recive_queue) + k
  BY LenProperties, Zenon DEF NetInv, NetType
<1>2. UNCHANGED <<avail, used, buf, drv, got, cleared>>
  BY Zenon DEF Update, FrameArrives, rxVars, histVars
<1>3. NetCalls'
  BY DEF NetInv, NetCalls, Update, FrameArrives, Idle
<1>4. /\ frames' \in Seq(Nat) /\ taken' \in Nat /\ taken' <= Len(frames') /\ packet_recive_queue' \in Seq(Nat)
      /\ cleared + Len(packet_recive_queue') <= taken'
      /\ \A k \in 1 .. Len(packet_recive_queue') :
           packet_recive_queue'[k] = taken' - Len(packet_recive_queue') + k
      /\ taken' - Len(packet_recive_queue') = taken - Len(packet_recive_queue)
      /\ \A k \in 1 .. Len(frames) : frames'[k] = frames[k]
  <2>1. CASE Update
    <3>1. frames' = frames
      BY <2>1, Zenon DEF Update
    <3>2. CASE taken < Len(frames)
      <4>1. taken' = taken + 1 /\ packet_recive_queue' = Append(packet_recive_queue, taken + 1)
        BY <2>1, <3>2, Zenon DEF Update
      <4>2. /\ packet_recive_queue' \in Seq(Nat) /\ Len(packet_recive_queue') = Len(packet_recive_queue) + 1
            /\ \A k \in 1 .. Len(packet_recive_queue) : packet_recive_queue'[k] = packet_recive_queue[k]
            /\ packet_recive_queue'[Len(packet_recive_queue) + 1] = taken + 1
        <5>1. taken + 1 \in Nat
          BY <1>1
        <5> QED  BY <1>1, <4>1, <5>1, Longer
      <4>3. ASSUME NEW k \in 1 .. Len(packet_recive_queue')
            PROVE  packet_recive_queue'[k] = taken' - Len(packet_recive_queue') + k
        <5>1. CASE k \in 1 .. Len(packet_recive_queue)
          BY <1>1, <4>1, <4>2, <5>1
        <5>2. CASE k = Len(packet_recive_queue) + 1
          BY <1>1, <4>1, <4>2, <5>2
        <5> QED  BY <1>1, <4>2, <5>1, <5>2
      <4>4. taken' \in Nat /\ taken' <= Len(frames') /\ cleared + Len(packet_recive_queue') <= taken'
            /\ taken' - Len(packet_recive_queue') = taken - Len(packet_recive_queue)
        BY <1>1, <3>1, <3>2, <4>1, <4>2
      <4> QED  BY <1>1, <3>1, <4>2, <4>3, <4>4, Zenon
    <3>3. CASE ~(taken < Len(frames))
      BY <1>1, <2>1, <3>1, <3>3, Zenon DEF Update
    <3> QED  BY <3>2, <3>3, Zenon
  <2>2. CASE \E len \in Lens : FrameArrives(len)
    <3>1. PICK len \in Lens : FrameArrives(len)
      BY <2>2, Zenon
    <3>2. /\ frames' \in Seq(Nat) /\ Len(frames') = Len(frames) + 1
          /\ \A k \in 1 .. Len(frames) : frames'[k] = frames[k]
      <4>1. len \in Nat
        BY NetConstants, Zenon
      <4> QED  BY <1>1, <3>1, <4>1, Longer DEF FrameArrives
    <3> QED  BY <1>1, <3>1, <3>2 DEF FrameArrives
  <2> QED  BY <2>1, <2>2, Zenon
<1>5. NetType'
  BY <1>1, <1>2, <1>4, Zenon DEF NetInv, NetType
<1>6. NetSlots'
  BY <1>2 DEF NetInv, NetSlots, Free
<1>7. Handled' = Handled /\ (\A f \in Handled : frames'[f] = frames[f]) /\ Hand' = Hand
  <2>1. ASSUME NEW f \in cleared + 1 .. taken - Len(packet_recive_queue) PROVE frames'[f] = frames[f]
    <3>1. f \in 1 .. Len(frames)
      BY <1>1
    <3> QED  BY <1>4, <3>1, Zenon
  <2>2. \A f \in cleared + 1 .. taken - Len(packet_recive_queue) : Fits(f)' <=> Fits(f)
    BY <2>1, Zenon DEF Fits, NET_BUF_SIZE
  <2> QED  BY <1>2, <1>4, <2>1, <2>2, Zenon DEF Handled, Hand
<1>8. NetFrames'
  BY <1>2, <1>7, Zenon DEF NetInv, NetFrames, Whole, In
<1>9. NetOrder'
  BY <1>2, <1>7, Zenon DEF NetInv, NetOrder, In, Full
<1>10. NetCover'
  BY <1>2, <1>7, Zenon DEF NetInv, NetCover, In, Full
<1> QED  BY <1>3, <1>5, <1>6, <1>8, <1>9, <1>10, Zenon DEF NetInv

\* The driver gives a buffer back
LEMMA NetPosts ==
  ASSUME NetInv, Prefill \/ PollRecycle
  PROVE  NetInv'
<1>1. /\ avail \in Seq(Slots) /\ drv \in [pc : Pcs, slot : Slots, len : Nat] /\ drv.slot \in Slots /\ drv.slot \in Nat
      /\ Len(avail) \in Nat
  BY NetConstants, LenProperties, Zenon DEF NetInv, NetType
<1>2. /\ avail' = Append(avail, drv.slot) /\ UNCHANGED <<hostVars, used, buf, dev, histVars>>
      /\ drv.pc \in {"fill", "post"}
  BY Zenon DEF Prefill, PollRecycle
<1>3. UNCHANGED <<frames, taken, packet_recive_queue, used, buf, dev, got, cleared>>
  BY <1>2, Zenon DEF hostVars, histVars
<1>4. /\ avail' \in Seq(Slots) /\ Len(avail') = Len(avail) + 1
      /\ \A k \in 1 .. Len(avail) : avail'[k] = avail[k]
      /\ avail'[Len(avail) + 1] = drv.slot
  BY <1>1, <1>2, Longer
<1>5. /\ drv' \in [pc : Pcs, slot : Slots, len : Nat]
      /\ drv'.pc = "kick_rx" \/ (drv.pc = "fill" /\ drv'.pc = "fill" /\ drv'.slot = drv.slot + 1)
  <2>1. CASE drv' = [drv EXCEPT !.pc = "kick_rx"]
    BY <1>1, <2>1, Zenon DEF Pcs
  <2>2. CASE drv.pc = "fill" /\ drv.slot + 1 \in Slots /\ drv' = [drv EXCEPT !.slot = drv.slot + 1]
    BY <1>1, <2>2, Zenon
  <2> QED  BY <2>1, <2>2, Zenon DEF Prefill, PollRecycle
<1>6. /\ Free(drv.slot)
      /\ drv.pc = "fill" => \A s \in Slots : s >= drv.slot => Free(s)
  BY <1>2, Zenon DEF NetInv, NetSlots, Holding
<1>7. NetType'
  BY <1>3, <1>4, <1>5, Zenon DEF NetInv, NetType
<1>8. NetCalls'
  <2>1. dev.by # "vcpu"
    BY <1>2, Zenon DEF NetInv, NetCalls
  <2> QED  BY <1>3, <2>1, Zenon DEF NetInv, NetCalls
<1>9. NetSlots'
  <2>1. \A i, j \in 1 .. Len(avail) : avail[i] = avail[j] => i = j
    BY Zenon DEF NetInv, NetSlots
  <2>2. \A i \in 1 .. Len(avail), j \in 1 .. Len(used) : avail[i] # used[j].slot
    BY Zenon DEF NetInv, NetSlots
  <2>3. (\A k \in 1 .. Len(avail) : avail[k] # drv.slot) /\ \A k \in 1 .. Len(used) : used[k].slot # drv.slot
    BY <1>6, Zenon DEF Free
  <2>4. \A k \in 1 .. Len(avail') : k \in 1 .. Len(avail) \/ k = Len(avail) + 1
    BY <1>1, <1>4
  <2>5. \A i, j \in 1 .. Len(avail') : avail'[i] = avail'[j] => i = j
    BY <1>4, <2>1, <2>3, <2>4, Zenon
  <2>6. \A i \in 1 .. Len(avail'), j \in 1 .. Len(used) : avail'[i] # used[j].slot
    BY <1>4, <2>2, <2>3, <2>4
  <2>7. \A s : (Free(s) /\ s # drv.slot) => Free(s)'
    BY <1>3, <1>4, <2>4, Zenon DEF Free
  <2>8. drv'.pc = "fill" => \A s \in Slots : s >= drv'.slot => Free(s)'
    <3> SUFFICES ASSUME drv'.pc = "fill", NEW s \in Slots, s >= drv'.slot PROVE Free(s)'
      BY Zenon
    <3>1. drv.pc = "fill" /\ drv'.slot = drv.slot + 1
      BY <1>5, Zenon
    <3>2. s >= drv.slot /\ s # drv.slot
      BY <1>1, <3>1, NetConstants
    <3> QED  BY <1>6, <2>7, <3>1, <3>2, Zenon
  <2>9. drv'.pc \in Holding => Free(drv.slot)'
    <3> SUFFICES ASSUME drv'.pc \in Holding PROVE Free(drv.slot)'
      BY Zenon
    <3>1. drv'.pc = "fill" /\ drv'.slot \in Slots /\ drv'.slot \in Nat
      BY <1>5, NetConstants, Zenon DEF Holding
    <3>2. drv'.slot >= drv'.slot
      BY <3>1
    <3>3. Free(drv.slot)' <=> \A s \in Slots : s = drv'.slot => Free(s)'
      BY <3>1, Zenon DEF Free
    <3> QED  BY <2>8, <3>1, <3>2, <3>3, Zenon
  <2>10. \A i, j \in 1 .. Len(used) : used[i].slot = used[j].slot => i = j
    BY Zenon DEF NetInv, NetSlots
  <2> QED  BY <1>3, <2>5, <2>6, <2>8, <2>9, <2>10, Zenon DEF NetSlots
<1>10. ~Hand /\ ~Hand'
  BY <1>2, <1>5, Zenon DEF Hand
<1>11. Handled' = Handled
  BY <1>3, Zenon DEF Handled, Fits, NET_BUF_SIZE
<1>12. NetFrames'
  BY <1>3, <1>10, <1>11, Zenon DEF NetInv, NetFrames, Whole, In
<1>13. NetOrder'
  BY <1>3, <1>10, Zenon DEF NetInv, NetOrder, In, Full
<1>14. NetCover'
  BY <1>3, <1>10, <1>11, Zenon DEF NetInv, NetCover, In, Full
<1> QED  BY <1>7, <1>8, <1>9, <1>12, <1>13, <1>14, Zenon DEF NetInv

\* Copying a received frame out of its buffer keeps it.
LEMMA NetCopies ==
  ASSUME NetInv, PollCopy
  PROVE  NetInv'
<1>1. /\ drv \in [pc : Pcs, slot : Slots, len : Nat] /\ got \in Seq(Copies) /\ buf \in [Slots -> Nat]
      /\ Len(got) \in Nat /\ frames \in Seq(Nat) /\ taken \in Nat /\ cleared \in Nat /\ taken <= Len(frames)
      /\ Len(packet_recive_queue) \in Nat /\ Len(frames) \in Nat
  BY LenProperties, Zenon DEF NetInv, NetType
<1>2. /\ drv.pc = "copy" /\ got' = Append(got, Copied) /\ drv' = [drv EXCEPT !.pc = "post"]
      /\ UNCHANGED <<hostVars, rxVars, dev, cleared>>
  BY Zenon DEF PollCopy
<1>3. UNCHANGED <<frames, taken, packet_recive_queue, avail, used, buf, dev, cleared>>
  BY <1>2, Zenon DEF hostVars, rxVars
<1>4. drv' \in [pc : Pcs, slot : Slots, len : Nat] /\ drv'.pc = "post" /\ drv'.slot = drv.slot
  BY <1>1, <1>2, Zenon DEF Pcs
<1>5. Hand /\ ~Hand'
  BY <1>2, <1>4, Zenon DEF Hand
<1> DEFINE f == buf[drv.slot]
<1>6. f \in Handled /\ drv.len = DEV_HDR + frames[f]
  BY <1>5, Zenon DEF NetInv, NetFrames, Whole
<1>7. f \in Nat /\ f \in 1 .. Len(frames) /\ frames[f] \in Nat
  <2>1. f \in cleared + 1 .. taken - Len(packet_recive_queue)
    BY <1>6, Zenon DEF Handled
  <2>2. f \in 1 .. Len(frames)
    BY <1>1, <2>1
  <2> QED  BY <1>1, <2>2, ElementOfSeq, Zenon
<1>8. Copied \in Copies /\ Copied.frame = f /\ Copied.len = Copied.ahead + frames[f]
  <2>1. drv.len - DRV_HDR \in Nat /\ drv.len - DRV_HDR = (DEV_HDR - DRV_HDR) + frames[f]
    BY <1>6, <1>7, NetConstants, SMTT(30)
  <2> QED  BY <1>7, <2>1, NetConstants, Zenon DEF Copied, Copies
<1> HIDE DEF f
<1>9. /\ got' \in Seq(Copies) /\ Len(got') = Len(got) + 1
      /\ \A k \in 1 .. Len(got) : got'[k] = got[k]
      /\ got'[Len(got) + 1] = Copied
  BY <1>1, <1>2, <1>8, Longer
<1>10. \A k \in 1 .. Len(got') : k \in 1 .. Len(got) \/ k = Len(got) + 1
  BY <1>1, <1>9
<1>11. NetType'
  BY <1>3, <1>4, <1>9, Zenon DEF NetInv, NetType
<1>12. NetCalls'
  <2>1. dev.by # "vcpu"
    BY <1>2, Zenon DEF NetInv, NetCalls
  <2> QED  BY <1>3, <2>1, Zenon DEF NetInv, NetCalls
<1>13. NetSlots'
  BY <1>2, <1>3, <1>4 DEF NetInv, NetSlots, Free, Holding
<1>14. Handled' = Handled
  BY <1>3, Zenon DEF Handled, Fits, NET_BUF_SIZE
<1>15. NetFrames'
  <2>1. \A k \in 1 .. Len(got) : got[k].frame \in Handled /\ got[k].len = got[k].ahead + frames[got[k].frame]
    BY Zenon DEF NetInv, NetFrames
  <2>2. ASSUME NEW k \in 1 .. Len(got')
        PROVE  got'[k].frame \in Handled /\ got'[k].len = got'[k].ahead + frames[got'[k].frame]
    <3>1. CASE k \in 1 .. Len(got)
      <4>1. got'[k] = got[k]
        BY <1>9, <3>1, Zenon
      <4> QED  BY <2>1, <3>1, <4>1, Zenon
    <3>2. CASE k = Len(got) + 1
      <4>1. got'[k] = Copied
        BY <1>9, <3>2, Zenon
      <4> QED  BY <1>6, <1>8, <4>1, Zenon DEF f
    <3> QED  BY <1>10, <3>1, <3>2, Zenon
  <2> QED  BY <1>3, <1>5, <1>14, <2>2, Zenon DEF NetInv, NetFrames, Whole, In
<1>16. NetOrder'
  <2>1. /\ \A i, j \in 1 .. Len(got) : i < j => got[i].frame < got[j].frame
        /\ \A i \in 1 .. Len(got) : got[i].frame < f
        /\ \A i \in 1 .. Len(got), j \in 1 .. Len(used) : Full(j) => got[i].frame < In(j)
        /\ \A j \in 1 .. Len(used) : Full(j) => f < In(j)
        /\ \A i, j \in 1 .. Len(used) : (Full(i) /\ Full(j) /\ i < j) => In(i) < In(j)
    BY <1>5, Zenon DEF NetInv, NetOrder, f
  <2>2. ASSUME NEW i \in 1 .. Len(got'), NEW j \in 1 .. Len(got'), i < j PROVE got'[i].frame < got'[j].frame
    <3>1. i \in 1 .. Len(got) /\ got'[i] = got[i]
      BY <1>1, <1>9, <2>2
    <3>2. CASE j \in 1 .. Len(got)
      <4>1. got'[j] = got[j]
        BY <1>9, <3>2, Zenon
      <4> QED  BY <2>1, <2>2, <3>1, <3>2, <4>1, Zenon
    <3>3. CASE j = Len(got) + 1
      <4>1. got'[j].frame = f
        BY <1>8, <1>9, <3>3, Zenon
      <4> QED  BY <2>1, <3>1, <4>1, Zenon
    <3> QED  BY <1>10, <3>2, <3>3, Zenon
  <2>3. \A i \in 1 .. Len(got'), j \in 1 .. Len(used) : Full(j) => got'[i].frame < In(j)
    BY <1>8, <1>9, <1>10, <2>1
  <2>4. \A j : (Full(j)' <=> Full(j)) /\ In(j)' = In(j)
    BY <1>3, Zenon DEF Full, In
  <2> QED  BY <1>3, <1>5, <2>1, <2>2, <2>3, <2>4, Zenon DEF NetOrder
<1>17. NetCover'
  <2>1. \A j : (Full(j)' <=> Full(j)) /\ In(j)' = In(j)
    BY <1>3, Zenon DEF Full, In
  <2>2. ASSUME NEW g \in Handled
        PROVE  \/ \E k \in 1 .. Len(got') : got'[k].frame = g
               \/ \E k \in 1 .. Len(used) : Full(k) /\ In(k) = g
    <3>1. CASE \E k \in 1 .. Len(got) : got[k].frame = g
      <4>1. PICK k \in 1 .. Len(got) : got[k].frame = g
        BY <3>1, Zenon
      <4>2. k \in 1 .. Len(got') /\ got'[k].frame = g
        BY <1>1, <1>9, <4>1
      <4> QED  BY <4>2, Zenon
    <3>2. CASE f = g
      <4>1. Len(got) + 1 \in 1 .. Len(got') /\ got'[Len(got) + 1].frame = g
        BY <1>1, <1>8, <1>9, <3>2
      <4> QED  BY <4>1, Zenon
    <3> QED  BY <3>1, <3>2, Zenon DEF NetInv, NetCover, f
  <2> QED  BY <1>3, <1>14, <2>1, <2>2, Zenon DEF NetCover
<1> QED  BY <1>11, <1>12, <1>13, <1>15, <1>16, <1>17, Zenon DEF NetInv

\* Taking a used entry keeps it.
LEMMA NetReceives ==
  ASSUME NetInv, PollReceive
  PROVE  NetInv'
<1> DEFINE e == used[1]
<1>1. /\ drv.pc = "idle" /\ used # <<>> /\ used' = Tail(used)
      /\ drv' = [pc |-> IF Head(used).len < DRV_HDR THEN "post" ELSE "copy",
                 slot |-> Head(used).slot, len |-> Head(used).len]
      /\ UNCHANGED <<hostVars, avail, buf, dev, histVars>>
  BY Zenon DEF PollReceive
<1>2. UNCHANGED <<frames, taken, packet_recive_queue, avail, buf, dev, got, cleared>>
  BY <1>1, Zenon DEF hostVars, histVars
<1>3. used \in Seq(Elements)
  BY Zenon DEF NetInv, NetType
<1>4. /\ used' \in Seq(Elements) /\ Len(used) \in Nat /\ Len(used) >= 1 /\ Len(used') = Len(used) - 1
      /\ Head(used) = e /\ e \in Elements
      /\ \A k \in 1 .. Len(used') : used'[k] = used[k + 1]
  BY <1>1, <1>3, Shorter
<1>5. e.slot \in Slots /\ e.len \in Nat
  BY <1>4, Zenon DEF Elements
<1>6. /\ drv'.pc = IF e.len < DRV_HDR THEN "post" ELSE "copy"
      /\ drv'.slot = e.slot /\ drv'.len = e.len /\ drv' \in [pc : Pcs, slot : Slots, len : Nat]
  <2>1. drv' = [pc |-> IF e.len < DRV_HDR THEN "post" ELSE "copy", slot |-> e.slot, len |-> e.len]
    BY <1>1, <1>4, Zenon
  <2> HIDE DEF e
  <2> QED  BY <1>5, <2>1, Zenon DEF Pcs
<1>7. \A k \in 1 .. Len(used') : k \in 1 .. Len(used) /\ k + 1 \in 1 .. Len(used) /\ k + 1 # 1 /\ 1 < k + 1
  BY <1>4
<1>8. 1 \in 1 .. Len(used)
  BY <1>4
<1>9. \A k \in 1 .. Len(used) : k = 1 \/ (k - 1 \in 1 .. Len(used') /\ k = (k - 1) + 1)
  BY <1>4
<1>10. \A k \in 1 .. Len(used') : (Full(k)' <=> Full(k + 1)) /\ In(k)' = In(k + 1)
  BY <1>2, <1>4, <1>7 DEF Full, In
<1>11. NetType'
  BY <1>2, <1>4, <1>6, Zenon DEF NetInv, NetType
<1>12. NetCalls'
  <2>1. dev.by # "vcpu"
    BY <1>1 DEF NetInv, NetCalls
  <2> QED  BY <1>2, <2>1, Zenon DEF NetInv, NetCalls
<1>13. NetSlots'
  <2>1. /\ \A i, j \in 1 .. Len(avail) : avail[i] = avail[j] => i = j
        /\ \A i, j \in 1 .. Len(used) : used[i].slot = used[j].slot => i = j
        /\ \A i \in 1 .. Len(avail), j \in 1 .. Len(used) : avail[i] # used[j].slot
    BY Zenon DEF NetInv, NetSlots
  <2>2. \A i, j \in 1 .. Len(used') : used'[i].slot = used'[j].slot => i = j
    <3> SUFFICES ASSUME NEW i \in 1 .. Len(used'), NEW j \in 1 .. Len(used'), used'[i].slot = used'[j].slot PROVE i = j
      BY Zenon
    <3>1. used[i + 1].slot = used[j + 1].slot
      BY <1>4, Zenon
    <3>2. i + 1 = j + 1
      BY <1>7, <2>1, <3>1, Zenon
    <3> QED  BY <3>2
  <2>3. \A i \in 1 .. Len(avail), j \in 1 .. Len(used') : avail[i] # used'[j].slot
    BY <1>4, <1>7, <2>1, SMTT(30)
  <2>4. \A k \in 1 .. Len(used') : used'[k].slot # e.slot
    BY <1>4, <1>7, <1>8, <2>1, Zenon
  <2>5. Free(drv.slot)'
    BY <1>2, <1>6, <1>8, <2>1, <2>4 DEF Free
  <2>6. drv'.pc # "fill"
    BY <1>6, Zenon
  <2> QED  BY <1>2, <2>1, <2>2, <2>3, <2>5, <2>6, Zenon DEF NetSlots
<1>14. Handled' = Handled /\ ~Hand
  BY <1>1, <1>2, Zenon DEF Handled, Fits, NET_BUF_SIZE, Hand
<1>15. \A f \in Handled : frames[f] \in Nat
  <2> SUFFICES ASSUME NEW f \in Handled PROVE frames[f] \in Nat
    BY Zenon
  <2>1. /\ frames \in Seq(Nat) /\ taken \in Nat /\ cleared \in Nat /\ taken <= Len(frames)
        /\ Len(packet_recive_queue) \in Nat /\ Len(frames) \in Nat
    BY LenProperties, Zenon DEF NetInv, NetType
  <2>2. f \in cleared + 1 .. taken - Len(packet_recive_queue)
    BY Zenon DEF Handled
  <2>3. f \in 1 .. Len(frames)
    BY <2>1, <2>2
  <2> QED  BY <2>1, <2>3, ElementOfSeq, Zenon
<1>16. Hand' <=> Full(1)
  <2>1. e.len > 0 => e.len = DEV_HDR + frames[In(1)] /\ In(1) \in Handled
    BY <1>8, Zenon DEF NetInv, NetFrames, Whole
  <2>2. e.len > 0 => ~(e.len < DRV_HDR)
    BY <1>5, <1>15, <2>1, NetConstants
  <2>3. ~(e.len > 0) => e.len < DRV_HDR
    BY <1>5, NetConstants
  <2> QED  BY <1>6, <1>8, <2>2, <2>3 DEF Hand, Full
<1>17. buf'[drv'.slot] = In(1)
  BY <1>2, <1>6, Zenon DEF In
<1>18. NetFrames'
  <2>1. /\ \A k \in 1 .. Len(used) : used[k].len > 0 => Whole(In(k), used[k].len)
        /\ \A k \in 1 .. Len(got) : got[k].frame \in Handled /\ got[k].len = got[k].ahead + frames[got[k].frame]
    BY Zenon DEF NetInv, NetFrames
  <2>2. \A f, n : Whole(f, n)' <=> Whole(f, n)
    BY <1>2, <1>14, Zenon DEF Whole
  <2>3. \A k \in 1 .. Len(used') : used'[k].len > 0 => Whole(In(k), used[k].len)'
    <3> SUFFICES ASSUME NEW k \in 1 .. Len(used'), used'[k].len > 0 PROVE Whole(In(k), used[k].len)'
      BY Zenon
    <3>1. Whole(In(k + 1), used[k + 1].len)
      BY <1>4, <1>7, <2>1, Zenon
    <3> QED  BY <1>2, <1>4, <1>10, <1>14, <3>1, Zenon DEF Whole
  <2>4. Hand' => Whole(buf[drv.slot], drv.len)'
    <3> SUFFICES ASSUME Hand' PROVE Whole(buf[drv.slot], drv.len)'
      BY Zenon
    <3>1. Whole(In(1), e.len)
      BY <1>8, <1>16, <2>1, Zenon DEF Full
    <3> QED  BY <1>2, <1>6, <1>14, <1>17, <3>1, Zenon DEF Whole
  <2> QED  BY <1>2, <1>14, <2>1, <2>3, <2>4 DEF NetFrames
<1>19. NetOrder'
  <2>1. /\ \A i, j \in 1 .. Len(got) : i < j => got[i].frame < got[j].frame
        /\ \A i \in 1 .. Len(got), j \in 1 .. Len(used) : Full(j) => got[i].frame < In(j)
        /\ \A i, j \in 1 .. Len(used) : (Full(i) /\ Full(j) /\ i < j) => In(i) < In(j)
    BY Zenon DEF NetInv, NetOrder
  <2>2. Hand' => \A i \in 1 .. Len(got) : got[i].frame < buf'[drv'.slot]
    BY <1>8, <1>16, <1>17, <2>1, Zenon
  <2>3. \A i \in 1 .. Len(got), j \in 1 .. Len(used') : Full(j)' => got[i].frame < In(j)'
    BY <1>7, <1>10, <2>1, Zenon
  <2>4. Hand' => \A j \in 1 .. Len(used') : Full(j)' => buf'[drv'.slot] < In(j)'
    BY <1>7, <1>8, <1>10, <1>16, <1>17, <2>1, Zenon
  <2>5. \A i, j \in 1 .. Len(used') : (Full(i)' /\ Full(j)' /\ i < j) => In(i)' < In(j)'
    <3> SUFFICES ASSUME NEW i \in 1 .. Len(used'), NEW j \in 1 .. Len(used'), Full(i)', Full(j)', i < j
                 PROVE  In(i)' < In(j)'
      BY Zenon
    <3>1. i + 1 < j + 1
      OBVIOUS
    <3> QED  BY <1>7, <1>10, <2>1, <3>1, Zenon
  <2> QED  BY <1>2, <2>1, <2>2, <2>3, <2>4, <2>5 DEF NetOrder
<1>20. NetCover'
  <2>1. ASSUME NEW g \in Handled
        PROVE  \/ \E k \in 1 .. Len(got) : got[k].frame = g
               \/ Hand' /\ buf'[drv'.slot] = g
               \/ \E k \in 1 .. Len(used') : Full(k)' /\ In(k)' = g
    <3>1. CASE \E k \in 1 .. Len(used) : Full(k) /\ In(k) = g
      <4>1. PICK k \in 1 .. Len(used) : Full(k) /\ In(k) = g
        BY <3>1, Zenon
      <4>2. CASE k = 1
        BY <1>16, <1>17, <4>1, <4>2, Zenon
      <4>3. CASE k # 1
        <5>1. k - 1 \in 1 .. Len(used') /\ k = (k - 1) + 1
          BY <1>9, <4>3, Zenon
        <5>2. Full(k - 1)' /\ In(k - 1)' = g
          BY <1>10, <4>1, <5>1, Zenon
        <5> QED  BY <5>1, <5>2, Zenon
      <4> QED  BY <4>2, <4>3, Zenon
    <3> QED  BY <1>14, <3>1, Zenon DEF NetInv, NetCover
  <2> QED  BY <1>2, <1>14, <2>1, Zenon DEF NetCover
<1> QED  BY <1>11, <1>12, <1>13, <1>18, <1>19, <1>20, Zenon DEF NetInv

\* The receive loop taking a frame, with a buffer or without, keeps it.
LEMMA NetFrame ==
  ASSUME NetInv, RxFrame
  PROVE  NetInv'
<1> DEFINE q == packet_recive_queue
           f == q[1]
           s == avail[1]
<1>0. PICK n \in Nat : n = Len(used)
  <2>1. Len(used) \in Nat
    BY LenProperties, Zenon DEF NetInv, NetType
  <2> QED  BY <2>1, Zenon
<1>1. /\ frames \in Seq(Nat) /\ taken \in Nat /\ cleared \in Nat /\ taken <= Len(frames) /\ Len(frames) \in Nat
      /\ q \in Seq(Nat) /\ Len(q) \in Nat /\ cleared + Len(q) <= taken
      /\ \A k \in 1 .. Len(q) : q[k] = taken - Len(q) + k
      /\ avail \in Seq(Slots) /\ used \in Seq(Elements) /\ buf \in [Slots -> Nat]
  BY LenProperties, Zenon DEF NetInv, NetType
<1>2. /\ q # <<>> /\ avail # <<>>
      /\ buf' = IF Fits(Head(q)) THEN [buf EXCEPT ![Head(avail)] = Head(q)] ELSE buf
      /\ used' = Append(used, [slot |-> Head(avail), len |-> IF Fits(Head(q)) THEN DEV_HDR + frames[Head(q)] ELSE 0])
      /\ q' = Tail(q) /\ avail' = Tail(avail)
      /\ UNCHANGED <<frames, taken, dev, drv, histVars>>
  BY Zenon DEF RxFrame
<1>3. UNCHANGED <<frames, taken, dev, drv, got, cleared>>
  BY <1>2, Zenon DEF histVars
<1>4. /\ q' \in Seq(Nat) /\ Len(q) >= 1 /\ Len(q') = Len(q) - 1 /\ Head(q) = f /\ f \in Nat
      /\ \A k \in 1 .. Len(q') : q'[k] = q[k + 1]
  BY <1>1, <1>2, Shorter, ZenonT(30)
<1>5. /\ avail' \in Seq(Slots) /\ Len(avail) \in Nat /\ Len(avail) >= 1 /\ Len(avail') = Len(avail) - 1
      /\ Head(avail) = s /\ s \in Slots
      /\ \A k \in 1 .. Len(avail') : avail'[k] = avail[k + 1]
  BY <1>1, <1>2, Shorter
<1>6. f = taken - Len(q) + 1 /\ f \in 1 .. Len(frames) /\ f \in cleared + 1 .. taken /\ frames[f] \in Nat
  <2>1. f = taken - Len(q) + 1
    BY <1>1, <1>4
  <2>2. /\ taken \in Nat /\ cleared \in Nat /\ Len(frames) \in Nat /\ Len(q) \in Nat
        /\ taken <= Len(frames) /\ cleared + Len(q) <= taken /\ Len(q) >= 1
    BY <1>1, <1>4, Zenon
  <2> DEFINE m == Len(q)
             l == Len(frames)
  <2> HIDE DEF m, l, f
  <2>3. f \in 1 .. l /\ f \in cleared + 1 .. taken
    <3>1. f = taken - m + 1 /\ m \in Nat /\ l \in Nat /\ taken <= l /\ cleared + m <= taken /\ m >= 1
      BY <2>1, <2>2, Zenon DEF m, l
    <3> QED  BY <2>2, <3>1
  <2> QED  BY <1>1, <2>1, <2>3, ElementOfSeq, Zenon DEF l
<1> DEFINE len == IF Fits(f) THEN DEV_HDR + frames[f] ELSE 0
           e == [slot |-> s, len |-> len]
<1>7. len \in Nat /\ (len > 0 <=> Fits(f)) /\ (Fits(f) => len = DEV_HDR + frames[f])
  BY <1>6, NetConstants
<1>8. used' = Append(used, e) /\ buf' = IF Fits(f) THEN [buf EXCEPT ![s] = f] ELSE buf
  BY <1>2, <1>4, <1>5, Zenon
<1> HIDE DEF f, s, len
<1>9. e \in Elements /\ e.slot = s /\ e.len = len
  BY <1>5, <1>7 DEF Elements
<1> HIDE DEF e
<1>10. /\ used' \in Seq(Elements) /\ Len(used') = n + 1
       /\ \A k \in 1 .. n : used'[k] = used[k]
       /\ used'[n + 1] = e
  BY <1>0, <1>1, <1>8, <1>9, Longer
<1>11. \A k \in 1 .. Len(used') : k \in 1 .. n \/ k = n + 1
  BY <1>1, <1>10
<1>12. buf' \in [Slots -> Nat] /\ (\A t \in Slots : t # s => buf'[t] = buf[t]) /\ (Fits(f) => buf'[s] = f)
  BY <1>1, <1>4, <1>5, <1>8, Zenon
<1>13. NetType'
  <2>1. cleared + Len(q') <= taken /\ \A k \in 1 .. Len(q') : q'[k] = taken - Len(q') + k
    <3>1. ASSUME NEW k \in 1 .. Len(q') PROVE q'[k] = taken - Len(q') + k
      <4>1. k + 1 \in 1 .. Len(q) /\ q'[k] = q[k + 1]
        BY <1>1, <1>4, SMTT(30)
      <4>2. q[k + 1] = taken - Len(q) + (k + 1)
        BY <1>1, <4>1, Zenon
      <4> QED  BY <1>1, <1>4, <4>1, <4>2
    <3> QED  BY <1>1, <1>4, <3>1
  <2> QED  BY <1>1, <1>3, <1>4, <1>5, <1>10, <1>12, <2>1, Zenon DEF NetInv, NetType
<1>14. NetCalls'
  BY <1>3, Zenon DEF NetInv, NetCalls
<1>15. /\ \A i, j \in 1 .. Len(avail) : avail[i] = avail[j] => i = j
       /\ \A i, j \in 1 .. n : used[i].slot = used[j].slot => i = j
       /\ \A i \in 1 .. Len(avail), j \in 1 .. n : avail[i] # used[j].slot
       /\ drv.pc \in Holding => Free(drv.slot)
       /\ drv.pc = "fill" => \A t \in Slots : t >= drv.slot => Free(t)
  BY <1>0, Zenon DEF NetInv, NetSlots
<1>16. 1 \in 1 .. Len(avail) /\ \A k \in 1 .. Len(avail') : k + 1 \in 1 .. Len(avail) /\ k + 1 # 1
  BY <1>5
<1>17. (\A k \in 1 .. n : used[k].slot # s) /\ ~Free(s)
  BY <1>15, <1>16 DEF s, Free
<1>18. NetSlots'
  <2>1. \A i, j \in 1 .. Len(avail') : avail'[i] = avail'[j] => i = j
    <3> SUFFICES ASSUME NEW i \in 1 .. Len(avail'), NEW j \in 1 .. Len(avail'), avail'[i] = avail'[j] PROVE i = j
      BY Zenon
    <3>1. i + 1 = j + 1
      BY <1>5, <1>15, <1>16
    <3> QED  BY <3>1
  <2>2. \A k \in 1 .. Len(avail') : avail'[k] # s /\ \A j \in 1 .. n : avail'[k] # used[j].slot
    BY <1>5, <1>15, <1>16 DEF s
  <2>3. used'[n + 1].slot = s
    BY <1>9, <1>10, Zenon
  <2>4. \A i, j \in 1 .. Len(used') : used'[i].slot = used'[j].slot => i = j
    BY <1>10, <1>11, <1>15, <1>17, <2>3
  <2>5. \A i \in 1 .. Len(avail'), j \in 1 .. Len(used') : avail'[i] # used'[j].slot
    BY <1>10, <1>11, <2>2, <2>3, Zenon
  <2>6. \A t : Free(t) => Free(t)'
    <3> SUFFICES ASSUME NEW t, Free(t) PROVE Free(t)'
      BY Zenon
    <3>1. t # s
      BY <1>17, Zenon
    <3>2. \A k \in 1 .. Len(avail') : avail'[k] # t
      BY <1>5, <1>16, Zenon DEF Free
    <3>3. \A k \in 1 .. Len(used') : used'[k].slot # t
      BY <1>0, <1>10, <1>11, <2>3, <3>1, Zenon DEF Free
    <3> QED  BY <3>2, <3>3, Zenon DEF Free
  <2>7. drv'.pc \in Holding => Free(drv.slot)'
    <3> SUFFICES ASSUME drv.pc \in Holding PROVE Free(drv.slot)'
      BY <1>3, Zenon
    <3>1. \A t : t = drv.slot => Free(t)'
      BY <1>15, <2>6, Zenon
    <3> QED  BY <1>3, <3>1, Zenon DEF Free
  <2>8. drv'.pc = "fill" => \A t \in Slots : t >= drv'.slot => Free(t)'
    BY <1>3, <1>15, <2>6, Zenon
  <2> QED  BY <2>1, <2>4, <2>5, <2>7, <2>8, Zenon DEF NetSlots
<1>19. \A k \in 1 .. n : (Full(k)' <=> Full(k)) /\ In(k)' = In(k) /\ used'[k] = used[k]
  <2> SUFFICES ASSUME NEW k \in 1 .. n PROVE (Full(k)' <=> Full(k)) /\ In(k)' = In(k) /\ used'[k] = used[k]
    BY Zenon
  <2>1. used'[k] = used[k] /\ k \in 1 .. Len(used')
    BY <1>1, <1>10
  <2>2. used[k].slot \in Slots /\ used[k].slot # s
    <3>1. used[k] \in Elements
      BY <1>0, <1>1, ElementOfSeq, Zenon
    <3> QED  BY <1>17, <3>1, Zenon DEF Elements
  <2> QED  BY <1>0, <1>12, <2>1, <2>2, Zenon DEF Full, In
<1>20. /\ Full(n + 1)' <=> Fits(f)
       /\ Fits(f) => In(n + 1)' = f
  <2>1. n + 1 \in 1 .. Len(used') /\ used'[n + 1].slot = s /\ used'[n + 1].len = len
    BY <1>1, <1>9, <1>10
  <2> QED  BY <1>7, <1>12, <2>1, Zenon DEF Full, In
<1>21. Hand' = Hand /\ (Hand => buf'[drv'.slot] = buf[drv.slot])
  <2>1. ASSUME Hand PROVE buf'[drv.slot] = buf[drv.slot]
    <3>1. Free(drv.slot)
      BY <1>15, <2>1, Zenon DEF Hand, Holding
    <3>2. drv.slot \in Slots /\ drv.slot # s
      BY <1>17, <3>1, Zenon DEF NetInv, NetType
    <3> QED  BY <1>12, <3>2, Zenon
  <2> QED  BY <1>3, <2>1, Zenon DEF Hand
<1>22. /\ \A g \in Handled : g < f /\ g \in Handled'
       /\ Fits(f) => f \in Handled'
       /\ \A g \in Handled' : g \in Handled \/ (Fits(f) /\ g = f)
  <2>1. \A g : Fits(g)' <=> Fits(g)
    BY <1>3, Zenon DEF Fits, NET_BUF_SIZE
  <2>2. cleared' + 1 .. taken' - Len(q') = (cleared + 1 .. taken - Len(q)) \cup {f}
    <3> DEFINE m == Len(q)
    <3>1. /\ m \in Nat /\ taken \in Nat /\ cleared \in Nat /\ cleared + m <= taken /\ m >= 1
          /\ f = taken - m + 1 /\ Len(q') = m - 1 /\ cleared' = cleared /\ taken' = taken
      BY <1>1, <1>3, <1>4, <1>6, Zenon
    <3> HIDE DEF m
    <3>2. cleared + 1 .. taken - (m - 1) = (cleared + 1 .. taken - m) \cup {f}
      BY <3>1
    <3> QED  BY <3>1, <3>2, Zenon DEF m
  <2>3. \A g \in cleared + 1 .. taken - Len(q) : g < f
    BY <1>1, <1>6
  <2> QED  BY <2>1, <2>2, <2>3, Zenon DEF Handled
<1>23. /\ \A k \in 1 .. n : used[k].len > 0 => Whole(In(k), used[k].len)
       /\ Hand => Whole(buf[drv.slot], drv.len)
       /\ \A k \in 1 .. Len(got) : got[k].frame \in Handled /\ got[k].len = got[k].ahead + frames[got[k].frame]
  BY <1>0 DEF NetInv, NetFrames
<1>24. NetFrames'
  <2>1. ASSUME NEW k \in 1 .. Len(used'), used'[k].len > 0
        PROVE  In(k)' \in Handled' /\ used'[k].len = DEV_HDR + frames[In(k)']
    <3>1. CASE k \in 1 .. n
      BY <1>19, <1>22, <1>23, <2>1, <3>1 DEF Whole
    <3>2. CASE k = n + 1
      <4>1. used'[k].len = len
        BY <1>9, <1>10, <3>2, Zenon
      <4> QED  BY <1>7, <1>20, <1>22, <2>1, <3>2, <4>1, Zenon
    <3> QED  BY <1>11, <3>1, <3>2
  <2>2. Hand' => buf'[drv'.slot] \in Handled' /\ drv'.len = DEV_HDR + frames[buf'[drv'.slot]]
    BY <1>3, <1>21, <1>22, <1>23 DEF Whole
  <2>3. \A k \in 1 .. Len(got) : got[k].frame \in Handled' /\ got[k].len = got[k].ahead + frames[got[k].frame]
    BY <1>22, <1>23
  <2> QED  BY <1>3, <2>1, <2>2, <2>3, Zenon DEF NetFrames, Whole
<1>25. NetOrder'
  <2>1. /\ \A i, j \in 1 .. Len(got) : i < j => got[i].frame < got[j].frame
        /\ Hand => \A i \in 1 .. Len(got) : got[i].frame < buf[drv.slot]
        /\ \A i \in 1 .. Len(got), j \in 1 .. n : Full(j) => got[i].frame < In(j)
        /\ Hand => \A j \in 1 .. n : Full(j) => buf[drv.slot] < In(j)
        /\ \A i, j \in 1 .. n : (Full(i) /\ Full(j) /\ i < j) => In(i) < In(j)
    BY <1>0 DEF NetInv, NetOrder
  <2>2. \A i \in 1 .. Len(got), j \in 1 .. Len(used') : Full(j)' => got[i].frame < In(j)'
    BY <1>11, <1>19, <1>20, <1>22, <1>23, <2>1, SMTT(30)
  <2>3. Hand => \A j \in 1 .. Len(used') : Full(j)' => buf[drv.slot] < In(j)'
    BY <1>11, <1>19, <1>20, <1>22, <1>23, <2>1 DEF Whole
  <2>4. ASSUME NEW i \in 1 .. Len(used'), NEW j \in 1 .. Len(used'), Full(i)', Full(j)', i < j
        PROVE  In(i)' < In(j)'
    <3>1. i \in 1 .. n
      BY <1>1, <1>10, <2>4
    <3>2. Full(i) /\ In(i)' = In(i)
      BY <1>19, <2>4, <3>1
    <3>3. CASE j \in 1 .. n
      BY <1>19, <2>1, <2>4, <3>1, <3>2, <3>3, Zenon
    <3>4. CASE j = n + 1
      <4>1. In(i) \in Handled
        BY <1>23, <3>1, <3>2 DEF Full, Whole
      <4> QED  BY <1>20, <1>22, <2>4, <3>2, <3>4, <4>1
    <3> QED  BY <1>11, <3>3, <3>4, Zenon
  <2> QED  BY <1>3, <1>21, <2>1, <2>2, <2>3, <2>4, SMTT(30) DEF NetOrder
<1>26. NetCover'
  <2>1. ASSUME NEW g \in Handled'
        PROVE  \/ \E k \in 1 .. Len(got) : got[k].frame = g
               \/ Hand /\ buf[drv.slot] = g
               \/ \E k \in 1 .. Len(used') : Full(k)' /\ In(k)' = g
    <3>1. CASE g \in Handled
      <4>1. CASE \E k \in 1 .. n : Full(k) /\ In(k) = g
        <5>1. PICK k \in 1 .. n : Full(k) /\ In(k) = g
          BY <4>1, Zenon
        <5>2. k \in 1 .. Len(used')
          BY <1>1, <1>10
        <5> QED  BY <1>19, <5>1, <5>2, Zenon
      <4> QED  BY <1>0, <3>1, <4>1 DEF NetInv, NetCover
    <3>2. CASE Fits(f) /\ g = f
      <4>1. n + 1 \in 1 .. Len(used')
        BY <1>1, <1>10
      <4> QED  BY <1>20, <3>2, <4>1, Zenon
    <3> QED  BY <1>22, <3>1, <3>2, Zenon
  <2> QED  BY <1>3, <1>21, <2>1, Zenon DEF NetCover
<1> QED  BY <1>13, <1>14, <1>18, <1>24, <1>25, <1>26, Zenon DEF NetInv

\* From the invariant: each frame is in one place and they are in order.
LEMMA NetMeans == ASSUME NetInv PROVE FramesInOrder
<1> DEFINE q == packet_recive_queue
           m == taken - Len(q)
<1>1. /\ taken \in Nat /\ cleared \in Nat /\ Len(q) \in Nat /\ cleared + Len(q) <= taken
      /\ \A k \in 1 .. Len(q) : q[k] = m + k
      /\ q \in Seq(Nat) /\ got \in Seq(Copies) /\ used \in Seq(Elements)
  BY LenProperties, Zenon DEF NetInv, NetType
<1>2. DOMAIN q = 1 .. Len(q) /\ DOMAIN got = 1 .. Len(got) /\ DOMAIN used = 1 .. Len(used)
  BY <1>1, LenProperties, Zenon
<1>3. m \in Nat /\ cleared <= m /\ m <= taken
  BY <1>1
<1>4. Handled = {f \in cleared + 1 .. m : Fits(f)}
  BY Zenon DEF Handled
<1>5. /\ \A k \in 1 .. Len(got) : <<1, k>> \in Places /\ FrameAt(<<1, k>>) = got[k].frame
      /\ Hand => <<2, 1>> \in Places /\ FrameAt(<<2, 1>>) = buf[drv.slot]
      /\ \A k \in 1 .. Len(used) : Full(k) => <<3, k>> \in Places /\ FrameAt(<<3, k>>) = In(k)
      /\ \A k \in 1 .. Len(q) : Fits(q[k]) => <<4, k>> \in Places /\ FrameAt(<<4, k>>) = q[k]
  BY <1>2 DEF Places, FrameAt, Hand, Full, In
<1>6. ASSUME NEW p \in Places
      PROVE  \/ \E k \in 1 .. Len(got) : p = <<1, k>>
             \/ Hand /\ p = <<2, 1>>
             \/ \E k \in 1 .. Len(used) : Full(k) /\ p = <<3, k>>
             \/ \E k \in 1 .. Len(q) : Fits(q[k]) /\ p = <<4, k>>
  BY <1>2, SMTT(30) DEF Places, Hand, Full
<1> DEFINE Stage(p, n) ==
             \/ n = 1 /\ p[1] = 1 /\ p[2] \in 1 .. Len(got) /\ FrameAt(p) = got[p[2]].frame
             \/ n = 2 /\ p[1] = 2 /\ p[2] = 1 /\ Hand /\ FrameAt(p) = buf[drv.slot]
             \/ n = 3 /\ p[1] = 3 /\ p[2] \in 1 .. Len(used) /\ Full(p[2]) /\ FrameAt(p) = In(p[2])
             \/ n = 4 /\ p[1] = 4 /\ p[2] \in 1 .. Len(q) /\ Fits(q[p[2]]) /\ FrameAt(p) = q[p[2]]
<1>7. \A p \in Places : \E n \in 1 .. 4 : Stage(p, n) /\ p[1] = n
  <2> SUFFICES ASSUME NEW p \in Places PROVE \E n \in 1 .. 4 : Stage(p, n) /\ p[1] = n
    BY Zenon
  <2> HIDE DEF Stage
  <2>0. 1 \in 1 .. 4 /\ 2 \in 1 .. 4 /\ 3 \in 1 .. 4 /\ 4 \in 1 .. 4
    OBVIOUS
  <2>1. CASE \E k \in 1 .. Len(got) : p = <<1, k>>
    <3>1. PICK k \in 1 .. Len(got) : p = <<1, k>>
      BY <2>1, Zenon
    <3>2. p[1] = 1 /\ p[2] = k
      BY <3>1
    <3>3. Stage(p, 1)
      BY <1>5, <3>1, <3>2, Zenon DEF Stage
    <3> QED  BY <2>0, <3>2, <3>3, Zenon
  <2>2. CASE Hand /\ p = <<2, 1>>
    <3>1. Stage(p, 2) /\ p[1] = 2
      BY <1>5, <2>2 DEF Stage
    <3> QED  BY <2>0, <3>1, Zenon
  <2>3. CASE \E k \in 1 .. Len(used) : Full(k) /\ p = <<3, k>>
    <3>1. PICK k \in 1 .. Len(used) : Full(k) /\ p = <<3, k>>
      BY <2>3, Zenon
    <3>2. p[1] = 3 /\ p[2] = k
      BY <3>1, SMTT(30)
    <3>3. Stage(p, 3)
      BY <1>5, <3>1, <3>2, Zenon DEF Stage
    <3> QED  BY <2>0, <3>2, <3>3, Zenon
  <2>4. CASE \E k \in 1 .. Len(q) : Fits(q[k]) /\ p = <<4, k>>
    <3>1. PICK k \in 1 .. Len(q) : Fits(q[k]) /\ p = <<4, k>>
      BY <2>4, Zenon
    <3>2. p[1] = 4 /\ p[2] = k
      BY <3>1
    <3>3. Stage(p, 4)
      BY <1>5, <3>1, <3>2, Zenon DEF Stage
    <3> QED  BY <2>0, <3>2, <3>3, Zenon
  <2> QED  BY <1>6, <2>1, <2>2, <2>3, <2>4, Zenon
<1>8. /\ \A k \in 1 .. Len(got) : got[k].frame \in Handled
      /\ Hand => buf[drv.slot] \in Handled
      /\ \A k \in 1 .. Len(used) : Full(k) => In(k) \in Handled
  BY Zenon  DEF NetInv, NetFrames, Whole, Full
<1>9. \A p \in Places : p[1] # 4 => FrameAt(p) \in Handled
  BY <1>7, <1>8, Zenon
<1>10. \A p \in Places : p[1] = 4 => FrameAt(p) \in {f \in m + 1 .. taken : Fits(f)} /\ FrameAt(p) = m + p[2]
  <2> SUFFICES ASSUME NEW p \in Places, p[1] = 4
               PROVE  FrameAt(p) \in {f \in m + 1 .. taken : Fits(f)} /\ FrameAt(p) = m + p[2]
    BY Zenon
  <2>1. p[2] \in 1 .. Len(q) /\ Fits(q[p[2]]) /\ FrameAt(p) = q[p[2]]
    <3>1. PICK n \in 1 .. 4 : Stage(p, n) /\ p[1] = n
      BY <1>7, Zenon
    <3>2. 4 # 1 /\ 4 # 2 /\ 4 # 3
      OBVIOUS
    <3> QED  BY <3>1, <3>2, Zenon
  <2>2. q[p[2]] = m + p[2]
    BY <1>1, <2>1
  <2>3. m + p[2] \in m + 1 .. taken
    <3> DEFINE l == Len(q)
               k == p[2]
    <3>1. l \in Nat /\ taken \in Nat /\ k \in 1 .. l /\ l <= taken
      BY <1>1, <2>1
    <3> HIDE DEF l, k
    <3>2. (taken - l) + k \in (taken - l) + 1 .. taken
      BY <3>1
    <3> QED  BY <3>2, Zenon DEF l, k
  <2> QED  BY <2>1, <2>2, <2>3, Zenon
<1>11. {FrameAt(p) : p \in Places} = {f \in cleared + 1 .. taken : Fits(f)}
  <2>1. ASSUME NEW p \in Places PROVE FrameAt(p) \in {f \in cleared + 1 .. taken : Fits(f)}
    <3>1. CASE p[1] = 4
      BY <1>1, <1>3, <1>10, <3>1
    <3>2. CASE p[1] # 4
      <4>1. FrameAt(p) \in cleared + 1 .. m /\ Fits(FrameAt(p))
        BY <1>4, <1>9, <3>2, Zenon
      <4> QED  BY <1>1, <1>3, <4>1
    <3> QED  BY <3>1, <3>2, Zenon
  <2>2. ASSUME NEW f \in cleared + 1 .. taken, Fits(f) PROVE \E p \in Places : FrameAt(p) = f
    <3>1. CASE f <= m
      <4>1. f \in Handled
        BY <1>1, <1>3, <1>4, <2>2, <3>1
      <4> QED  BY <1>5, <4>1, Zenon DEF NetInv, NetCover
    <3>2. CASE f > m
      <4>1. f - m \in 1 .. Len(q) /\ m + (f - m) = f
        BY <1>1, <3>2
      <4>2. q[f - m] = f
        BY <1>1, <4>1, SMTT(30)
      <4> QED  BY <1>5, <2>2, <4>1, <4>2, Zenon
    <3> QED  BY <1>1, <1>3, <3>1, <3>2
  <2> QED  BY <2>1, <2>2, Zenon
<1>12. ASSUME NEW p \in Places, NEW r \in Places, Before(p, r) PROVE FrameAt(p) < FrameAt(r)
  <2>1. CASE r[1] = 4
    <3>1. CASE p[1] = 4
      <4>1. p[2] < r[2] /\ p[2] \in Int /\ r[2] \in Int
        <5>1. p[2] \in 1 .. Len(q) /\ r[2] \in 1 .. Len(q)
          BY <1>7, <2>1, <3>1
        <5> QED  BY <1>12, <2>1, <3>1, <5>1, SMTT(30) DEF Before
      <4> QED  BY <1>3, <1>10, <2>1, <3>1, <4>1
    <3>2. CASE p[1] # 4
      <4>1. FrameAt(p) \in cleared + 1 .. m /\ FrameAt(r) \in m + 1 .. taken
        BY <1>4, <1>9, <1>10, <2>1, <3>2, Zenon
      <4> QED  BY <1>1, <1>3, <4>1
    <3> QED  BY <3>1, <3>2, Zenon
  <2>2. CASE r[1] # 4
    <3>1. /\ \A i, j \in 1 .. Len(got) : i < j => got[i].frame < got[j].frame
          /\ Hand => \A i \in 1 .. Len(got) : got[i].frame < buf[drv.slot]
          /\ \A i \in 1 .. Len(got), j \in 1 .. Len(used) : Full(j) => got[i].frame < In(j)
          /\ Hand => \A j \in 1 .. Len(used) : Full(j) => buf[drv.slot] < In(j)
          /\ \A i, j \in 1 .. Len(used) : (Full(i) /\ Full(j) /\ i < j) => In(i) < In(j)
      BY SMTT(30) DEF NetInv, NetOrder
    <3>2. PICK n \in 1 .. 4 : Stage(p, n) /\ p[1] = n
      BY <1>7, Zenon
    <3>3. PICK n2 \in 1 .. 4 : Stage(r, n2) /\ r[1] = n2
      BY <1>7, Zenon
    <3>4. n < n2 \/ (n = n2 /\ p[2] < r[2])
      <4>1. p[1] = n /\ r[1] = n2
        BY <3>2, <3>3, Zenon
      <4> QED  BY <1>12, <4>1, Zenon DEF Before
    <3>5. n2 # 4 /\ n # 4
      <4>1. n2 # 4
        BY <2>2, <3>3, Zenon
      <4>2. \A i, j \in 1 .. 4 : i < j => i # 4
        OBVIOUS
      <4> QED  BY <3>4, <4>1, <4>2, Zenon
    <3>6. CASE n = 1
      BY <3>1, <3>2, <3>3, <3>4, <3>5, <3>6, SMTT(30)
    <3>7. CASE n = 2
      BY <3>1, <3>2, <3>3, <3>4, <3>5, <3>7, SMTT(30)
    <3>8. CASE n = 3
      BY <3>1, <3>2, <3>3, <3>4, <3>5, <3>8
    <3> QED  BY <3>5, <3>6, <3>7, <3>8
  <2> QED  BY <2>1, <2>2, Zenon
<1>13. \A k \in DOMAIN got : got[k].len = got[k].ahead + frames[got[k].frame]
  BY <1>2, Zenon DEF NetInv, NetFrames
<1> QED  BY <1>11, <1>12, <1>13, Zenon DEF FramesInOrder

\* The frames read from the TAP since the driver's reset, but for those too long,
\* are in one place each and in order, whatever the number of buffers and the
\* lengths: the receive loop of net.rs puts a frame back for which there is no
\* buffer, and net.c hands a buffer back only after it copied the frame.
THEOREM FramesAlwaysInOrder == NetSpec => []FramesInOrder
<1>1. NetInit => NetInv
  BY NetStart, Zenon
<1>2. NetInv /\ [NetNext]_netVars => NetInv'
  <2> SUFFICES ASSUME NetInv, [NetNext]_netVars PROVE NetInv'
    BY Zenon
  <2>1. CASE \/ TickEnter \/ RxDone \/ TxFrame \/ TxDone \/ SendReturn \/ Notify \/ UNCHANGED netVars
             \/ \E len \in Lens : Send(len)
    BY <2>1, NetQuiet, Zenon
  <2>2. CASE Update \/ \E len \in Lens : FrameArrives(len)
    BY <2>2, NetHost, Zenon
  <2>3. CASE Prefill \/ PollRecycle
    BY <2>3, NetPosts, Zenon
  <2>4. CASE PollCopy
    BY <2>4, NetCopies, Zenon
  <2>5. CASE PollReceive
    BY <2>5, NetReceives, Zenon
  <2>6. CASE RxFrame
    BY <2>6, NetFrame, Zenon
  <2>7. CASE DriverInit
    BY <2>7, NetReset, Zenon
  <2> QED  BY <2>1, <2>2, <2>3, <2>4, <2>5, <2>6, <2>7, Zenon DEF NetNext, Device, Driver
<1>3. NetInv => FramesInOrder
  BY NetMeans, Zenon
<1> QED  BY <1>1, <1>2, <1>3, PTL DEF NetSpec
=============================================================================
