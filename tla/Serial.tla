------------------------------- MODULE Serial -------------------------------
(***************************************************************************)
(* The serial ports (src/src/devices/serial.rs): the keyboard thread       *)
(* queues the bytes of each key, the tick thread moves them into the       *)
(* console's receive buffer, vCPUs read and program the ports, and every   *)
(* port raises and lowers line 4 through the queue of interrupt commands   *)
(* that the tick thread delivers.                                          *)
(*                                                                         *)
(* A byte is its number in the order of typing.  The transmitter is empty  *)
(* at all times, since output goes out at once.                            *)
(***************************************************************************)
EXTENDS Naturals, Sequences, FiniteSetsExt

CONSTANTS
  NPorts,       \* ports 1 .. NPorts in the order of the device map
  Console,      \* the one with a keyboard
  Users,        \* ports whose interrupts the guest turns on
  KeySizes,     \* bytes of one key: 1, or more for an escape sequence
  ReadSizes,    \* bytes of one read of the data register
  MaxBytes,     \* bound on bytes typed
  MaxCommands   \* bound on the queue of interrupt commands

Ports == 1 .. NPorts
IerBits == {"rx", "thre"}          \* the low nibble, as far as the code uses it
IerVals == SUBSET (IerBits \cup {"high"})

ASSUME SerialAssumption ==
  /\ NPorts \in Nat /\ Console \in Ports /\ Users \subseteq Ports
  /\ MaxBytes \in Nat /\ MaxCommands \in Nat
  /\ KeySizes \subseteq Nat \ {0} /\ ReadSizes \subseteq Nat

VARIABLES
  queue,            \* bytes from the keyboard thread
  data, ier, dlab,  \* per port
  pending,          \* per port: bit 0 of iir is clear
  commands, irqs,   \* levels for line 4: queued, taken by the tick thread
  line, tick_pc,
  typed,            \* bytes typed so far
  taken,            \* history: byte -> number of the tick that moved it, 0 before
  got               \* history: bytes the guest read

serialVars == <<queue, data, ier, dlab, pending, commands, irqs, line, tick_pc, typed, taken, got>>

Wants(d, i) == ("rx" \in i /\ d # <<>>) \/ "thre" \in i

SerialInit ==
  /\ queue = <<>> /\ data = [p \in Ports |-> <<>>] /\ ier = [p \in Ports |-> {}]
  /\ dlab = [p \in Ports |-> FALSE] /\ pending = [p \in Ports |-> FALSE]
  /\ commands = <<>> /\ irqs = <<>> /\ line = FALSE /\ tick_pc = "ports"
  /\ typed = 0 /\ taken = [k \in 1 .. MaxBytes |-> 0] /\ got = <<>>

-----------------------------------------------------------------------------
\* For the ports P, with buffers d and enables i: note what is pending and
\* queue a command where that changed, port after port.
update_iir(P, d, i) ==
  LET now == [p \in Ports |-> IF p \in P THEN Wants(d[p], i[p]) ELSE pending[p]]
      changed == {p \in Ports : now[p] # pending[p]}
  IN  /\ pending' = now
      /\ \E n \in 0 .. NPorts : \E order \in [1 .. n -> changed] :
           /\ \A j, k \in 1 .. n : j < k => order[j] < order[k]
           /\ \A p \in changed : \E k \in 1 .. n : order[k] = p
           /\ commands' = commands \o [k \in 1 .. n |-> now[order[k]]]

\* Bound: what the vCPUs do waits for the tick thread when the queue is long.
Room == Len(commands) < MaxCommands

\* The keyboard thread queues all bytes of a key at once.
Type(n) ==
  /\ typed + n =< MaxBytes
  /\ queue' = queue \o [k \in 1 .. n |-> typed + k]
  /\ typed' = typed + n
  /\ UNCHANGED <<data, ier, dlab, pending, commands, irqs, line, tick_pc, taken, got>>

\* What pop takes, one after the other
Backwards(s) == [k \in 1 .. Len(s) |-> s[Len(s) - k + 1]]

\* input, port 0: up to n bytes from the back of the buffer, unless the
\* divisor latch is selected.
Input(p, n) ==
  LET k == IF n < Len(data[p]) THEN n ELSE Len(data[p])
      d == [data EXCEPT ![p] = SubSeq(@, 1, Len(@) - k)]
  IN  /\ ~dlab[p] /\ Room
      /\ data' = d
      /\ got' = got \o Backwards(SubSeq(data[p], Len(data[p]) - k + 1, Len(data[p])))
      /\ update_iir({p}, d, ier)
      /\ UNCHANGED <<queue, ier, dlab, irqs, line, tick_pc, typed, taken>>

\* output, ports 0 and 2: a byte goes out, or the FIFO bits change
OutputData(p) ==
  /\ Room
  /\ update_iir({p}, data, ier)
  /\ UNCHANGED <<queue, data, ier, dlab, irqs, line, tick_pc, typed, taken, got>>

\* output, port 1: the interrupt enables
OutputIerOnly(p, val) ==
  /\ ~dlab[p] /\ Room
  /\ ier' = [ier EXCEPT ![p] = val \cap IerBits]
  /\ UNCHANGED <<queue, data, dlab, pending, commands, irqs, line, tick_pc, typed, taken, got>>
OutputIer(p, val) ==
  /\ ~dlab[p] /\ Room
  /\ ier' = [ier EXCEPT ![p] = val \cap IerBits]
  /\ update_iir({p}, data, ier')
  /\ UNCHANGED <<queue, data, dlab, irqs, line, tick_pc, typed, taken, got>>

\* output, port 3: the divisor latch bit
OutputLcr(p, on) ==
  /\ dlab' = [dlab EXCEPT ![p] = on]
  /\ UNCHANGED <<queue, data, ier, pending, commands, irqs, line, tick_pc, typed, taken, got>>

\* The tick thread's pass over the ports: the newest byte typed goes to the
\* back first, so the oldest ends up last, where reads take from.
MoveTyped(d, updated) ==
  /\ tick_pc = "ports" /\ irqs = <<>> /\ tick_pc' = "take"
  /\ data' = d /\ queue' = <<>>
  /\ taken' = [k \in DOMAIN taken |-> IF \E j \in DOMAIN queue : queue[j] = k
                                      THEN 1 + Max({0} \cup Range(taken)) ELSE taken[k]]
  /\ update_iir(updated, d, ier)
TickPortsInOrder ==
  /\ MoveTyped([data EXCEPT ![Console] = @ \o queue], Ports)
  /\ UNCHANGED <<ier, dlab, irqs, line, typed, got>>
TickPortsSilent ==
  /\ MoveTyped([data EXCEPT ![Console] = @ \o Backwards(queue)], {})
  /\ UNCHANGED <<ier, dlab, irqs, line, typed, got>>
TickPorts ==
  /\ MoveTyped([data EXCEPT ![Console] = @ \o Backwards(queue)], Ports)
  /\ UNCHANGED <<ier, dlab, irqs, line, typed, got>>

\* It takes all queued commands, then sets the line for each.
TakeCommands ==
  /\ tick_pc = "take" /\ tick_pc' = "ports"
  /\ irqs' = commands /\ commands' = <<>>
  /\ UNCHANGED <<queue, data, ier, dlab, pending, line, typed, taken, got>>

Deliver ==
  /\ irqs # <<>>
  /\ line' = Head(irqs) /\ irqs' = Tail(irqs)
  /\ UNCHANGED <<queue, data, ier, dlab, pending, commands, tick_pc, typed, taken, got>>

TickThread == TickPorts \/ TakeCommands \/ Deliver
SerialNext ==
  \/ TickThread
  \/ \E n \in KeySizes : Type(n)
  \/ \E p \in Ports :
       \/ OutputData(p) \/ \E on \in BOOLEAN : OutputLcr(p, on)
       \/ \E n \in ReadSizes : Input(p, n)
       \/ p \in Users /\ \E val \in IerVals : OutputIer(p, val)

SerialSpec == SerialInit /\ [][SerialNext]_serialVars

\* The guest's handler runs while the line is high and reads the console.
ServeKeys ==
  line /\ data[Console] # <<>> /\ \E n \in ReadSizes : Input(Console, n)

\* The tick thread never stops; a guest whose interrupt line stays or keeps
\* going high gets round to its handler.
SerialFairSpec ==
  SerialSpec /\ WF_serialVars(TickThread) /\ SF_serialVars(ServeKeys)

-----------------------------------------------------------------------------
Bytes == 1 .. typed

Places(b) ==
  {<<"waiting", k>> : k \in {j \in DOMAIN queue : queue[j] = b}}
  \cup {<<"buffered", k>> : k \in {j \in DOMAIN data[Console] : data[Console][j] = b}}
  \cup {<<"read", k>> : k \in {j \in DOMAIN got : got[j] = b}}

\* Every byte typed is in one place: waiting, in the buffer or read, and read
\* once.  Of two bytes that one pass of the tick thread moved, the one typed
\* first is read first; order is lost only between passes, when a byte waits
\* unread while a later pass brings more.
BytesKept ==
  /\ \A b \in Bytes : \E p \in Places(b) : Places(b) = {p}
  /\ \A j, k \in DOMAIN got :
       (j < k /\ got[j] > got[k]) => taken[got[j]] > taken[got[k]]

\* While one port at most has ever had its interrupts on, the commands on their
\* way leave line 4 high exactly if that port has something to report: no key
\* waits behind a low line and no interrupt stays up without a cause.
LineSettles ==
  LET way == <<line>> \o irqs \o commands
  IN  \A p \in Ports : Users \subseteq {p} => (way[Len(way)] <=> Wants(data[p], ier[p]))

\* A guest that in the end leaves receive interrupts on reads every key.
KeysRead ==
  <>[]("rx" \in ier[Console] /\ ~dlab[Console]) =>
    \A b \in 1 .. MaxBytes : (b =< typed) ~> (\E k \in DOMAIN got : got[k] = b)
=============================================================================
