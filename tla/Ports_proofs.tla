---------------------------- MODULE Ports_proofs ----------------------------
(***************************************************************************)
(* The devices behind I/O ports: the interval timer, the serial ports and  *)
(* the clock. For any sequence of commands, bytes and passing of time.     *)
(***************************************************************************)
EXTENDS Pit, Serial, Cmos, TLAPS

-----------------------------------------------------------------------------
(***************************************************************************)
(* Sequences: the facts used below, here rather than from a library so     *)
(* that no proof carries more than these.                                  *)
(***************************************************************************)

\* Two sequences of one length with the same elements are equal.
LEMMA SeqsEqual ==
  ASSUME NEW Items, NEW q \in Seq(Items), NEW r \in Seq(Items), Len(q) = Len(r),
         \A i \in 1 .. Len(q) : q[i] = r[i]
  PROVE  q = r
OBVIOUS

\* What a concatenation holds.
LEMMA ConcatIs ==
  ASSUME NEW Items, NEW q \in Seq(Items), NEW r \in Seq(Items)
  PROVE  /\ q \o r \in Seq(Items) /\ Len(q \o r) = Len(q) + Len(r)
         /\ \A i \in 1 .. Len(q) + Len(r) :
              (q \o r)[i] = IF i <= Len(q) THEN q[i] ELSE r[i - Len(q)]
OBVIOUS

\* The empty sequence is neutral.
LEMMA ConcatEmpty ==
  ASSUME NEW Items, NEW q \in Seq(Items)
  PROVE  q \o <<>> = q /\ <<>> \o q = q
OBVIOUS

\* Appending is concatenating a sequence of one.
LEMMA AppendIs ==
  ASSUME NEW Items, NEW q \in Seq(Items), NEW x \in Items
  PROVE  Append(q, x) = q \o <<x>>
OBVIOUS

-----------------------------------------------------------------------------
(***************************************************************************)
(* Serial: once everything queued is delivered, line 4 has the level of    *)
(* what is pending.                                                        *)
(***************************************************************************)

\* The level line 4 has once everything queued is delivered
Final(l, a, b) == IF b # <<>> THEN b[Len(b)] ELSE IF a # <<>> THEN a[Len(a)] ELSE l

LineTypes ==
  /\ commands \in Seq(BOOLEAN) /\ irqs \in Seq(BOOLEAN) /\ line \in BOOLEAN
  /\ pending \in [Ports -> BOOLEAN] /\ DOMAIN data = Ports /\ DOMAIN ier = Ports

\* pending is always up to date, only the users' ports ever have something pending,
\* and while p is the one user the last level on its way is what is pending there.
LineInv(p) ==
  /\ LineTypes
  /\ tick_pc = "take" => irqs = <<>>
  /\ \A q \in Ports : pending[q] = Wants(data[q], ier[q])
  /\ \A q \in Ports : q # p => ier[q] = {}
  /\ Final(line, irqs, commands) = pending[p]

\* A port asks for its line or does not; with no interrupt enabled it does not.
LEMMA WantsBoolean == \A d, i : Wants(d, i) \in BOOLEAN /\ ~Wants(d, {})
BY Zenon DEF Wants

\* The last level on the way of a line is the one it settles at.
LEMMA LastIsFinal ==
  ASSUME NEW l \in BOOLEAN, NEW a \in Seq(BOOLEAN), NEW b \in Seq(BOOLEAN)
  PROVE  (<<l>> \o a \o b)[Len(<<l>> \o a \o b)] = Final(l, a, b)
<1>1. /\ <<l>> \in Seq(BOOLEAN) /\ Len(<<l>>) = 1 /\ <<l>>[1] = l
      /\ Len(a) \in Nat /\ Len(b) \in Nat
  OBVIOUS
<1> DEFINE s == <<l>>
           t == s \o a
           u == t \o b
<1> HIDE DEF s
<1>2. /\ t \in Seq(BOOLEAN) /\ Len(t) = Len(s) + Len(a)
      /\ \A i \in 1 .. Len(s) + Len(a) : t[i] = IF i <= Len(s) THEN s[i] ELSE a[i - Len(s)]
  BY <1>1, ConcatIs DEF s
<1> HIDE DEF t
<1>3. /\ u \in Seq(BOOLEAN) /\ Len(u) = Len(t) + Len(b)
      /\ \A i \in 1 .. Len(t) + Len(b) : u[i] = IF i <= Len(t) THEN t[i] ELSE b[i - Len(t)]
  <2>1. t \in Seq(BOOLEAN)
    BY <1>2, Zenon
  <2> QED  BY <2>1, ConcatIs
<1> HIDE DEF u
<1>4. Len(s) = 1 /\ s[1] = l /\ Len(t) = 1 + Len(a) /\ Len(u) = 1 + Len(a) + Len(b)
  BY <1>1, <1>2, <1>3, Zenon DEF s
<1>5. u[Len(u)] = IF Len(b) > 0 THEN b[Len(b)] ELSE t[Len(t)]
  BY <1>1, <1>3, <1>4
<1>6. t[Len(t)] = IF Len(a) > 0 THEN a[Len(a)] ELSE l
  BY <1>1, <1>2, <1>4
<1>7. (Len(a) > 0 <=> a # <<>>) /\ (Len(b) > 0 <=> b # <<>>)
  OBVIOUS
<1>8. u[Len(u)] = Final(l, a, b)
  BY <1>5, <1>6, <1>7 DEF Final
<1> QED  BY <1>8, Zenon DEF s, t, u

\* update_iir: what is pending afterwards, and the command it queues when one port
\* at most has changed.
LEMMA UpdateIir ==
  ASSUME LineTypes, NEW P \in SUBSET Ports, NEW d, NEW i, update_iir(P, d, i),
         NEW p \in Ports,
         \A q \in P : q # p => Wants(d[q], i[q]) = pending[q]
  PROVE  /\ pending' \in [Ports -> BOOLEAN]
         /\ \A q \in Ports : pending'[q] = IF q \in P THEN Wants(d[q], i[q]) ELSE pending[q]
         /\ commands' = IF pending'[p] = pending[p] THEN commands ELSE Append(commands, pending'[p])
<1> DEFINE held == [q \in Ports |-> IF q \in P THEN Wants(d[q], i[q]) ELSE pending[q]]
           changed == {q \in Ports : held[q] # pending[q]}
<1>1. PICK n \in 0 .. NPorts : \E order \in [1 .. n -> changed] :
        /\ \A j, k \in 1 .. n : j < k => order[j] < order[k]
        /\ \A q \in changed : \E k \in 1 .. n : order[k] = q
        /\ commands' = commands \o [k \in 1 .. n |-> held[order[k]]]
  BY Zenon DEF update_iir
<1>0. PICK order \in [1 .. n -> changed] :
        /\ \A j, k \in 1 .. n : j < k => order[j] < order[k]
        /\ \A q \in changed : \E k \in 1 .. n : order[k] = q
        /\ commands' = commands \o [k \in 1 .. n |-> held[order[k]]]
  BY <1>1, Zenon
<1> DEFINE new == [k \in 1 .. n |-> held[order[k]]]
<1>9. pending' = held /\ commands' = commands \o new /\ n \in Nat
  <2>1. pending' = held
    BY Zenon  DEF update_iir
  <2>2. n \in Nat
    BY SerialAssumption
  <2>3. commands' = commands \o new
    BY <1>0, Zenon
  <2> QED  BY <2>1, <2>2, <2>3, Zenon
<1>2. held \in [Ports -> BOOLEAN]
  BY WantsBoolean, ZenonT(30) DEF LineTypes
<1>3. \A q \in Ports : held[q] = IF q \in P THEN Wants(d[q], i[q]) ELSE pending[q]
  BY Zenon
<1>4. \A q \in Ports : q # p => held[q] = pending[q]
  BY <1>3
<1>5. commands \in Seq(BOOLEAN)
  BY Zenon DEF LineTypes
<1> HIDE DEF held
<1>6. CASE held[p] = pending[p]
  <2>1. changed = {}
    BY <1>4, <1>6, Zenon
  <2> HIDE DEF changed
  <2>2. ~(1 \in 1 .. n)
    BY <1>0, <2>1, Zenon
  <2>3. new = <<>>
    <3>1. n = 0
      BY <1>9, <2>2
    <3> QED  BY <3>1, SMTT(30)
  <2>4. commands \o <<>> = commands
    BY <1>5, ConcatEmpty, Zenon
  <2> QED  BY <1>9, <1>2, <1>3, <1>6, <2>3, <2>4, Zenon
<1>7. CASE held[p] # pending[p]
  <2>1. changed = {p}
    BY <1>4, <1>7, Zenon
  <2> HIDE DEF changed
  <2>2. p \in Nat /\ ~(p < p)
    BY SerialAssumption DEF Ports
  <2>3. (1 \in 1 .. n => order[1] = p) /\ (2 \in 1 .. n => order[2] = p)
    BY <1>0, <2>1
  <2>4. n = 1 /\ order[1] = p
    <3>1. ~(1 \in 1 .. n /\ 2 \in 1 .. n)
      BY <1>0, <2>2, <2>3
    <3>2. \E k \in 1 .. n : TRUE
      BY <1>0, <2>1, Zenon
    <3>3. n = 1
      BY <1>9, <3>1, <3>2
    <3> QED  BY <2>3, <3>3
  <2>6. new = <<held[p]>>
    BY <2>4, SMTT(30)
  <2>5. commands \o <<held[p]>> = Append(commands, held[p])
    BY <1>2, <1>5, AppendIs
  <2> QED  BY <1>9, <1>2, <1>3, <1>7, <2>6, <2>5, Zenon
<1> QED  BY <1>6, <1>7, Zenon

\* A step that brings the ports P up to date, and changes neither what the other
\* ports hold nor what is on its way
LEMMA LineUpdated ==
  ASSUME NEW p \in Ports, LineInv(p), NEW P \in SUBSET Ports,
         update_iir(P, data', ier'), UNCHANGED <<irqs, line>>,
         tick_pc' = "take" => irqs = <<>>,
         DOMAIN data' = Ports, DOMAIN ier' = Ports,
         \A q \in Ports : q # p => ier'[q] = {},
         \A q \in Ports : q \notin P => data'[q] = data[q] /\ ier'[q] = ier[q]
  PROVE  LineInv(p)'
<1>1. \A q \in P : q # p => Wants(data'[q], ier'[q]) = pending[q]
  <2> SUFFICES ASSUME NEW q \in P, q # p PROVE Wants(data'[q], ier'[q]) = pending[q]
    BY ZenonT(30)
  <2>1. q \in Ports /\ ier'[q] = {} /\ ier[q] = {} /\ pending[q] = Wants(data[q], ier[q])
    BY ZenonT(30) DEF LineInv
  <2>2. pending[q] \in BOOLEAN
    BY <2>1, WantsBoolean
  <2> QED  BY <2>1, <2>2, WantsBoolean, ZenonT(30)
<1>2. LineTypes /\ Final(line, irqs, commands) = pending[p]
  BY ZenonT(30) DEF LineInv
<1>3. /\ pending' \in [Ports -> BOOLEAN]
      /\ \A q \in Ports : pending'[q] = IF q \in P THEN Wants(data'[q], ier'[q]) ELSE pending[q]
      /\ commands' = IF pending'[p] = pending[p] THEN commands ELSE Append(commands, pending'[p])
  <2>1. ASSUME NEW d, NEW i, update_iir(P, d, i), \A q \in P : q # p => Wants(d[q], i[q]) = pending[q]
        PROVE  /\ pending' \in [Ports -> BOOLEAN]
               /\ \A q \in Ports : pending'[q] = IF q \in P THEN Wants(d[q], i[q]) ELSE pending[q]
               /\ commands' = IF pending'[p] = pending[p] THEN commands ELSE Append(commands, pending'[p])
    BY <1>2, <2>1, UpdateIir, SMTT(30)
  <2> QED  BY <1>1, <2>1, SMTT(30)
<1>4. \A q \in Ports : pending'[q] = Wants(data'[q], ier'[q])
  BY <1>3, ZenonT(30) DEF LineInv
<1>5. commands \in Seq(BOOLEAN) /\ pending'[p] \in BOOLEAN
  BY <1>2, <1>3, Zenon DEF LineTypes
<1>6. commands' \in Seq(BOOLEAN) /\ Final(line, irqs, commands') = pending'[p]
  <2>1. CASE pending'[p] = pending[p]
    BY <1>2, <1>3, <1>5, <2>1, ZenonT(30)
  <2>2. CASE pending'[p] # pending[p]
    <3>1. commands' = Append(commands, pending'[p])
      BY <1>3, <2>2
    <3>2. /\ Append(commands, pending'[p]) \in Seq(BOOLEAN)
          /\ Append(commands, pending'[p]) # <<>>
          /\ Append(commands, pending'[p])[Len(Append(commands, pending'[p]))] = pending'[p]
      BY <1>5, SMTT(30)
    <3> QED  BY <3>1, <3>2, SMTT(30) DEF Final
  <2> QED  BY <2>1, <2>2, Zenon
<1>7. LineTypes'
  BY <1>2, <1>3, <1>6 DEF LineTypes
<1> QED  BY <1>4, <1>6, <1>7, ZenonT(30) DEF LineInv

\* A port asks for nothing at the start and its line is low.
LEMMA LineStart == ASSUME NEW p \in Ports, SerialInit PROVE LineInv(p)
<1>0. commands = <<>> /\ irqs = <<>> /\ line = FALSE
      /\ \A q \in Ports : pending[q] = FALSE /\ ier[q] = {}
  BY Zenon DEF SerialInit
<1>1. LineTypes /\ tick_pc # "take"
  <2>1. DOMAIN data = Ports /\ DOMAIN ier = Ports /\ tick_pc = "ports"
    BY Zenon DEF SerialInit
  <2>2. pending \in [Ports -> BOOLEAN]
    BY Zenon DEF SerialInit
  <2>3. commands \in Seq(BOOLEAN) /\ irqs \in Seq(BOOLEAN) /\ line \in BOOLEAN
    <3>1. <<>> \in Seq(BOOLEAN)
      OBVIOUS
    <3>2. commands = <<>> /\ irqs = <<>> /\ line = FALSE
      BY Zenon DEF SerialInit
    <3> QED  BY <3>1, <3>2, Zenon
  <2> QED  BY <2>1, <2>2, <2>3, Zenon DEF LineTypes
<1>2. \A q \in Ports : pending[q] = Wants(data[q], ier[q])
  <2> TAKE q \in Ports
  <2>1. ier[q] = {} /\ pending[q] = FALSE
    BY <1>0, Zenon
  <2>2. Wants(data[q], {}) = FALSE
    BY WantsBoolean, Zenon
  <2> QED  BY <2>1, <2>2, Zenon
<1>3. Final(line, irqs, commands) = pending[p]
  BY <1>0, Zenon DEF Final
<1> QED  BY <1>0, <1>1, <1>2, <1>3, Zenon DEF LineInv

\* Where one port at most enables interrupts, every step leads the line to what the port asks for.
LEMMA LineStep ==
  ASSUME NEW p \in Ports, Users \subseteq {p}, LineInv(p), [SerialNext]_serialVars
  PROVE  LineInv(p)'
<1>0. /\ LineTypes /\ DOMAIN data = Ports /\ DOMAIN ier = Ports
      /\ \A q \in Ports : q # p => ier[q] = {}
      /\ tick_pc = "take" => irqs = <<>>
  BY Zenon  DEF LineInv, LineTypes
<1>1. CASE TickPorts
  <2>1. /\ update_iir(Ports, data', ier) /\ UNCHANGED <<ier, irqs, line>>
        /\ irqs = <<>> /\ DOMAIN data' = DOMAIN data
    BY <1>1, ZenonT(30) DEF TickPorts, MoveTyped
  <2> QED  BY <1>0, <2>1, LineUpdated, ZenonT(30)
<1>2. CASE TakeCommands
  <2>1. /\ irqs = <<>> /\ irqs' = commands /\ commands' = <<>> /\ tick_pc' = "ports"
        /\ UNCHANGED <<line, pending, data, ier>>
    BY <1>0, <1>2, Zenon DEF TakeCommands
  <2>2. LineTypes'
    BY <1>0, <2>1, Zenon DEF LineTypes
  <2>3. Final(line, commands, <<>>) = Final(line, <<>>, commands)
    BY Zenon  DEF Final
  <2> QED  BY <2>1, <2>2, <2>3, Zenon DEF LineInv
<1>3. CASE Deliver
  <2>1. /\ irqs # <<>> /\ line' = Head(irqs) /\ irqs' = Tail(irqs)
        /\ UNCHANGED <<pending, data, ier, commands, tick_pc>>
    BY <1>3, Zenon DEF Deliver
  <2>2. /\ irqs \in Seq(BOOLEAN) /\ Head(irqs) \in BOOLEAN /\ Tail(irqs) \in Seq(BOOLEAN)
        /\ Head(irqs) = irqs[1]
        /\ Tail(irqs) = <<>> => Len(irqs) = 1
        /\ Tail(irqs) # <<>> => Tail(irqs)[Len(Tail(irqs))] = irqs[Len(irqs)]
    <3>1. irqs \in Seq(BOOLEAN) /\ irqs # <<>>
      BY <1>0, <2>1, Zenon DEF LineTypes
    <3>2. /\ Len(irqs) \in Nat /\ Len(irqs) > 0 /\ Len(Tail(irqs)) = Len(irqs) - 1
          /\ \A k \in 1 .. Len(irqs) - 1 : Tail(irqs)[k] = irqs[k + 1]
          /\ Head(irqs) = irqs[1] /\ Head(irqs) \in BOOLEAN /\ Tail(irqs) \in Seq(BOOLEAN)
      BY <3>1
    <3>3. Tail(irqs) = <<>> <=> Len(Tail(irqs)) = 0
      <4>1. \A s \in Seq(BOOLEAN) : s = <<>> <=> Len(s) = 0
        OBVIOUS
      <4>2. Tail(irqs) \in Seq(BOOLEAN)
        BY <3>2, Zenon
      <4> QED  BY <4>1, <4>2, Zenon
    <3>4. Tail(irqs) # <<>> => Tail(irqs)[Len(irqs) - 1] = irqs[(Len(irqs) - 1) + 1]
      <4> SUFFICES ASSUME Tail(irqs) # <<>> PROVE Tail(irqs)[Len(irqs) - 1] = irqs[(Len(irqs) - 1) + 1]
        BY Zenon
      <4> DEFINE k == Len(irqs) - 1
      <4>1. k \in 1 .. Len(irqs) - 1
        BY <3>2, <3>3
      <4>2. \A j \in 1 .. Len(irqs) - 1 : Tail(irqs)[j] = irqs[j + 1]
        BY <3>2, Zenon
      <4> HIDE DEF k
      <4>3. Tail(irqs)[k] = irqs[k + 1]
        BY <4>1, <4>2
      <4> QED  BY <4>3, Zenon DEF k
    <3> QED  BY <3>1, <3>2, <3>3, <3>4
  <2>3. LineTypes'
    BY <1>0, <2>1, <2>2, Zenon DEF LineTypes
  <2>4. Final(Head(irqs), Tail(irqs), commands) = Final(line, irqs, commands)
    BY <2>1, <2>2 DEF Final
  <2>5. tick_pc # "take"
    BY <1>0, <2>1, ZenonT(30)
  <2> QED  BY <2>1, <2>3, <2>4, <2>5, Zenon DEF LineInv
<1>4. CASE UNCHANGED <<data, ier, pending, commands, irqs, line, tick_pc>>
  BY <1>4, Zenon DEF LineInv, LineTypes
<1>5. ASSUME NEW n, NEW q \in Ports, Input(q, n) PROVE LineInv(p)'
  <2> DEFINE k == IF n < Len(data[q]) THEN n ELSE Len(data[q])
  <2>1. /\ update_iir({q}, data', ier) /\ UNCHANGED <<ier, irqs, line, tick_pc>>
        /\ data' = [data EXCEPT ![q] = SubSeq(@, 1, Len(@) - k)]
    BY <1>5, Zenon DEF Input
  <2>2. DOMAIN data' = Ports /\ \A r \in Ports : r \notin {q} => data'[r] = data[r]
    BY <1>0, <2>1
  <2> QED  BY <1>0, <2>1, <2>2, LineUpdated, ZenonT(30)
<1>6. ASSUME NEW q \in Ports, OutputData(q) PROVE LineInv(p)'
  <2>1. update_iir({q}, data', ier') /\ UNCHANGED <<data, ier, irqs, line, tick_pc>>
    BY <1>6, Zenon DEF OutputData
  <2> QED  BY <1>0, <2>1, LineUpdated, Zenon
<1>7. ASSUME NEW q \in Ports, NEW val, q \in Users, OutputIer(q, val) PROVE LineInv(p)'
  <2>1. /\ update_iir({q}, data', ier') /\ UNCHANGED <<data, irqs, line, tick_pc>> /\ q = p
        /\ ier' = [ier EXCEPT ![q] = val \cap IerBits]
    BY <1>7 DEF OutputIer
  <2>2. DOMAIN ier' = Ports /\ \A r \in Ports : r # p => ier'[r] = ier[r]
    BY <1>0, <2>1, Zenon
  <2> QED  BY <1>0, <2>1, <2>2, LineUpdated, Zenon
<1>8. ASSUME NEW n, Type(n) PROVE LineInv(p)'
  BY <1>4, <1>8, Zenon DEF Type
<1>9. ASSUME NEW q, NEW on, OutputLcr(q, on) PROVE LineInv(p)'
  BY <1>4, <1>9, Zenon DEF OutputLcr
<1>10. CASE UNCHANGED serialVars
  BY <1>4, <1>10 DEF serialVars
<1> QED
  BY <1>1, <1>2, <1>3, <1>5, <1>6, <1>7, <1>8, <1>9, <1>10 DEF SerialNext, TickThread

\* For every number of ports, whatever is typed, read and programmed: while at most
\* one port has its interrupts turned on, the commands on their way leave line 4
\* high exactly if that port has something to report.
THEOREM LineAlwaysSettles == SerialSpec => []LineSettles
<1> DEFINE Inv == \A p \in Ports : Users \subseteq {p} => LineInv(p)
<1>1. SerialInit => Inv
  BY LineStart, Zenon
<1>2. Inv /\ [SerialNext]_serialVars => Inv'
  BY LineStep
<1>3. Inv => LineSettles
  <2> DEFINE way == <<line>> \o irqs \o commands
  <2> SUFFICES ASSUME NEW p \in Ports, LineInv(p)
               PROVE  way[Len(way)] <=> Wants(data[p], ier[p])
    BY Zenon DEF LineSettles
  <2>1. way[Len(way)] = Final(line, irqs, commands)
    BY LastIsFinal, Zenon DEF LineInv, LineTypes
  <2> QED  BY <2>1, WantsBoolean, Zenon DEF LineInv
<1> HIDE DEF Inv
<1> QED  BY <1>1, <1>2, <1>3, PTL DEF SerialSpec

-----------------------------------------------------------------------------
(***************************************************************************)
(* Pit, for any width of a byte, any sequence of commands and data bytes,  *)
(* and any passing of time.                                                *)
(***************************************************************************)

USE PitAssumption

Pairs == Len(written) \div 2

\* Where the byte protocol stands: in mode 3 the latch tells whether a low byte waits
\* for its high byte, which is then the divisor, and the divisor last completed is that
\* of the last complete pair.
LatchInv ==
  /\ access_mode = 3 => (latch_lo <=> Len(written) = 2 * Pairs)
  /\ ~latch_lo => /\ access_mode = 3 /\ Len(written) > 0
                  /\ divisor = written[Len(written)]
  /\ access_mode = 3 /\ Pairs > 0 =>
       meant = written[2 * Pairs - 1] + BASE * written[2 * Pairs]

ByteInv ==
  /\ access_mode \in 0 .. 3 /\ divisor \in Nat /\ latch_lo \in BOOLEAN
  /\ written \in Seq(DataBytes) /\ meant \in Nat
  /\ LatchInv /\ PeriodComplete

TimeInv ==
  /\ acc_ns \in Nat /\ paid \in Nat /\ last_tick \in Nat /\ clock \in Nat
  /\ last_tick =< clock /\ TimeConserved

\* A product of naturals is a natural.
LEMMA Product == ASSUME NEW a \in Nat, NEW b \in Nat PROVE a * b \in Nat
OBVIOUS

\* The square of the base, the period of the divisor zero, is positive.
LEMMA Square == BASE * BASE \in Nat \ {0}
OBVIOUS

\* Every divisor gives a period, zero included.
LEMMA PeriodNat == ASSUME NEW d \in Nat PROVE Period(d) \in Nat \ {0}
BY Square, Zenon DEF Period

\* Quotient and remainder.
LEMMA DivMod ==
  ASSUME NEW a \in Nat, NEW p \in Nat \ {0}
  PROVE  a % p \in Nat /\ p * (a \div p) \in Nat /\ p * (a \div p) + (a % p) = a
<1>1. a % p \in Nat
  OBVIOUS
<1>2. a \div p \in Nat
  OBVIOUS
<1>3. p * (a \div p) \in Nat
  BY <1>2, Product, Zenon
<1>4. a = p * (a \div p) + (a % p)
  OBVIOUS
<1> QED  BY <1>1, <1>3, <1>4, Zenon

\* The half of a number, and of the next.
LEMMA Halves ==
  ASSUME NEW n \in Nat
  PROVE  /\ n \div 2 \in Nat /\ (n = 2 * (n \div 2) \/ n = 2 * (n \div 2) + 1)
         /\ n = 2 * (n \div 2) => (n + 1) \div 2 = n \div 2
         /\ n = 2 * (n \div 2) + 1 => (n + 1) \div 2 = n \div 2 + 1
OBVIOUS

\* The timer starts with no byte outstanding and no time owed.
LEMMA PitStart == PitInit => ByteInv /\ TimeInv
<1> SUFFICES ASSUME PitInit PROVE ByteInv /\ TimeInv
  BY Zenon
<1>1. Len(written) = 0 /\ Pairs = 0 /\ written \in Seq(DataBytes)
  BY DEF PitInit, Pairs
<1> QED
  BY <1>1, Square DEF PitInit, ByteInv, TimeInv, LatchInv, PeriodComplete, TimeConserved

\* A command starts the byte protocol again and leaves the completed divisor alone.
LEMMA CommandKeeps ==
  ASSUME ByteInv, NEW channel \in Channels, NEW access \in 0 .. 3, Command(channel, access)
  PROVE  ByteInv'
<1>1. CASE channel # 0
  BY <1>1, Zenon DEF Command, pitVars, ByteInv, LatchInv, Pairs, PeriodComplete
<1>2. CASE channel = 0
  <2>1. /\ access_mode' = access /\ latch_lo' = TRUE /\ divisor' = 0 /\ written' = <<>>
        /\ period_ns' = period_ns /\ meant' = meant
    BY <1>2, Zenon DEF Command
  <2>2. Len(written') = 0 /\ Pairs' = 0 /\ written' \in Seq(DataBytes)
    BY <2>1 DEF Pairs
  <2> QED  BY <2>1, <2>2 DEF ByteInv, LatchInv, PeriodComplete
<1> QED  BY <1>1, <1>2

\* One data byte, in each of the access modes.
LEMMA DataKeeps ==
  ASSUME ByteInv, NEW val \in DataBytes, Data(val)
  PROVE  ByteInv'
<1> DEFINE n == Len(written)
           k == Pairs
<1>1. /\ n \in Nat /\ k \in Nat /\ (n = 2 * k \/ n = 2 * k + 1)
      /\ n = 2 * k => Pairs' = k
      /\ n = 2 * k + 1 => Pairs' = k + 1
  <2>1. n \in Nat /\ Len(written') = n + 1
    BY DEF ByteInv, Data
  <2> QED  BY <2>1, Halves, Zenon DEF Pairs
<1>2. /\ written' = Append(written, val) /\ written' \in Seq(DataBytes)
      /\ Len(written') = n + 1 /\ written'[n + 1] = val
      /\ \A i \in 1 .. n : written'[i] = written[i]
      /\ \A i \in 1 .. n : written[i] \in DataBytes
  BY DEF ByteInv, Data
<1>3. /\ access_mode' = access_mode /\ access_mode \in 0 .. 3 /\ meant \in Nat
      /\ divisor \in Nat /\ latch_lo \in BOOLEAN
      /\ meant' = Meaning(access_mode, written', meant)
  BY Zenon DEF ByteInv, Data
<1>4. val \in Nat /\ val < BASE /\ BASE * val \in Nat
  BY Product
<1> HIDE DEF n, k
<1>5. CASE access_mode = 1
  <2>1. meant' = val
    BY <1>1, <1>2, <1>3, <1>5 DEF Meaning
  <2>2. divisor' = val /\ period_ns' = Period(val) /\ latch_lo' = latch_lo
    BY <1>5 DEF Data, Programmed
  <2> QED  BY <1>2, <1>3, <1>4, <1>5, <2>1, <2>2 DEF ByteInv, LatchInv, PeriodComplete
<1>6. CASE access_mode = 2
  <2>1. meant' = BASE * val
    BY <1>1, <1>2, <1>3, <1>6, SMTT(30) DEF Meaning
  <2>2. divisor' = BASE * val /\ period_ns' = Period(BASE * val) /\ latch_lo' = latch_lo
    BY <1>6 DEF Data, Programmed
  <2> QED  BY <1>2, <1>3, <1>4, <1>6, <2>1, <2>2 DEF ByteInv, LatchInv, PeriodComplete
<1>7. CASE access_mode = 3 /\ latch_lo
  <2>1. n = 2 * k /\ Pairs' = k
    BY <1>1, <1>7, Zenon DEF ByteInv, LatchInv, n, k
  <2>2. meant' = meant
    <3>1. Len(written') \div 2 = k
      BY <2>1, Zenon DEF Pairs
    <3>2. CASE k > 0
      <4>1. meant' = written'[2 * k - 1] + BASE * written'[2 * k]
        BY <1>3, <1>7, <3>1, <3>2 DEF Meaning
      <4>2. written'[2 * k - 1] = written[2 * k - 1] /\ written'[2 * k] = written[2 * k]
        BY <1>1, <1>2, <2>1, <3>2
      <4> QED  BY <1>7, <3>2, <4>1, <4>2 DEF ByteInv, LatchInv, k
    <3>3. CASE ~(k > 0)
      BY <1>3, <1>7, <3>1, <3>3 DEF Meaning
    <3> QED  BY <3>2, <3>3, Zenon
  <2>3. divisor' = val /\ latch_lo' = FALSE /\ period_ns' = period_ns
    BY <1>7 DEF Data
  <2>4. k > 0 => meant' = written'[2 * k - 1] + BASE * written'[2 * k]
    <3>1. Len(written') \div 2 = k
      BY <2>1, Zenon DEF Pairs
    <3> QED  BY <1>3, <1>7, <3>1, SMTT(30) DEF Meaning
  <2>5. LatchInv'
    BY <1>1, <1>2, <1>3, <1>7, <2>1, <2>3, <2>4 DEF LatchInv
  <2> QED  BY <1>2, <1>3, <1>4, <2>2, <2>3, <2>5, Zenon DEF ByteInv, PeriodComplete
<1>8. CASE access_mode = 3 /\ ~latch_lo
  <2>1. n = 2 * k + 1 /\ Pairs' = k + 1 /\ divisor = written[n]
    BY <1>1, <1>8, Zenon DEF ByteInv, LatchInv, n, k
  <2>2. meant' = written'[2 * (k + 1) - 1] + BASE * written'[2 * (k + 1)]
    <3>1. Len(written') \div 2 = k + 1
      BY <2>1, Zenon DEF Pairs
    <3> QED  BY <1>1, <1>3, <1>8, <3>1, SMTT(30) DEF Meaning
  <2>3. written'[2 * (k + 1) - 1] = divisor /\ written'[2 * (k + 1)] = val
    BY <1>1, <1>2, <2>1
  <2>4. /\ divisor' = divisor + BASE * val /\ latch_lo' = TRUE
        /\ period_ns' = Period(divisor + BASE * val)
    BY <1>8 DEF Data, Programmed
  <2>5. LatchInv'
    BY <1>1, <1>2, <1>3, <1>8, <2>1, <2>2, <2>4, SMTT(30) DEF LatchInv
  <2> QED  BY <1>2, <1>3, <1>4, <2>2, <2>3, <2>4, <2>5 DEF ByteInv, PeriodComplete
<1>9. CASE access_mode = 0
  <2>1. meant' = meant
    BY <1>3, <1>9 DEF Meaning
  <2>2. divisor' = divisor /\ period_ns' = period_ns /\ latch_lo' = latch_lo
    BY <1>9 DEF Data
  <2> QED  BY <1>2, <1>3, <1>9, <2>1, <2>2 DEF ByteInv, LatchInv, PeriodComplete
<1> QED  BY <1>3, <1>5, <1>6, <1>7, <1>8, <1>9

\* Every step keeps the period that of a divisor written completely.
LEMMA ByteStep == ByteInv /\ [PitNext]_pitVars => ByteInv'
<1> SUFFICES ASSUME ByteInv, [PitNext]_pitVars PROVE ByteInv'
  OBVIOUS
<1>1. CASE UNCHANGED <<access_mode, divisor, latch_lo, period_ns, written, meant>>
  BY <1>1, SMTT(30) DEF ByteInv, LatchInv, Pairs, PeriodComplete
<1> QED
  BY <1>1, CommandKeeps, DataKeeps, Zenon DEF PitNext, PitTick, TimePasses, pitVars

\* A tick divides the time by the period, which is that of a completed divisor and so
\* never zero.
LEMMA TimeStep == ByteInv /\ TimeInv /\ [PitNext]_pitVars => TimeInv'
<1> SUFFICES ASSUME ByteInv, TimeInv, [PitNext]_pitVars PROVE TimeInv'
  BY Zenon
<1>1. CASE PitTick
  <2> DEFINE acc == acc_ns + (clock - last_tick)
  <2>1. acc \in Nat /\ paid + acc = clock
    BY DEF TimeInv, TimeConserved
  <2>2. period_ns \in Nat \ {0}
    BY PeriodNat, Zenon DEF ByteInv, PeriodComplete
  <2>3. /\ acc_ns' = acc % period_ns /\ paid' = paid + period_ns * (acc \div period_ns)
        /\ last_tick' = clock /\ clock' = clock
    BY <1>1, Zenon DEF PitTick
  <2> HIDE DEF acc
  <2>4. /\ acc % period_ns \in Nat /\ period_ns * (acc \div period_ns) \in Nat
        /\ period_ns * (acc \div period_ns) + (acc % period_ns) = acc
    BY <2>1, <2>2, DivMod
  <2> QED  BY <2>1, <2>3, <2>4 DEF TimeInv, TimeConserved
<1>2. ASSUME NEW t \in Passing, TimePasses(t) PROVE TimeInv'
  BY <1>2 DEF TimePasses, TimeInv, TimeConserved
<1>3. CASE UNCHANGED <<acc_ns, paid, last_tick, clock>>
  BY <1>3, Zenon DEF TimeInv, TimeConserved
<1> QED
  BY <1>1, <1>2, <1>3 DEF PitNext, Command, Data, pitVars

\* Both invariants of the timer hold throughout.
LEMMA PitInvariant == PitSpec => [](ByteInv /\ TimeInv)
BY PitStart, ByteStep, TimeStep, PTL DEF PitSpec

\* Whatever the guest writes to the timer's ports, in any order and in any access mode,
\* the period the tick thread divides by is that of a divisor the guest has completed.
THEOREM PeriodAlwaysComplete == PitSpec => []PeriodComplete
<1>1. ByteInv => PeriodComplete
  BY Zenon DEF ByteInv
<1> QED  BY PitInvariant, <1>1, PTL

\* Through any number of reprogrammings and ticks, with any time between them, the
\* pulses paid out and the remainder make up the time exactly.
THEOREM TimeAlwaysConserved == PitSpec => []TimeConserved
<1>1. TimeInv => TimeConserved
  BY Zenon DEF TimeInv
<1> QED  BY PitInvariant, <1>1, PTL

HIDE PitAssumption

-----------------------------------------------------------------------------
(***************************************************************************)
(* Serial: every byte typed is read once or still there, in the order of   *)
(* the passes that moved it.                                               *)
(***************************************************************************)

\* b the buffer, g what was read, m the number of bytes moved so far, w the pass
\* that moved each: every byte is in one of the two, once, ...
Within(s, m) == s \in Seq(Nat) /\ \A k \in 1 .. Len(s) : 1 <= s[k] /\ s[k] <= m
Once(s) == \A j, k \in 1 .. Len(s) : s[j] = s[k] => j = k
Stored(b, g, m) ==
  /\ Within(b, m) /\ Within(g, m) /\ Once(b) /\ Once(g)
  /\ \A j \in 1 .. Len(b), k \in 1 .. Len(g) : b[j] # g[k]
  /\ \A x \in 1 .. m : (\E k \in 1 .. Len(b) : b[k] = x) \/ (\E k \in 1 .. Len(g) : g[k] = x)
\* ... and one that is, was or will be read before an older one came with a later
\* pass.
Ordered(b, g, w) ==
  /\ \A j, k \in 1 .. Len(g) : j < k /\ g[j] > g[k] => w[g[j]] > w[g[k]]
  /\ \A j \in 1 .. Len(g), k \in 1 .. Len(b) : g[j] > b[k] => w[g[j]] > w[b[k]]
  /\ \A j, k \in 1 .. Len(b) : j < k /\ b[k] > b[j] => w[b[k]] > w[b[j]]

\* Bytes are numbered from one to the count typed.
LEMMA WithinIs ==
  ASSUME NEW s, NEW m \in Nat, Within(s, m)
  PROVE  Len(s) \in Nat /\ \A k \in 1 .. Len(s) : 1 <= s[k] /\ s[k] <= m /\ s[k] \in Nat
BY DEF Within

\* The place in a buffer of B bytes that byte i of the guest's came from.
TakenFrom(B, G, n, i) == \E j \in 1 .. n : i = G + j /\ B + 1 - (i - G) = B - j + 1

\* A byte of the guest's beyond the first G came from the back of the buffer.
LEMMA FromBack ==
  ASSUME NEW B \in Nat, NEW G \in Nat, NEW n \in Nat, NEW i \in 1 .. G + n, i > G
  PROVE  TakenFrom(B, G, n, i)
<1>1. i - G \in 1 .. n /\ i = G + (i - G) /\ B + 1 - (i - G) = B - (i - G) + 1
  OBVIOUS
<1> QED  BY <1>1, Zenon DEF TakenFrom

\* The last n places of a buffer, and those before them, are places of it.
LEMMA InBuffer ==
  ASSUME NEW B \in Nat, NEW n \in Nat, n <= B
  PROVE  (\A x \in B - n + 1 .. B : x \in 1 .. B) /\ \A x \in 1 .. B - n : x \in 1 .. B
OBVIOUS

\* That place is among the last n.
LEMMA BackIn ==
  ASSUME NEW B \in Nat, NEW G \in Nat, NEW n \in Nat, NEW i \in 1 .. G + n, i > G
  PROVE  B + 1 - (i - G) \in B - n + 1 .. B
OBVIOUS

\* A read of n bytes: they leave the back of the buffer, the last one first.
LEMMA ReadKeeps ==
  ASSUME NEW b, NEW g, NEW m \in Nat, NEW w, Stored(b, g, m), Ordered(b, g, w),
         NEW n \in 0 .. Len(b), NEW c \in Seq(Nat), NEW h \in Seq(Nat),
         Len(c) = Len(b) - n, \A i \in 1 .. Len(b) - n : c[i] = b[i],
         Len(h) = Len(g) + n, \A i \in 1 .. Len(g) : h[i] = g[i],
         \A i \in 1 .. n : h[Len(g) + i] = b[Len(b) - i + 1]
  PROVE  Stored(c, h, m) /\ Ordered(c, h, w)
<1> DEFINE B == Len(b)
           G == Len(g)
<1>1. B \in Nat /\ G \in Nat /\ n \in Nat /\ n <= B
  BY DEF Stored, Within
<1> HIDE DEF B, G
<1>2. /\ Len(c) = B - n /\ Len(h) = G + n
      /\ \A i \in 1 .. B - n : c[i] = b[i]
      /\ \A i \in 1 .. G : h[i] = g[i]
      /\ \A i \in 1 .. n : h[G + i] = b[B - i + 1]
  BY Zenon DEF B, G
<1>3. ASSUME NEW i \in 1 .. G + n
      PROVE  \/ i \in 1 .. G /\ h[i] = g[i]
             \/ i > G /\ B + 1 - (i - G) \in B - n + 1 .. B /\ h[i] = b[B + 1 - (i - G)]
  <2>1. CASE i \in 1 .. G
    <3>1. h[i] = g[i]
      BY <1>2, <2>1, Zenon
    <3> QED  BY <2>1, <3>1, Zenon
  <2>2. CASE i > G
    <3>0. TakenFrom(B, G, n, i)
      BY <1>1, <2>2, FromBack, Zenon
    <3>1. PICK j \in 1 .. n : i = G + j /\ B + 1 - (i - G) = B - j + 1
      BY <3>0, Zenon DEF TakenFrom
    <3>2. h[G + j] = b[B - j + 1]
      BY <1>2, <3>1, Zenon
    <3>3. B + 1 - (i - G) \in B - n + 1 .. B
      BY <1>1, <2>2, BackIn, Zenon
    <3> QED  BY <2>2, <3>1, <3>2, <3>3, Zenon
  <2> QED  BY <1>1, <2>1, <2>2
<1>4. /\ \A k \in 1 .. B : 1 <= b[k] /\ b[k] <= m /\ b[k] \in Nat
      /\ \A k \in 1 .. G : 1 <= g[k] /\ g[k] <= m /\ g[k] \in Nat
      /\ \A j, k \in 1 .. B : b[j] = b[k] => j = k
      /\ \A j, k \in 1 .. G : g[j] = g[k] => j = k
      /\ \A j \in 1 .. B, k \in 1 .. G : b[j] # g[k]
  <2>1. \A k \in 1 .. B : 1 <= b[k] /\ b[k] <= m /\ b[k] \in Nat
    BY DEF Stored, Within, B
  <2>2. \A k \in 1 .. G : 1 <= g[k] /\ g[k] <= m /\ g[k] \in Nat
    <3>1. Within(g, m)
      BY Zenon DEF Stored
    <3> QED  BY <3>1, WithinIs, Zenon DEF G
  <2>3. /\ \A j, k \in 1 .. B : b[j] = b[k] => j = k
        /\ \A j, k \in 1 .. G : g[j] = g[k] => j = k
    BY Zenon DEF Stored, Once, B, G
  <2>4. \A j \in 1 .. B, k \in 1 .. G : b[j] # g[k]
    BY Zenon DEF Stored, B, G
  <2> QED  BY <2>1, <2>2, <2>3, <2>4, Zenon
<1>5. Within(c, m)
  <2>1. ASSUME NEW i \in 1 .. B - n PROVE 1 <= c[i] /\ c[i] <= m
    <3>1. i \in 1 .. B /\ c[i] = b[i]
      BY <1>1, <1>2
    <3> QED  BY <1>4, <3>1, Zenon
  <2>2. Len(c) = B - n
    BY <1>2, Zenon
  <2> QED  BY <2>1, <2>2, Zenon DEF Within
<1>6. Within(h, m)
  <2>1. ASSUME NEW i \in 1 .. G + n PROVE 1 <= h[i] /\ h[i] <= m
    <3>1. (\E k \in 1 .. G : h[i] = g[k]) \/ (\E k \in 1 .. B : h[i] = b[k])
      <4>1. B - n + 1 .. B \subseteq 1 .. B
        BY <1>1
      <4> QED  BY <1>3, <4>1, Zenon
    <3> QED  BY <1>4, <3>1, SMTT(30)
  <2>2. Len(h) = G + n
    BY <1>2, Zenon
  <2> QED  BY <2>1, <2>2, Zenon DEF Within
<1>7. Once(c)
  <2>1. \A j, k \in 1 .. B - n : c[j] = c[k] => j = k
    BY <1>1, <1>2, <1>4
  <2> QED  BY <1>2, <2>1, SMTT(30) DEF Once
<1>8. Once(h)
  <2>1. ASSUME NEW j \in 1 .. G + n, NEW k \in 1 .. G + n, h[j] = h[k] PROVE j = k
    <3>1. \/ j \in 1 .. G /\ h[j] = g[j]
          \/ j > G /\ B + 1 - (j - G) \in B - n + 1 .. B /\ h[j] = b[B + 1 - (j - G)]
      BY <1>3, Zenon
    <3>2. \/ k \in 1 .. G /\ h[k] = g[k]
          \/ k > G /\ B + 1 - (k - G) \in B - n + 1 .. B /\ h[k] = b[B + 1 - (k - G)]
      BY <1>3, Zenon
    <3>3. B - n + 1 .. B \subseteq 1 .. B
      BY <1>1
    <3> DEFINE x == B + 1 - (j - G)
               y == B + 1 - (k - G)
    <3>4. (x = y) => (j = k)
      BY <1>1
    <3> HIDE DEF x, y
    <3>5. \/ j \in 1 .. G /\ h[j] = g[j]
          \/ x \in 1 .. B /\ h[j] = b[x]
      BY <3>1, <3>3, Zenon DEF x
    <3>6. \/ k \in 1 .. G /\ h[k] = g[k]
          \/ y \in 1 .. B /\ h[k] = b[y]
      BY <3>2, <3>3 DEF y
    <3> QED  BY <1>4, <2>1, <3>4, <3>5, <3>6, ZenonT(30)
  <2>2. Len(h) = G + n
    BY <1>2, Zenon
  <2> QED  BY <2>1, <2>2, Zenon DEF Once
<1>9. \A j \in 1 .. Len(c), k \in 1 .. Len(h) : c[j] # h[k]
  <2>1. ASSUME NEW j \in 1 .. B - n, NEW k \in 1 .. G + n PROVE c[j] # h[k]
    <3>1. \/ k \in 1 .. G /\ h[k] = g[k]
          \/ k > G /\ B + 1 - (k - G) \in B - n + 1 .. B /\ h[k] = b[B + 1 - (k - G)]
      BY <1>3, Zenon
    <3>2. c[j] = b[j] /\ j \in 1 .. B
      BY <1>1, <1>2
    <3>3. CASE k \in 1 .. G /\ h[k] = g[k]
      BY <1>4, <3>2, <3>3
    <3>4. CASE B + 1 - (k - G) \in B - n + 1 .. B /\ h[k] = b[B + 1 - (k - G)]
      <4> DEFINE y == B + 1 - (k - G)
      <4>1. y \in 1 .. B /\ h[k] = b[y] /\ y # j
        BY <1>1, <3>4
      <4> HIDE DEF y
      <4> QED  BY <1>4, <3>2, <4>1
    <3> QED  BY <3>1, <3>3, <3>4, Zenon
  <2> QED  BY <1>2, <2>1, SMTT(30)
<1>10. \A x \in 1 .. m : (\E k \in 1 .. Len(c) : c[k] = x) \/ (\E k \in 1 .. Len(h) : h[k] = x)
  <2> SUFFICES ASSUME NEW x \in 1 .. m
               PROVE  (\E k \in 1 .. B - n : c[k] = x) \/ (\E k \in 1 .. G + n : h[k] = x)
    BY <1>2, Zenon
  <2>1. (\E k \in 1 .. B : b[k] = x) \/ (\E k \in 1 .. G : g[k] = x)
    BY Zenon DEF Stored, B, G
  <2>2. ASSUME NEW k \in 1 .. G, g[k] = x PROVE \E j \in 1 .. G + n : h[j] = x
    BY <1>1, <1>2, <2>2
  <2>3. ASSUME NEW k \in 1 .. B, k <= B - n, b[k] = x PROVE \E j \in 1 .. B - n : c[j] = x
    <3>1. k \in 1 .. B - n
      BY <1>1, <2>3
    <3>2. c[k] = x
      BY <1>2, <2>3, <3>1, Zenon
    <3> QED  BY <3>1, <3>2, Zenon
  <2>4. ASSUME NEW k \in 1 .. B, k > B - n, b[k] = x PROVE \E j \in 1 .. G + n : h[j] = x
    <3>1. B + 1 - k \in 1 .. n /\ B - (B + 1 - k) + 1 = k /\ G + (B + 1 - k) \in 1 .. G + n
      BY <1>1, <2>4
    <3>2. h[G + (B + 1 - k)] = b[B - (B + 1 - k) + 1]
      BY <1>2, <3>1, Zenon
    <3> QED  BY <2>4, <3>1, <3>2, Zenon
  <2>5. \A k \in 1 .. B : k <= B - n \/ k > B - n
    BY <1>1
  <2> QED  BY <2>1, <2>2, <2>3, <2>4, <2>5, Zenon
<1>11. Stored(c, h, m)
  BY <1>5, <1>6, <1>7, <1>8, <1>9, <1>10, Zenon DEF Stored
<1>12. /\ \A j, k \in 1 .. G : j < k /\ g[j] > g[k] => w[g[j]] > w[g[k]]
       /\ \A j \in 1 .. G, k \in 1 .. B : g[j] > b[k] => w[g[j]] > w[b[k]]
       /\ \A j, k \in 1 .. B : j < k /\ b[k] > b[j] => w[b[k]] > w[b[j]]
  BY Zenon DEF Ordered, B, G
<1>13. \A j, k \in 1 .. Len(h) : j < k /\ h[j] > h[k] => w[h[j]] > w[h[k]]
  <2>1. ASSUME NEW j \in 1 .. G + n, NEW k \in 1 .. G + n, j < k, h[j] > h[k]
        PROVE  w[h[j]] > w[h[k]]
    <3>1. \/ j \in 1 .. G /\ h[j] = g[j]
          \/ j > G /\ B + 1 - (j - G) \in B - n + 1 .. B /\ h[j] = b[B + 1 - (j - G)]
      BY <1>3, Zenon
    <3>2. \/ k \in 1 .. G /\ h[k] = g[k]
          \/ k > G /\ B + 1 - (k - G) \in B - n + 1 .. B /\ h[k] = b[B + 1 - (k - G)]
      BY <1>3, Zenon
    <3>3. CASE k \in 1 .. G /\ h[k] = g[k]
      <4>1. j \in 1 .. G /\ h[j] = g[j]
        BY <1>1, <2>1, <3>1, <3>3
      <4> QED  BY <1>12, <2>1, <3>3, <4>1, Zenon
    <3>4. CASE k > G /\ B + 1 - (k - G) \in B - n + 1 .. B /\ h[k] = b[B + 1 - (k - G)]
      <4> DEFINE x == B + 1 - (k - G)
                 y == B + 1 - (j - G)
      <4>1. x \in 1 .. B /\ h[k] = b[x]
        <5>1. x \in B - n + 1 .. B /\ h[k] = b[x]
          BY <3>4, Zenon
        <5> HIDE DEF x
        <5>2. x \in 1 .. B
          BY <1>1, <5>1, InBuffer, Zenon
        <5> QED  BY <5>1, <5>2, Zenon
      <4>2. CASE j \in 1 .. G /\ h[j] = g[j]
        <5> HIDE DEF x
        <5> QED  BY <1>12, <2>1, <4>1, <4>2, SMTT(30)
      <4>3. CASE j > G /\ y \in B - n + 1 .. B /\ h[j] = b[y]
        <5>1. y \in 1 .. B /\ x < y
          BY <1>1, <2>1, <3>4, <4>3
        <5> HIDE DEF x, y
        <5> QED  BY <1>12, <2>1, <4>1, <4>3, <5>1, Zenon
      <4> QED  BY <3>1, <4>2, <4>3
    <3> QED  BY <3>2, <3>3, <3>4, Zenon
  <2> QED  BY <1>2, <2>1, Zenon
<1>14. \A j \in 1 .. Len(h), k \in 1 .. Len(c) : h[j] > c[k] => w[h[j]] > w[c[k]]
  <2>1. ASSUME NEW j \in 1 .. G + n, NEW k \in 1 .. B - n, h[j] > c[k]
        PROVE  w[h[j]] > w[c[k]]
    <3>1. \/ j \in 1 .. G /\ h[j] = g[j]
          \/ j > G /\ B + 1 - (j - G) \in B - n + 1 .. B /\ h[j] = b[B + 1 - (j - G)]
      BY <1>3, Zenon
    <3>2. c[k] = b[k] /\ k \in 1 .. B
      BY <1>1, <1>2
    <3>3. CASE j \in 1 .. G /\ h[j] = g[j]
      BY <1>12, <2>1, <3>2, <3>3
    <3> DEFINE y == B + 1 - (j - G)
    <3>4. CASE y \in B - n + 1 .. B /\ h[j] = b[y]
      <4>1. y \in 1 .. B /\ k < y
        BY <1>1, <2>1, <3>4
      <4> HIDE DEF y
      <4> QED  BY <1>12, <2>1, <3>2, <3>4, <4>1, SMTT(30)
    <3> QED  BY <3>1, <3>3, <3>4, Zenon
  <2> QED  BY <1>2, <2>1, Zenon
<1>15. \A j, k \in 1 .. Len(c) : j < k /\ c[k] > c[j] => w[c[k]] > w[c[j]]
  <2>1. ASSUME NEW j \in 1 .. B - n, NEW k \in 1 .. B - n, j < k, c[k] > c[j]
        PROVE  w[c[k]] > w[c[j]]
    <3>1. j \in 1 .. B /\ k \in 1 .. B /\ c[j] = b[j] /\ c[k] = b[k]
      BY <1>1, <1>2, InBuffer, Zenon
    <3> QED  BY <1>12, <2>1, <3>1, Zenon
  <2> QED  BY <1>2, <2>1, SMTT(30)
<1> QED  BY <1>11, <1>13, <1>14, <1>15, Zenon DEF Ordered

\* v is w with pass u, later than all of w, for the bytes m + 1 .. m + n
Later(w, v, m, n, u) ==
  /\ \A x \in 1 .. m : v[x] = w[x] /\ u > w[x]
  /\ \A x \in m + 1 .. m + n : v[x] = u

\* A pass of the tick thread: n new bytes go to the back, the last one first.
LEMMA PassKeeps ==
  ASSUME NEW b, NEW g, NEW m \in Nat, NEW w, Stored(b, g, m), Ordered(b, g, w),
         NEW n \in Nat, NEW c \in Seq(Nat), NEW v, NEW u \in Nat,
         Len(c) = Len(b) + n, \A i \in 1 .. Len(b) : c[i] = b[i],
         \A i \in 1 .. n : c[Len(b) + i] = m + n - i + 1,
         Later(w, v, m, n, u)
  PROVE  Stored(c, g, m + n) /\ Ordered(c, g, v)
<1> DEFINE B == Len(b)
           G == Len(g)
<1>1. B \in Nat /\ G \in Nat
  BY DEF Stored, Within
<1> HIDE DEF B, G
<1>2. /\ Len(c) = B + n
      /\ \A i \in 1 .. B : c[i] = b[i]
      /\ \A i \in 1 .. n : c[B + i] = m + n - i + 1
  BY Zenon DEF B
<1>3. ASSUME NEW i \in 1 .. B + n
      PROVE  \/ i \in 1 .. B /\ c[i] = b[i] /\ c[i] \in 1 .. m
             \/ i > B /\ c[i] = m + n + 1 - (i - B) /\ c[i] \in m + 1 .. m + n
  <2>1. CASE i \in 1 .. B
    <3>1. c[i] = b[i]
      BY <1>2, <2>1, Zenon
    <3>2. b[i] \in 1 .. m
      BY <2>1, SMTT(30) DEF Stored, Within, B
    <3> QED  BY <2>1, <3>1, <3>2, Zenon
  <2>2. CASE i > B
    <3>1. i - B \in 1 .. n /\ B + (i - B) = i
      BY <1>1, <2>2
    <3>2. c[B + (i - B)] = m + n - (i - B) + 1
      BY <1>2, <3>1, Zenon
    <3>3. c[i] = m + n + 1 - (i - B)
      BY <1>1, <3>1, <3>2
    <3> QED  BY <1>1, <2>2, <3>1, <3>3
  <2> QED  BY <1>1, <2>1, <2>2
<1>4. \A k \in 1 .. G : g[k] \in 1 .. m
  BY DEF Stored, Within, G
<1>5. Within(c, m + n)
  <2>1. ASSUME NEW i \in 1 .. B + n PROVE 1 <= c[i] /\ c[i] <= m + n
    BY <1>1, <1>3
  <2>2. Len(c) = B + n
    BY <1>2, Zenon
  <2> QED  BY <2>1, <2>2, Zenon DEF Within
<1>6. Within(g, m + n)
  <2>1. g \in Seq(Nat) /\ \A k \in 1 .. Len(g) : 1 <= g[k] /\ g[k] <= m
    BY Zenon DEF Stored, Within
  <2>2. \A k \in 1 .. Len(g) : g[k] <= m + n
    <3>1. \A x \in Nat : x <= m => x <= m + n
      OBVIOUS
    <3>2. \A k \in 1 .. Len(g) : g[k] \in Nat
      BY <2>1
    <3> QED  BY <2>1, <3>1, <3>2
  <2> QED  BY <2>1, <2>2 DEF Within
<1>7. Once(c)
  <2>1. ASSUME NEW j \in 1 .. B + n, NEW k \in 1 .. B + n, c[j] = c[k] PROVE j = k
    <3>1. \/ j \in 1 .. B /\ c[j] = b[j] /\ c[j] \in 1 .. m
          \/ j > B /\ c[j] = m + n + 1 - (j - B) /\ c[j] \in m + 1 .. m + n
      BY <1>3, Zenon
    <3>2. \/ k \in 1 .. B /\ c[k] = b[k] /\ c[k] \in 1 .. m
          \/ k > B /\ c[k] = m + n + 1 - (k - B) /\ c[k] \in m + 1 .. m + n
      BY <1>3, Zenon
    <3>3. \A x, y \in 1 .. B : b[x] = b[y] => x = y
      BY Zenon DEF Stored, Once, B
    <3>4. 1 .. m \cap (m + 1 .. m + n) = {}
      OBVIOUS
    <3>5. CASE j \in 1 .. B /\ c[j] = b[j] /\ c[j] \in 1 .. m
      BY <2>1, <3>2, <3>3, <3>4, <3>5
    <3>6. CASE j > B /\ c[j] = m + n + 1 - (j - B) /\ c[j] \in m + 1 .. m + n
      <4>1. c[k] = m + n + 1 - (k - B)
        BY <2>1, <3>2, <3>4, <3>6, Zenon
      <4>2. m + n + 1 - (j - B) = m + n + 1 - (k - B)
        BY <2>1, <3>6, <4>1, Zenon
      <4> QED  BY <1>1, <4>2
    <3> QED  BY <3>1, <3>5, <3>6, Zenon
  <2>2. Len(c) = B + n
    BY <1>2, Zenon
  <2> QED  BY <2>1, <2>2, Zenon DEF Once
<1>8. \A j \in 1 .. Len(c), k \in 1 .. Len(g) : c[j] # g[k]
  <2>1. ASSUME NEW j \in 1 .. B + n, NEW k \in 1 .. G PROVE c[j] # g[k]
    <3>1. \A x \in 1 .. B : b[x] # g[k]
      BY Zenon DEF Stored, B, G
    <3>2. g[k] \notin m + 1 .. m + n
      <4>1. g[k] \in 1 .. m
        BY <1>4, Zenon
      <4> QED  BY <4>1
    <3> QED  BY <1>3, <3>1, <3>2, Zenon
  <2>2. Len(c) = B + n
    BY <1>2, Zenon
  <2> QED  BY <2>1, <2>2, SMTT(30) DEF G
<1>9. \A x \in 1 .. m + n : (\E k \in 1 .. Len(c) : c[k] = x) \/ (\E k \in 1 .. Len(g) : g[k] = x)
  <2> SUFFICES ASSUME NEW x \in 1 .. m + n
               PROVE  (\E k \in 1 .. B + n : c[k] = x) \/ (\E k \in 1 .. Len(g) : g[k] = x)
    BY <1>2, Zenon
  <2>1. CASE x \in 1 .. m
    <3>1. (\E k \in 1 .. B : b[k] = x) \/ (\E k \in 1 .. Len(g) : g[k] = x)
      BY <2>1, Zenon DEF Stored, B
    <3>2. ASSUME NEW k \in 1 .. B, b[k] = x PROVE \E j \in 1 .. B + n : c[j] = x
      <4>1. k \in 1 .. B + n
        BY <1>1
      <4>2. c[k] = b[k]
        BY <1>2, Zenon
      <4> QED  BY <3>2, <4>1, <4>2, Zenon
    <3> QED  BY <3>1, <3>2, Zenon
  <2>2. CASE x \in m + 1 .. m + n
    <3>1. /\ m + n + 1 - x \in 1 .. n /\ m + n - (m + n + 1 - x) + 1 = x
          /\ B + (m + n + 1 - x) \in 1 .. B + n
      BY <1>1, <2>2
    <3>2. c[B + (m + n + 1 - x)] = m + n - (m + n + 1 - x) + 1
      BY <1>2, <3>1, Zenon
    <3> QED  BY <3>1, <3>2, Zenon
  <2> QED  BY <2>1, <2>2
<1>10. Stored(c, g, m + n)
  <2>1. Once(g)
    BY Zenon DEF Stored
  <2> QED  BY <1>5, <1>6, <1>7, <1>8, <1>9, <2>1 DEF Stored
<1>11. /\ \A x \in 1 .. m : v[x] = w[x]
       /\ \A x \in m + 1 .. m + n, y \in 1 .. m : v[x] > v[y]
       /\ \A x \in 1 .. m, y \in m + 1 .. m + n : ~(x > y)
  BY SMTT(30) DEF Later
<1>12. /\ \A j, k \in 1 .. G : j < k /\ g[j] > g[k] => w[g[j]] > w[g[k]]
       /\ \A j \in 1 .. G, k \in 1 .. B : g[j] > b[k] => w[g[j]] > w[b[k]]
       /\ \A j, k \in 1 .. B : j < k /\ b[k] > b[j] => w[b[k]] > w[b[j]]
  BY Zenon DEF Ordered, B, G
<1>13. \A j, k \in 1 .. Len(g) : j < k /\ g[j] > g[k] => v[g[j]] > v[g[k]]
  BY <1>4, <1>11, <1>12, Zenon DEF G
<1>14. \A j \in 1 .. Len(g), k \in 1 .. Len(c) : g[j] > c[k] => v[g[j]] > v[c[k]]
  <2>1. ASSUME NEW j \in 1 .. G, NEW k \in 1 .. B + n, g[j] > c[k] PROVE v[g[j]] > v[c[k]]
    <3>1. g[j] \in 1 .. m
      BY <1>4, Zenon
    <3>2. k \in 1 .. B /\ c[k] = b[k] /\ c[k] \in 1 .. m
      BY <1>3, <1>11, <2>1, <3>1, SMTT(30)
    <3>3. w[g[j]] > w[b[k]]
      BY <1>12, <2>1, <3>2, Zenon
    <3> QED  BY <1>11, <3>1, <3>2, <3>3, SMTT(30)
  <2>2. Len(c) = B + n
    BY <1>2, Zenon
  <2> QED  BY <2>1, <2>2, Zenon DEF G
<1>15. \A j, k \in 1 .. Len(c) : j < k /\ c[k] > c[j] => v[c[k]] > v[c[j]]
  <2>1. ASSUME NEW j \in 1 .. B + n, NEW k \in 1 .. B + n, j < k, c[k] > c[j]
        PROVE  v[c[k]] > v[c[j]]
    <3>1. \/ j \in 1 .. B /\ c[j] = b[j] /\ c[j] \in 1 .. m
          \/ j > B /\ c[j] = m + n + 1 - (j - B) /\ c[j] \in m + 1 .. m + n
      BY <1>3, Zenon
    <3>2. \/ k \in 1 .. B /\ c[k] = b[k] /\ c[k] \in 1 .. m
          \/ k > B /\ c[k] = m + n + 1 - (k - B) /\ c[k] \in m + 1 .. m + n
      BY <1>3, Zenon
    <3>3. j \in 1 .. B /\ c[j] = b[j] /\ c[j] \in 1 .. m
      <4>1. ASSUME j > B, c[j] = m + n + 1 - (j - B) PROVE FALSE
        <5>1. k > B
          BY <1>1, <2>1, <4>1
        <5>2. c[k] = m + n + 1 - (k - B)
          BY <1>1, <3>2, <5>1
        <5>3. ~(m + n + 1 - (k - B) > m + n + 1 - (j - B))
          BY <1>1, <2>1
        <5>4. m + n + 1 - (k - B) > m + n + 1 - (j - B)
          BY <2>1, <4>1, <5>2, Zenon
        <5> QED  BY <5>3, <5>4, Zenon
      <4> QED  BY <3>1, <4>1, Zenon
    <3>4. CASE k \in 1 .. B /\ c[k] = b[k] /\ c[k] \in 1 .. m
      <4>1. w[b[k]] > w[b[j]]
        BY <1>12, <2>1, <3>3, <3>4, Zenon
      <4> QED  BY <1>11, <3>3, <3>4, <4>1, SMTT(30)
    <3>5. CASE c[k] \in m + 1 .. m + n
      BY <1>11, <3>3, <3>5, Zenon
    <3> QED  BY <3>2, <3>4, <3>5, Zenon
  <2>2. Len(c) = B + n
    BY <1>2, Zenon
  <2> QED  BY <2>1, <2>2, Zenon
<1> QED  BY <1>10, <1>13, <1>14, <1>15, Zenon DEF Ordered

Moved == typed - Len(queue)

\* Only the console ever receives, the queue holds the bytes typed since the last
\* pass, and the ones before are in the buffer or read.
KeptInv ==
  /\ typed \in Nat /\ typed <= MaxBytes
  /\ queue \in Seq(Nat) /\ Moved \in Nat
  /\ \A k \in 1 .. Len(queue) : queue[k] = Moved + k
  /\ DOMAIN data = Ports /\ \A p \in Ports : p # Console => data[p] = <<>>
  /\ taken \in [1 .. MaxBytes -> Nat]
  /\ \E x \in {0} \cup Range(taken) : \A y \in {0} \cup Range(taken) : x >= y
  /\ Stored(data[Console], got, Moved)
  /\ Ordered(data[Console], got, taken)

\* Nothing is typed at the start.
LEMMA ByteStart == SerialInit => KeptInv
<1> SUFFICES ASSUME SerialInit PROVE KeptInv
  BY Zenon
<1>1. queue = <<>> /\ got = <<>> /\ typed = 0 /\ taken = [k \in 1 .. MaxBytes |-> 0]
      /\ data = [p \in Ports |-> <<>>]
  BY Zenon DEF SerialInit
<1>2. Len(<<>>) = 0 /\ <<>> \in Seq(Nat)
  OBVIOUS
<1>3. Moved = 0
  <2>1. typed = 0 /\ Len(queue) = 0
    BY <1>1, <1>2, Zenon
  <2> QED  BY <2>1 DEF Moved
<1>4. data[Console] = <<>> /\ DOMAIN data = Ports /\ \A p \in Ports : data[p] = <<>>
  BY <1>1, SerialAssumption, Zenon
<1>5. Stored(<<>>, <<>>, 0)
  BY <1>2 DEF Stored, Within, Once
<1>6. Ordered(<<>>, <<>>, taken)
  BY <1>2 DEF Ordered
<1>7. taken \in [1 .. MaxBytes -> Nat] /\ \A y \in {0} \cup Range(taken) : y = 0
  BY <1>1, Zenon DEF Range
<1>8. \E x \in {0} \cup Range(taken) : \A y \in {0} \cup Range(taken) : x >= y
  BY <1>7
<1>9. typed \in Nat /\ typed <= MaxBytes
  BY <1>1, SerialAssumption
<1>10. queue \in Seq(Nat) /\ Moved \in Nat /\ \A k \in 1 .. Len(queue) : queue[k] = Moved + k
  BY <1>1, <1>2, <1>3
<1> QED  BY <1>1, <1>3, <1>4, <1>5, <1>6, <1>7, <1>8, <1>9, <1>10, Zenon DEF KeptInv

\* Keys typed on the console go to the queue and keep every byte in one place.
LEMMA ByteType ==
  ASSUME KeptInv, NEW n \in KeySizes, Type(n) PROVE KeptInv'
<1> DEFINE new == [k \in 1 .. n |-> typed + k]
           Q == Len(queue)
<1>1. n \in Nat /\ typed \in Nat /\ Q \in Nat /\ queue \in Seq(Nat) /\ Moved \in Nat
  BY SerialAssumption DEF KeptInv
<1>2. new \in Seq(Nat) /\ Len(new) = n /\ \A k \in 1 .. n : new[k] = typed + k
  BY <1>1
<1> HIDE DEF new, Q
<1>3. queue' = queue \o new /\ typed' = typed + n /\ typed' <= MaxBytes
      /\ data' = data /\ taken' = taken /\ got' = got
  BY Zenon DEF Type, new
<1>4. /\ queue \o new \in Seq(Nat) /\ Len(queue \o new) = Q + n
      /\ \A i \in 1 .. Q + n : (queue \o new)[i] = IF i <= Q THEN queue[i] ELSE new[i - Q]
  <2>1. queue \in Seq(Nat) /\ new \in Seq(Nat)
    BY <1>1, <1>2, Zenon
  <2>2. /\ queue \o new \in Seq(Nat) /\ Len(queue \o new) = Len(queue) + Len(new)
        /\ \A i \in 1 .. Len(queue) + Len(new) :
             (queue \o new)[i] = IF i <= Len(queue) THEN queue[i] ELSE new[i - Len(queue)]
    BY <2>1, ConcatIs, Zenon
  <2>3. Len(queue) = Q /\ Len(new) = n
    BY <1>2, Zenon DEF Q
  <2> QED  BY <2>2, <2>3, Zenon
<1>5. Moved = typed - Q /\ Moved' = Moved
  <2>1. Moved = typed - Q
    BY Zenon DEF Moved, Q
  <2>2. Moved' = (typed + n) - (Q + n)
    BY <1>3, <1>4, Zenon DEF Moved
  <2> QED  BY <1>1, <2>1, <2>2
<1>6. \A i \in 1 .. Q : queue[i] = Moved + i
  BY Zenon DEF KeptInv, Q
<1>7. ASSUME NEW i \in 1 .. Q + n PROVE (queue \o new)[i] = Moved + i
  <2>1. CASE i <= Q
    <3>1. i \in 1 .. Q
      BY <1>1, <2>1
    <3> QED  BY <1>4, <1>6, <2>1, <3>1, Zenon
  <2>2. CASE ~(i <= Q)
    <3>1. i - Q \in 1 .. n
      BY <1>1, <2>2
    <3>2. (queue \o new)[i] = typed + (i - Q)
      BY <1>2, <1>4, <2>2, <3>1, Zenon
    <3> QED  BY <1>1, <1>5, <3>2
  <2> QED  BY <2>1, <2>2, Zenon
<1>8. \A k \in 1 .. Len(queue') : queue'[k] = Moved' + k
  BY <1>3, <1>4, <1>5, <1>7
<1>9. typed' \in Nat /\ queue' \in Seq(Nat) /\ Moved' \in Nat
  BY <1>1, <1>3, <1>4, <1>5
<1>10. /\ DOMAIN data = Ports /\ \A p \in Ports : p # Console => data[p] = <<>>
       /\ taken \in [1 .. MaxBytes -> Nat]
       /\ \E x \in {0} \cup Range(taken) : \A y \in {0} \cup Range(taken) : x >= y
       /\ Stored(data[Console], got, Moved) /\ Ordered(data[Console], got, taken)
  BY Zenon  DEF KeptInv
<1> QED  BY <1>3, <1>5, <1>8, <1>9, <1>10, Zenon DEF KeptInv

\* Reads the console's buffer, or a port's that is empty
LEMMA ByteInput ==
  ASSUME KeptInv, NEW p \in Ports, NEW n \in ReadSizes, Input(p, n) PROVE KeptInv'
<1> DEFINE d == data[p]
           L == Len(d)
           k == IF n < L THEN n ELSE L
           out == SubSeq(d, L - k + 1, L)
           c == SubSeq(d, 1, L - k)
           h == got \o Backwards(out)
<1>1. /\ data' = [data EXCEPT ![p] = c] /\ got' = h
      /\ queue' = queue /\ typed' = typed /\ taken' = taken
  BY Zenon DEF Input
<1>2. n \in Nat /\ got \in Seq(Nat) /\ DOMAIN data = Ports
  BY SerialAssumption, Zenon DEF KeptInv, Stored, Within
<1>3. d \in Seq(Nat)
  <2>1. CASE p = Console
    BY <2>1, Zenon DEF KeptInv, Stored, Within
  <2>2. CASE p # Console
    <3>1. d = <<>>
      BY <2>2, Zenon DEF KeptInv
    <3> HIDE DEF d
    <3> QED  BY <3>1
  <2> QED  BY <2>1, <2>2
<1> HIDE DEF d
<1>4. L \in Nat
  BY <1>3
<1> HIDE DEF L
<1>5. k \in 0 .. L
  BY <1>2, <1>4
<1> HIDE DEF k
<1>6. /\ c \in Seq(Nat) /\ Len(c) = L - k /\ \A i \in 1 .. L - k : c[i] = d[i]
  <2>1. L - k \in 0 .. L
    BY <1>4, <1>5
  <2>2. \A i \in 1 .. L - k : 1 + i - 1 = i /\ i \in 1 .. L
    BY <1>4, <1>5
  <2>3. 1 .. L - k \subseteq 1 .. L /\ (1 <= L - k + 1) /\ (L - k <= L)
    BY <1>4, <1>5
  <2> QED  BY <1>3, <1>4, <1>5 DEF L
<1>7. out \in Seq(Nat) /\ Len(out) = k /\ \A i \in 1 .. k : out[i] = d[L - k + i]
  BY <1>3, <1>4, <1>5 DEF L
<1> HIDE DEF c, out
<1> DEFINE rev == Backwards(out)
<1>8. rev \in Seq(Nat) /\ Len(rev) = k /\ \A i \in 1 .. k : rev[i] = d[L - i + 1]
  <2>1. k \in Nat
    BY <1>4, <1>5
  <2>2. Len(out) = k
    BY <1>7, Zenon
  <2>3. rev = [i \in 1 .. k |-> out[(k - i) + 1]]
    BY <2>2, Zenon DEF Backwards
  <2>4. \A i \in 1 .. k : (k - i) + 1 \in 1 .. k /\ L - k + ((k - i) + 1) = L - i + 1
    BY <1>4, <2>1
  <2>5. \A i \in 1 .. k : out[(k - i) + 1] \in Nat
    BY <1>7, <2>4, SMTT(30)
  <2>6. \A i \in 1 .. k : out[(k - i) + 1] = d[L - i + 1]
    BY <1>7, <2>4
  <2> HIDE DEF rev
  <2>7. rev \in Seq(Nat) /\ Len(rev) = k
    BY <2>1, <2>3, <2>5
  <2>8. \A i \in 1 .. k : rev[i] = d[L - i + 1]
    BY <2>3, <2>6, Zenon
  <2> QED  BY <2>7, <2>8, Zenon
<1> HIDE DEF rev
<1> DEFINE G == Len(got)
<1>9. /\ h \in Seq(Nat) /\ Len(h) = G + k /\ G \in Nat
      /\ \A i \in 1 .. G + k : h[i] = IF i <= G THEN got[i] ELSE rev[i - G]
  <2>1. got \in Seq(Nat) /\ rev \in Seq(Nat)
    BY <1>2, <1>8, Zenon
  <2>2. /\ got \o rev \in Seq(Nat) /\ Len(got \o rev) = Len(got) + Len(rev)
        /\ \A i \in 1 .. Len(got) + Len(rev) :
             (got \o rev)[i] = IF i <= Len(got) THEN got[i] ELSE rev[i - Len(got)]
    BY <2>1, ConcatIs, Zenon
  <2>3. Len(rev) = k /\ h = got \o rev /\ Len(got) \in Nat
    BY <1>2, <1>8 DEF rev
  <2> QED  BY <2>2, <2>3, Zenon
<1> HIDE DEF h, G
<1>10. \A i \in 1 .. G : h[i] = got[i]
  BY <1>4, <1>5, <1>9
<1>11. \A i \in 1 .. k : h[G + i] = d[L - i + 1]
  <2> SUFFICES ASSUME NEW i \in 1 .. k PROVE h[G + i] = d[L - i + 1]
    BY Zenon
  <2>1. G + i \in 1 .. G + k /\ ~(G + i <= G) /\ (G + i) - G = i
    BY <1>4, <1>5, <1>9
  <2>2. h[G + i] = rev[i]
    BY <1>9, <2>1, Zenon
  <2> QED  BY <1>8, <2>2, Zenon
<1>12. Stored(data[Console], got, Moved) /\ Ordered(data[Console], got, taken) /\ Moved \in Nat
  BY Zenon  DEF KeptInv
<1>13. CASE p = Console
  <2>1. Stored(c, h, Moved) /\ Ordered(c, h, taken)
    <3>1. Stored(d, got, Moved) /\ Ordered(d, got, taken) /\ Moved \in Nat
      BY <1>12, <1>13, Zenon DEF d
    <3>2. k \in 0 .. Len(d) /\ Len(c) = Len(d) - k /\ \A i \in 1 .. Len(d) - k : c[i] = d[i]
      BY <1>5, <1>6, Zenon DEF L
    <3>3. Len(h) = Len(got) + k /\ \A i \in 1 .. Len(got) : h[i] = got[i]
      BY <1>9, <1>10, Zenon DEF G
    <3>4. \A i \in 1 .. k : h[Len(got) + i] = d[Len(d) - i + 1]
      BY <1>11, Zenon DEF G, L
    <3>5. c \in Seq(Nat) /\ h \in Seq(Nat)
      BY <1>6, <1>9, Zenon
    <3> QED  BY <3>1, <3>2, <3>3, <3>4, <3>5, ReadKeeps, ZenonT(30)
  <2>2. /\ data'[Console] = c /\ DOMAIN data' = Ports
        /\ \A q \in Ports : q # Console => data'[q] = data[q]
    BY <1>1, <1>2, <1>13, Zenon
  <2>3. Moved' = Moved
    BY <1>1 DEF Moved
  <2> QED  BY <1>1, <2>1, <2>2, <2>3, Zenon DEF KeptInv
<1>14. CASE p # Console
  <2>1. d = <<>>
    BY <1>14, Zenon DEF KeptInv, d
  <2>2. L = 0 /\ k = 0
    <3>1. L = 0
      BY <2>1, Zenon DEF L
    <3> QED  BY <1>5, <3>1
  <2>3. c = <<>>
    BY <1>6, <2>2
  <2>4. h = got
    <3>1. Len(h) = Len(got)
      BY <1>9, <2>2 DEF G
    <3>2. \A i \in 1 .. Len(h) : h[i] = got[i]
      BY <1>10, <3>1, Zenon DEF G
    <3>3. h \in Seq(Nat) /\ got \in Seq(Nat)
      BY <1>2, <1>9, Zenon
    <3> QED  BY <3>1, <3>2, <3>3, SeqsEqual, Zenon
  <2>5. /\ data'[Console] = data[Console] /\ DOMAIN data' = Ports
        /\ \A q \in Ports : q # Console => data'[q] = <<>>
    <3>1. \A q \in Ports : q # Console => data[q] = <<>>
      BY Zenon  DEF KeptInv
    <3> QED  BY <1>1, <1>2, <1>14, <2>3, <3>1, SerialAssumption
  <2>6. Moved' = Moved
    BY <1>1, Zenon DEF Moved
  <2> QED  BY <1>1, <1>12, <2>4, <2>5, <2>6 DEF KeptInv
<1> QED  BY <1>13, <1>14, Zenon

\* A tick moves the queue into the buffer and keeps every byte in one place.
LEMMA BytePass ==
  ASSUME KeptInv, TickPorts PROVE KeptInv'
<1> DEFINE b == data[Console]
           B == Len(b)
           Q == Len(queue)
           rev == Backwards(queue)
           c == b \o rev
           S == {0} \cup Range(taken)
           u == 1 + Max(S)
           fresh(k) == \E j \in DOMAIN queue : queue[j] = k
<1>1. /\ data' = [data EXCEPT ![Console] = c] /\ queue' = <<>>
      /\ taken' = [k \in DOMAIN taken |-> IF fresh(k) THEN u ELSE taken[k]]
      /\ typed' = typed /\ got' = got
  BY ZenonT(30) DEF TickPorts, MoveTyped
<1>2. /\ typed \in Nat /\ typed <= MaxBytes /\ queue \in Seq(Nat) /\ Moved \in Nat
      /\ DOMAIN data = Ports /\ taken \in [1 .. MaxBytes -> Nat]
  BY Zenon DEF KeptInv
<1>3. \A k \in 1 .. Q : queue[k] = Moved + k
  BY Zenon  DEF KeptInv
<1>4. b \in Seq(Nat)
  BY Zenon DEF KeptInv, Stored, Within
<1>5. Q \in Nat /\ B \in Nat /\ DOMAIN queue = 1 .. Q
  BY <1>2, <1>4
<1>6. Moved + Q = typed
  BY <1>2, <1>5 DEF Moved
<1> HIDE DEF b, B, Q
<1>7. rev \in Seq(Nat) /\ Len(rev) = Q /\ \A i \in 1 .. Q : rev[i] = Moved + Q - i + 1
  <2>1. rev = [i \in 1 .. Q |-> queue[(Q - i) + 1]]
    BY Zenon DEF Backwards, Q
  <2>2. \A i \in 1 .. Q : (Q - i) + 1 \in 1 .. Q /\ Moved + ((Q - i) + 1) = Moved + Q - i + 1
    BY <1>2, <1>5
  <2>3. \A i \in 1 .. Q : queue[(Q - i) + 1] = Moved + Q - i + 1
    BY <1>3, <2>2, Zenon
  <2>4. \A i \in 1 .. Q : Moved + Q - i + 1 \in Nat
    BY <1>2, <1>5
  <2> HIDE DEF rev
  <2>5. rev = [i \in 1 .. Q |-> Moved + Q - i + 1]
    BY <2>1, <2>3, Zenon
  <2>6. rev \in Seq(Nat) /\ Len(rev) = Q
    BY <1>5, <2>4, <2>5
  <2>7. \A i \in 1 .. Q : rev[i] = Moved + Q - i + 1
    BY <2>5, Zenon
  <2> QED  BY <2>6, <2>7, Zenon
<1> HIDE DEF rev
<1>8. /\ c \in Seq(Nat) /\ Len(c) = B + Q
      /\ \A i \in 1 .. B + Q : c[i] = IF i <= B THEN b[i] ELSE rev[i - B]
  <2>1. b \in Seq(Nat) /\ rev \in Seq(Nat)
    BY <1>4, <1>7, Zenon
  <2>2. /\ b \o rev \in Seq(Nat) /\ Len(b \o rev) = Len(b) + Len(rev)
        /\ \A i \in 1 .. Len(b) + Len(rev) :
             (b \o rev)[i] = IF i <= Len(b) THEN b[i] ELSE rev[i - Len(b)]
    BY <2>1, ConcatIs, Zenon
  <2>3. Len(rev) = Q /\ Len(b) = B
    BY <1>7, Zenon DEF B
  <2> QED  BY <2>2, <2>3, Zenon
<1> HIDE DEF c
<1>9. \A i \in 1 .. B : c[i] = b[i]
  BY <1>5, <1>8
<1>10. \A i \in 1 .. Q : c[B + i] = Moved + Q - i + 1
  <2> SUFFICES ASSUME NEW i \in 1 .. Q PROVE c[B + i] = Moved + Q - i + 1
    BY Zenon
  <2>1. B + i \in 1 .. B + Q /\ ~(B + i <= B) /\ (B + i) - B = i
    BY <1>5
  <2>2. c[B + i] = rev[i]
    BY <1>8, <2>1, Zenon
  <2> QED  BY <1>7, <2>2, Zenon
<1>11. u \in Nat /\ \A k \in 1 .. MaxBytes : u > taken[k]
  <2>1. \E x \in S : \A y \in S : x >= y
    BY Zenon DEF KeptInv
  <2>2. S \subseteq Nat /\ \A k \in 1 .. MaxBytes : taken[k] \in S
    BY <1>2 DEF Range
  <2> HIDE DEF S
  <2>3. Max(S) \in S /\ \A y \in S : Max(S) >= y
    BY <2>1, Zenon DEF Max
  <2>4. Max(S) \in Nat /\ \A k \in 1 .. MaxBytes : taken[k] \in Nat /\ Max(S) >= taken[k]
    BY <2>2, <2>3, Zenon
  <2> HIDE DEF u
  <2>5. u = 1 + Max(S)
    BY Zenon DEF u
  <2>6. \A x, y \in Nat : x >= y => 1 + x > y
    OBVIOUS
  <2> QED  BY <2>4, <2>5, <2>6
<1>12. \A k : fresh(k) <=> k \in Moved + 1 .. Moved + Q
  <2> SUFFICES ASSUME NEW k PROVE (\E j \in 1 .. Q : queue[j] = k) <=> k \in Moved + 1 .. Moved + Q
    BY <1>5, Zenon
  <2>1. ASSUME NEW j \in 1 .. Q, queue[j] = k PROVE k \in Moved + 1 .. Moved + Q
    <3>1. k = Moved + j
      BY <1>3, <2>1, Zenon
    <3> QED  BY <1>2, <1>5, <3>1
  <2>2. ASSUME k \in Moved + 1 .. Moved + Q PROVE \E j \in 1 .. Q : queue[j] = k
    <3>1. k - Moved \in 1 .. Q /\ Moved + (k - Moved) = k
      BY <1>2, <1>5, <2>2
    <3>2. queue[k - Moved] = Moved + (k - Moved)
      BY <1>3, <3>1, Zenon
    <3> QED  BY <3>1, <3>2, Zenon
  <2> QED  BY <2>1, <2>2, Zenon
<1> HIDE DEF u, fresh
<1>13. /\ taken' = [k \in 1 .. MaxBytes |-> IF fresh(k) THEN u ELSE taken[k]]
  BY <1>1, <1>2, Zenon
<1>14. /\ taken' \in [1 .. MaxBytes -> Nat]
       /\ \A k \in 1 .. MaxBytes : taken'[k] = IF k \in Moved + 1 .. Moved + Q THEN u ELSE taken[k]
  <2>1. \A k \in 1 .. MaxBytes : taken[k] \in Nat
    BY <1>2
  <2>2. \A k \in 1 .. MaxBytes : (IF fresh(k) THEN u ELSE taken[k]) \in Nat
    BY <1>11, <2>1, Zenon
  <2> QED  BY <1>12, <1>13, <2>2, Zenon
<1>15. /\ 1 .. Moved \subseteq 1 .. MaxBytes
       /\ Moved + 1 .. Moved + Q \subseteq 1 .. MaxBytes
       /\ \A x \in 1 .. Moved : x \notin Moved + 1 .. Moved + Q
  BY <1>2, <1>5, <1>6, SerialAssumption
<1>16. Later(taken, taken', Moved, Q, u)
  BY <1>11, <1>14, <1>15, Zenon DEF Later
<1>17. Stored(c, got, typed) /\ Ordered(c, got, taken')
  <2>1. ASSUME NEW v, Later(taken, v, Moved, Q, u)
        PROVE  Stored(c, got, Moved + Q) /\ Ordered(c, got, v)
    <3>1. Stored(b, got, Moved) /\ Ordered(b, got, taken)
      BY Zenon DEF KeptInv, b
    <3>2. Len(c) = Len(b) + Q /\ (\A i \in 1 .. Len(b) : c[i] = b[i])
          /\ \A i \in 1 .. Q : c[Len(b) + i] = Moved + Q - i + 1
      BY <1>8, <1>9, <1>10 DEF B
    <3>3. Moved \in Nat /\ Q \in Nat /\ c \in Seq(Nat) /\ u \in Nat
      BY <1>2, <1>5, <1>8, <1>11, Zenon
    <3> QED  BY <2>1, <3>1, <3>2, <3>3, PassKeeps, ZenonT(30)
  <2>2. Stored(c, got, Moved + Q) /\ Ordered(c, got, taken')
    BY <1>16, <2>1, Zenon
  <2> QED  BY <1>6, <2>2, Zenon
<1>18. \E x \in {0} \cup Range(taken') : \A y \in {0} \cup Range(taken') : x >= y
  <2>1. CASE Q = 0
    <3>1. Moved + 1 .. Moved + Q = {}
      BY <1>2, <2>1
    <3>2. taken' = taken
      <4>1. \A k \in 1 .. MaxBytes : taken'[k] = taken[k]
        BY <1>14, <3>1, Zenon
      <4>2. taken \in [1 .. MaxBytes -> Nat] /\ taken' \in [1 .. MaxBytes -> Nat]
        BY <1>2, <1>14, Zenon
      <4>3. taken = [k \in 1 .. MaxBytes |-> taken[k]]
        BY <4>2, Zenon
      <4>4. taken' = [k \in 1 .. MaxBytes |-> taken'[k]]
        BY <4>2
      <4> QED  BY <4>1, <4>3, <4>4, Zenon
    <3>3. \E x \in {0} \cup Range(taken) : \A y \in {0} \cup Range(taken) : x >= y
      BY Zenon DEF KeptInv
    <3> QED  BY <3>2, <3>3, Zenon
  <2>2. CASE Q # 0
    <3>1. Moved + 1 \in Moved + 1 .. Moved + Q
      BY <1>2, <1>5, <2>2
    <3>2. DOMAIN taken' = 1 .. MaxBytes
      BY <1>14, Zenon
    <3>3. u \in Range(taken')
      BY <1>15, <1>16, <3>1, <3>2 DEF Range, Later
    <3>4. \A k \in 1 .. MaxBytes : u >= taken'[k]
      <4>1. \A k \in 1 .. MaxBytes : taken[k] \in Nat
        BY <1>2, Zenon
      <4>2. \A x \in Nat : u > x => u >= x
        BY <1>11
      <4>3. u >= u /\ u >= 0
        BY <1>11
      <4> QED  BY <1>11, <1>14, <4>1, <4>2, <4>3
    <3>5. \A y \in {0} \cup Range(taken') : u >= y
      BY <1>11, <3>2, <3>4 DEF Range
    <3> QED  BY <3>3, <3>5, Zenon
  <2> QED  BY <2>1, <2>2, Zenon
<1>19. /\ data'[Console] = c /\ DOMAIN data' = Ports
       /\ \A q \in Ports : q # Console => data'[q] = <<>>
  <2>1. \A q \in Ports : q # Console => data[q] = <<>>
    BY Zenon DEF KeptInv
  <2> QED  BY <1>1, <1>2, <2>1, SerialAssumption
<1>20. queue' \in Seq(Nat) /\ Len(queue') = 0
  BY <1>1
<1>21. Moved' = typed
  <2>1. Moved' = typed - 0
    BY <1>1, <1>20, Zenon DEF Moved
  <2> QED  BY <1>2, <2>1
<1>22. \A k \in 1 .. Len(queue') : queue'[k] = Moved' + k
  BY <1>20
<1> QED  BY <1>1, <1>2, <1>14, <1>17, <1>18, <1>19, <1>20, <1>21, <1>22, Zenon DEF KeptInv

\* Every step keeps the invariant of the console's bytes.
LEMMA KeptStep == KeptInv /\ [SerialNext]_serialVars => KeptInv'
<1> SUFFICES ASSUME KeptInv, [SerialNext]_serialVars PROVE KeptInv'
  BY Zenon
<1>1. CASE UNCHANGED <<queue, data, typed, taken, got>>
  BY <1>1, Zenon DEF KeptInv, Moved
<1>2. CASE TickPorts
  BY <1>2, BytePass, Zenon
<1>3. CASE \E n \in KeySizes : Type(n)
  BY <1>3, ByteType, Zenon
<1>4. ASSUME NEW p \in Ports, NEW n \in ReadSizes, Input(p, n) PROVE KeptInv'
  BY <1>4, ByteInput, Zenon
<1>5. CASE UNCHANGED serialVars
  BY <1>1, <1>5, Zenon DEF serialVars
<1>6. CASE TakeCommands \/ Deliver
  BY <1>1, <1>6 DEF TakeCommands, Deliver
<1>7. ASSUME NEW p \in Ports, OutputData(p) \/ (\E on \in BOOLEAN : OutputLcr(p, on))
                              \/ (\E val \in IerVals : OutputIer(p, val))
      PROVE  KeptInv'
  BY <1>1, <1>7, Zenon DEF OutputData, OutputLcr, OutputIer
<1> QED  BY <1>2, <1>3, <1>4, <1>5, <1>6, <1>7, Zenon DEF SerialNext, TickThread

\* Where a byte is in one of the sequences
Held(tag, s, x) == {<<tag, k>> : k \in {j \in DOMAIN s : s[j] = x}}

\* A sequence without repeats holds a byte at one place or at none.
LEMMA HeldOnce ==
  ASSUME NEW s \in Seq(Nat), Once(s), NEW x, NEW tag
  PROVE  /\ (\E k \in 1 .. Len(s) : s[k] = x) => \E p : Held(tag, s, x) = {p}
         /\ ~(\E k \in 1 .. Len(s) : s[k] = x) => Held(tag, s, x) = {}
<1> DEFINE T == {k \in DOMAIN s : s[k] = x}
<1>1. DOMAIN s = 1 .. Len(s)
  OBVIOUS
<1>2. ASSUME NEW k \in 1 .. Len(s), s[k] = x PROVE \E p : Held(tag, s, x) = {p}
  <2>1. T = {k}
    BY <1>1, <1>2, Zenon DEF Once
  <2> HIDE DEF T
  <2>2. {<<tag, j>> : j \in T} = {<<tag, k>>}
    BY <2>1, Zenon
  <2> QED  BY <2>2, Zenon DEF Held, T
<1>3. ASSUME ~ \E k \in 1 .. Len(s) : s[k] = x PROVE Held(tag, s, x) = {}
  <2>1. T = {}
    BY <1>1, <1>3, Zenon
  <2> QED  BY <2>1, Zenon DEF Held
<1> QED  BY <1>2, <1>3, Zenon

\* From the invariant: each byte typed is in exactly one place.
LEMMA BytesPlaced == KeptInv => BytesKept
<1> SUFFICES ASSUME KeptInv PROVE BytesKept
  BY Zenon
<1> DEFINE d == data[Console]
           Q == Len(queue)
           in(s, x) == \E k \in 1 .. Len(s) : s[k] = x
<1>1. queue \in Seq(Nat) /\ typed \in Nat /\ Moved \in Nat
  BY Zenon DEF KeptInv
<1>2. Stored(d, got, Moved) /\ Ordered(d, got, taken)
  BY Zenon DEF KeptInv
<1> HIDE DEF d
<1>3. d \in Seq(Nat) /\ got \in Seq(Nat) /\ Once(d) /\ Once(got)
  BY <1>2, Zenon DEF Stored, Within
<1>4. \A k \in 1 .. Q : queue[k] = Moved + k
  BY Zenon DEF KeptInv
<1>5. Q \in Nat /\ Moved + Q = typed
  BY <1>1 DEF Moved
<1>6. Once(queue)
  <2>1. \A j, k \in 1 .. Q : Moved + j = Moved + k => j = k
    BY <1>1, <1>5
  <2>2. \A j, k \in 1 .. Q : queue[j] = queue[k] => j = k
    BY <1>4, <2>1
  <2> QED  BY <2>2, Zenon DEF Once
<1>7. ASSUME NEW x \in Bytes PROVE \E p \in Places(x) : Places(x) = {p}
  <2>1. x \in 1 .. Moved + Q
    BY <1>5, Zenon DEF Bytes
  <2>2. in(queue, x) <=> x \in Moved + 1 .. Moved + Q
    <3>1. ASSUME NEW k \in 1 .. Q, queue[k] = x PROVE x \in Moved + 1 .. Moved + Q
      <4>1. x = Moved + k
        BY <1>4, <3>1, Zenon
      <4> QED  BY <1>1, <1>5, <4>1
    <3>2. ASSUME x \in Moved + 1 .. Moved + Q PROVE \E k \in 1 .. Q : queue[k] = x
      <4>1. x - Moved \in 1 .. Q /\ Moved + (x - Moved) = x
        BY <1>1, <1>5, <3>2
      <4>2. queue[x - Moved] = Moved + (x - Moved)
        BY <1>4, <4>1, Zenon
      <4> QED  BY <4>1, <4>2, Zenon
    <3> QED  BY <3>1, <3>2, Zenon
  <2>3. in(d, x) \/ in(got, x) => x \in 1 .. Moved
    <3>1. Within(d, Moved) /\ Within(got, Moved)
      BY <1>2, Zenon DEF Stored
    <3>2. /\ \A k \in 1 .. Len(d) : 1 <= d[k] /\ d[k] <= Moved /\ d[k] \in Nat
          /\ \A k \in 1 .. Len(got) : 1 <= got[k] /\ got[k] <= Moved /\ got[k] \in Nat
      BY <1>1, <3>1, WithinIs, Zenon
    <3>3. \A y \in Nat : 1 <= y /\ y <= Moved => y \in 1 .. Moved
      BY <1>1
    <3> QED  BY <3>2, <3>3, Zenon
  <2>4. x \in 1 .. Moved => in(d, x) \/ in(got, x)
    BY <1>2, Zenon DEF Stored
  <2>5. ~(in(d, x) /\ in(got, x))
    <3>1. \A j \in 1 .. Len(d), k \in 1 .. Len(got) : d[j] # got[k]
      BY <1>2, Zenon DEF Stored
    <3> QED  BY <3>1, Zenon
  <2>6. (x \in 1 .. Moved) <=> ~(x \in Moved + 1 .. Moved + Q)
    BY <1>1, <1>5, <2>1
  <2> DEFINE W == Held("waiting", queue, x)
             B == Held("buffered", d, x)
             R == Held("read", got, x)
  <2>7. (in(queue, x) => \E p : W = {p}) /\ (~in(queue, x) => W = {})
    BY <1>1, <1>6, HeldOnce, Zenon
  <2>8. (in(d, x) => \E p : B = {p}) /\ (~in(d, x) => B = {})
    BY <1>3, HeldOnce, Zenon
  <2>9. (in(got, x) => \E p : R = {p}) /\ (~in(got, x) => R = {})
    BY <1>3, HeldOnce, Zenon
  <2>10. Places(x) = W \cup B \cup R
    BY Zenon DEF Places, Held, d
  <2> HIDE DEF W, B, R
  <2>11. CASE in(queue, x)
    <3>1. ~in(d, x) /\ ~in(got, x)
      BY <2>2, <2>3, <2>6, <2>11, Zenon
    <3>2. PICK p : W = {p}
      BY <2>7, <2>11, Zenon
    <3>3. Places(x) = {p}
      BY <2>8, <2>9, <2>10, <3>1, <3>2, Zenon
    <3> QED  BY <3>3, Zenon
  <2>12. CASE in(d, x)
    <3>1. ~in(queue, x) /\ ~in(got, x)
      BY <2>2, <2>3, <2>5, <2>6, <2>12, Zenon
    <3>2. PICK p : B = {p}
      BY <2>8, <2>12, Zenon
    <3>3. Places(x) = {p}
      BY <2>7, <2>9, <2>10, <3>1, <3>2, Zenon
    <3> QED  BY <3>3, Zenon
  <2>13. CASE in(got, x)
    <3>1. ~in(queue, x) /\ ~in(d, x)
      BY <2>2, <2>3, <2>5, <2>6, <2>13, Zenon
    <3>2. PICK p : R = {p}
      BY <2>9, <2>13, Zenon
    <3>3. Places(x) = {p}
      BY <2>7, <2>8, <2>10, <3>1, <3>2, Zenon
    <3> QED  BY <3>3, Zenon
  <2> QED  BY <2>2, <2>4, <2>6, <2>11, <2>12, <2>13, Zenon
<1>8. \A j, k \in DOMAIN got : (j < k /\ got[j] > got[k]) => taken[got[j]] > taken[got[k]]
  <2>1. DOMAIN got = 1 .. Len(got)
    BY <1>3
  <2> QED  BY <1>2, <2>1, Zenon DEF Ordered
<1> QED  BY <1>7, <1>8, Zenon DEF BytesKept, d

\* No byte typed is lost, duplicated or read twice on its way from the keyboard
\* thread's queue (handle_keyboard_io) through the receive buffer (tick) to the
\* guest's reads (input), and the order is kept within each pass of the tick
\* thread, whatever the interleaving, the sizes of keys and reads and the number
\* of ports.
THEOREM BytesAlwaysKept == SerialSpec => []BytesKept
<1>1. SerialInit => KeptInv
  BY ByteStart, Zenon
<1>2. KeptInv /\ [SerialNext]_serialVars => KeptInv'
  BY KeptStep, Zenon
<1>3. KeptInv => BytesKept
  BY BytesPlaced, Zenon
<1> QED  BY <1>1, <1>2, <1>3, PTL DEF SerialSpec

-----------------------------------------------------------------------------
(***************************************************************************)
(* Cmos: the time a guest takes from two equal readings is one the clock   *)
(* showed. The seconds read first say how long ago the reading began.      *)
(***************************************************************************)

\* The units of the clock are positive and the ticks fewer than a minute has seconds.
LEMMA CmosTypes ==
  /\ SecondsPerMinute \in Nat \ {0} /\ MinutesPerHour \in Nat \ {0} /\ HoursPerHalf \in Nat \ {0}
  /\ MaxTicks \in Nat /\ MaxTicks < SecondsPerMinute
<1>1. SecondsPerMinute \in 1 .. 60 /\ MinutesPerHour \in 1 .. 60 /\ HoursPerHalf \in 1 .. 60
  BY CmosAssumption, Zenon
<1> QED  BY <1>1, CmosAssumption

\* The quotient and the remainder are the only ones
LEMMA OnlyRest ==
  ASSUME NEW n \in Nat \ {0}, NEW q \in Int, NEW r \in 0 .. n - 1, NEW x \in Int, x = n * q + r
  PROVE  x % n = r /\ x \div n = q
<1> DEFINE p == x \div n
           s == x % n
<1>1. p \in Int /\ s \in 0 .. n - 1 /\ x = n * p + s
  OBVIOUS
<1> HIDE DEF p, s
<1>2. n * (q - p) = s - r
  BY <1>1
<1>3. q - p \in Int /\ s - r < n /\ r - s < n
  BY <1>1
<1>4. ~(q - p >= 1) /\ ~(q - p <= -1)
  <2>1. ASSUME q - p >= 1 PROVE FALSE
    <3>1. n * (q - p) >= n * 1
      BY <1>3, <2>1
    <3> QED  BY <1>1, <1>2, <1>3, <3>1
  <2>2. ASSUME q - p <= -1 PROVE FALSE
    <3>1. n * (p - q) >= n * 1
      BY <1>1, <2>2
    <3>2. n * (p - q) = r - s
      BY <1>1
    <3> QED  BY <1>1, <1>3, <3>1, <3>2
  <2> QED  BY <2>1, <2>2, Zenon
<1>5. q = p
  BY <1>1, <1>4
<1> QED  BY <1>1, <1>5 DEF p, s

\* The remainder of a multiple and a rest is the rest.
LEMMA RestOf ==
  ASSUME NEW n \in Nat \ {0}, NEW q \in Int, NEW r \in 0 .. n - 1
  PROVE  (n * q + r) % n = r
<1>1. n * q + r \in Int
  OBVIOUS
<1> QED  BY <1>1, OnlyRest, Zenon

\* A day is a whole number of minutes
LEMMA DayIs ==
  /\ Day \in Nat \ {0} /\ SecondsPerMinute <= Day
  /\ SecondsPerMinute * MinutesPerHour \in Nat \ {0}
  /\ \E m \in Nat : Day = SecondsPerMinute * m
<1> DEFINE s == SecondsPerMinute
           m == MinutesPerHour
           h == HoursPerHalf
<1>1. s \in Nat \ {0} /\ m \in Nat \ {0} /\ h \in Nat \ {0}
  BY CmosTypes, Zenon
<1> HIDE DEF s, m, h
<1>2. m * h \in Nat /\ m * h >= 1
  BY <1>1
<1>3. s * m \in Nat /\ s * m >= 1
  BY <1>1
<1> DEFINE w == m * h * 2
<1>4. w \in Nat /\ w >= 1
  BY <1>2
<1>5. s * m * h * 2 = s * w
  BY <1>1
<1> HIDE DEF w
<1>6. s * w \in Nat /\ s * w >= s * 1
  BY <1>1, <1>4
<1> QED  BY <1>1, <1>3, <1>4, <1>5, <1>6 DEF Day, s, m, h

\* What a guest decodes of a value is the value
LEMMA BcdRead == ASSUME NEW v \in Nat PROVE (to_bcd(v) \div 16) * 10 + (to_bcd(v) % 16) = v
<1> DEFINE q == v \div 10
           r == v % 10
           b == to_bcd(v)
<1>1. q \in Nat /\ r \in 0 .. 9 /\ v = 10 * q + r
  OBVIOUS
<1>2. b = q * 16 + r
  BY Zenon DEF to_bcd
<1> HIDE DEF q, r, b
<1>3. b \div 16 = q /\ b % 16 = r
  BY <1>1, <1>2
<1>4. (b \div 16) * 10 + (b % 16) = v
  BY <1>1, <1>3
<1> QED  BY <1>4, Zenon DEF b

\* The time k seconds after t
Passed(t, k) == IF t + k < Day THEN t + k ELSE t + k - Day
Times == 0 .. Day - 1
Hour(t) == IF mode.hour_24 THEN hour_of(t) ELSE hour12_of(t)

\* Fewer seconds than a minute has always show
LEMMA SecondsTell ==
  ASSUME NEW t \in Times, NEW k \in Nat, k < SecondsPerMinute, second_of(Passed(t, k)) = second_of(t)
  PROVE  k = 0
<1> DEFINE s == SecondsPerMinute
           q == t \div s
           r == t % s
<1>1. s \in Nat \ {0} /\ Day \in Nat \ {0} /\ t \in Nat
  BY CmosTypes, DayIs DEF Times
<1>2. q \in Int /\ r \in 0 .. s - 1 /\ t = s * q + r
  BY <1>1
<1>3. PICK m \in Nat : Day = s * m
  BY DayIs, Zenon
<1>4. k < s /\ Passed(t, k) % s = r
  BY Zenon DEF second_of
<1> HIDE DEF s, q, r
<1>5. CASE r + k < s
  <2>1. r + k \in 0 .. s - 1
    BY <1>1, <1>2, <1>5
  <2>2. Passed(t, k) = s * q + (r + k) \/ Passed(t, k) = s * (q - m) + (r + k)
    BY <1>1, <1>2, <1>3 DEF Passed
  <2>3. Passed(t, k) % s = r + k
    <3>1. CASE Passed(t, k) = s * q + (r + k)
      BY <1>1, <1>2, <2>1, <3>1, RestOf, Zenon
    <3>2. CASE Passed(t, k) = s * (q - m) + (r + k)
      <4>1. q - m \in Int
        BY <1>2, <1>3
      <4> QED  BY <1>1, <2>1, <3>2, <4>1, RestOf, Zenon
    <3> QED  BY <2>2, <3>1, <3>2, Zenon
  <2> QED  BY <1>2, <1>4, <2>3
<1>6. CASE ~(r + k < s)
  <2>1. r + k - s \in 0 .. s - 1
    BY <1>1, <1>2, <1>4, <1>6
  <2>2. \/ Passed(t, k) = s * (q + 1) + (r + k - s)
        \/ Passed(t, k) = s * (q + 1 - m) + (r + k - s)
    BY <1>1, <1>2, <1>3 DEF Passed
  <2>3. Passed(t, k) % s = r + k - s
    <3>1. CASE Passed(t, k) = s * (q + 1) + (r + k - s)
      <4>1. q + 1 \in Int
        BY <1>2
      <4> QED  BY <1>1, <2>1, <3>1, <4>1, RestOf, Zenon
    <3>2. CASE Passed(t, k) = s * (q + 1 - m) + (r + k - s)
      <4>1. q + 1 - m \in Int
        BY <1>2, <1>3
      <4> QED  BY <1>1, <2>1, <3>2, <4>1, RestOf, SMTT(30)
    <3> QED  BY <2>2, <3>1, <3>2, Zenon
  <2> QED  BY <1>1, <1>2, <1>4, <2>3
<1> QED  BY <1>5, <1>6, Zenon

\* One more second after k.
LEMMA PassedOne ==
  ASSUME NEW t \in Times, NEW k \in Nat, k + 1 < Day
  PROVE  /\ Passed(t, 0) = t /\ Passed(t, k) \in Times
         /\ (Passed(t, k) + 1) % Day = Passed(t, k + 1)
<1>1. Day \in Nat \ {0} /\ t \in Nat /\ t < Day
  BY DayIs DEF Times
<1>2. Passed(t, 0) = t /\ Passed(t, k) \in Times
  BY <1>1 DEF Passed, Times
<1> DEFINE p == Passed(t, k)
<1>3. Passed(t, k + 1) = IF p + 1 < Day THEN p + 1 ELSE p + 1 - Day
  BY <1>1 DEF Passed
<1>4. p \in Nat /\ p < Day
  BY <1>1, <1>2 DEF Times
<1> HIDE DEF p
<1>5. (p + 1) % Day = IF p + 1 < Day THEN p + 1 ELSE p + 1 - Day
  <2>1. CASE p + 1 < Day
    <3>1. p + 1 \in 0 .. Day - 1 /\ p + 1 \in Int /\ 0 \in Int /\ p + 1 = Day * 0 + (p + 1)
      BY <1>1, <1>4, <2>1
    <3>2. (p + 1) % Day = p + 1
      BY <1>1, <3>1, OnlyRest, SMTT(30)
    <3> QED  BY <2>1, <3>2, Zenon
  <2>2. CASE ~(p + 1 < Day)
    <3>1. p + 1 = Day /\ p + 1 - Day = 0
      BY <1>1, <1>4, <2>2
    <3>2. Day % Day = 0
      BY <1>1
    <3> QED  BY <2>2, <3>1, <3>2, Zenon
  <2> QED  BY <2>1, <2>2, Zenon
<1> QED  BY <1>2, <1>3, <1>5, Zenon DEF p

\* Fields are set, in the order they are read
Seen(f) == first[f] # -1
Again(f) == second[f] # -1
Shows(t) == /\ first["Seconds"] = second_of(t)
            /\ Seen("Minute") => first["Minute"] = minute_of(t)
            /\ Seen("Hour") => first["Hour"] = Hour(t)

CmosType ==
  /\ now \in Times /\ ticks \in 0 .. MaxTicks /\ since \in SUBSET Times
  /\ first \in [Fields -> Int] /\ second \in [Fields -> Int] /\ believed \in BOOLEAN
  /\ statusB = [binary |-> mode.binary, hour_12 |-> ~mode.hour_24]
  /\ mode \in [binary : BOOLEAN, hour_24 : BOOLEAN]
  /\ want \in Fields \cup {"StatusB"}
  /\ want # "StatusB" => now \in since

CmosShape ==
  /\ want = "StatusB" => first = Unset /\ second = Unset /\ ~believed
  /\ believed => first = second /\ Again("Hour")
  /\ ~Seen("Hour") =>
       /\ \A f \in Fields : ~Again(f)
       /\ Seen("Seconds") <=> want \in {"Minute", "Hour"}
       /\ Seen("Minute") <=> want = "Hour"
  /\ Seen("Hour") =>
       /\ Seen("Seconds") /\ Seen("Minute")
       /\ ~Again("Hour") => (Again("Seconds") <=> want \in {"Minute", "Hour"})
  /\ Again("Hour") => Again("Seconds") /\ want = "Seconds"

\* While the first pass is the only one, its seconds say how long ago it began; from
\* then on they are those of the second pass only when the clock did not move.
CmosTrack ==
  /\ (Seen("Seconds") /\ ~Again("Seconds")) =>
       \E t \in since, k \in 0 .. ticks :
         /\ now = Passed(t, k) /\ first["Seconds"] = second_of(t) /\ (k = 0 => Shows(t))
  /\ (Again("Seconds") /\ second["Seconds"] = first["Seconds"]) => \E t \in since : Shows(t)

CmosInv == CmosType /\ CmosShape /\ CmosTrack

\* The modes a guest chose and the register agree, so it decodes what was shown
LEMMA DecodedIs ==
  ASSUME CmosInv, want \in Fields, reg = want
  PROVE  /\ Decoded(input) \in Nat
         /\ want = "Seconds" => Decoded(input) = second_of(now)
         /\ want = "Minute" => Decoded(input) = minute_of(now)
         /\ want = "Hour" => Decoded(input) = Hour(now)
<1> DEFINE val == CASE reg = "Seconds" -> second_of(now)
                    [] reg = "Minute" -> minute_of(now)
                    [] reg = "Hour" -> IF statusB.hour_12 THEN hour12_of(now) ELSE hour_of(now)
                    [] OTHER -> 0
<1>1. /\ mode.binary \in BOOLEAN /\ mode.hour_24 \in BOOLEAN
      /\ statusB.binary = mode.binary /\ statusB.hour_12 = ~mode.hour_24
  BY Zenon DEF CmosInv, CmosType
<1>2. /\ want = "Seconds" => val = second_of(now)
      /\ want = "Minute" => val = minute_of(now)
      /\ want = "Hour" => val = Hour(now)
  BY <1>1, Zenon DEF Hour
<1>3. /\ second_of(now) \in Nat /\ minute_of(now) \in Nat /\ hour_of(now) \in Nat /\ hour12_of(now) \in Nat
  <2>1. now \in Nat
    BY DayIs DEF CmosInv, CmosType, Times
  <2>2. second_of(now) \in Nat
    BY <2>1, CmosTypes DEF second_of
  <2>3. now \div SecondsPerMinute \in Nat
    BY <2>1, CmosTypes
  <2>4. minute_of(now) \in Nat
    BY <2>3, CmosTypes DEF minute_of
  <2>5. hour_of(now) \in Nat
    <3> DEFINE n == SecondsPerMinute * MinutesPerHour
    <3>1. n \in Nat \ {0}
      BY DayIs, Zenon
    <3> HIDE DEF n
    <3>2. now \div n \in Nat
      BY <2>1, <3>1
    <3> QED  BY <3>2, Zenon DEF hour_of, n
  <2>6. hour12_of(now) \in Nat
    BY <2>5, CmosTypes DEF hour12_of
  <2> QED  BY <2>2, <2>4, <2>5, <2>6, Zenon
<1>4. val \in Nat
  BY <1>2, <1>3, Zenon DEF Hour, Fields
<1>5. input = IF statusB.binary THEN val ELSE to_bcd(val)
  BY Zenon DEF input
<1> HIDE DEF val
<1>6. Decoded(input) = val
  <2>1. CASE mode.binary
    BY <1>1, <1>5, <2>1, Zenon DEF Decoded
  <2>2. CASE ~mode.binary
    <3>1. input = to_bcd(val)
      BY <1>1, <1>5, <2>2, Zenon
    <3> QED  BY <1>4, <2>2, <3>1, BcdRead, Zenon DEF Decoded
  <2> QED  BY <2>1, <2>2, Zenon
<1> QED  BY <1>2, <1>4, <1>6, Zenon

\* The firmware believes no time at the start.
LEMMA CmosStart == CmosInit => CmosInv
<1> SUFFICES ASSUME CmosInit PROVE CmosInv
  BY Zenon
<1>1. /\ now \in Times /\ ticks = 0 /\ since = {} /\ first = Unset /\ second = Unset /\ believed = FALSE
      /\ statusB = [binary |-> FALSE, hour_12 |-> FALSE]
      /\ mode = [binary |-> FALSE, hour_24 |-> TRUE] /\ want = "StatusB"
  BY Zenon DEF CmosInit, Times
<1>2. Unset \in [Fields -> Int] /\ \A f \in Fields : Unset[f] = -1
  BY DEF Unset
<1>3. \A f \in Fields : ~Seen(f) /\ ~Again(f)
  BY <1>1, <1>2, Zenon DEF Seen, Again
<1>4. "Seconds" \in Fields /\ "Minute" \in Fields /\ "Hour" \in Fields /\ "StatusB" \notin {"Minute", "Hour"}
  BY Zenon DEF Fields
<1>5. statusB = [binary |-> mode.binary, hour_12 |-> ~mode.hour_24] /\ mode \in [binary : BOOLEAN, hour_24 : BOOLEAN]
  BY <1>1, Zenon
<1>6. ticks \in 0 .. MaxTicks /\ since \in SUBSET Times
  BY <1>1, CmosTypes
<1> QED  BY <1>1, <1>2, <1>3, <1>4, <1>5, <1>6, Zenon DEF CmosInv, CmosType, CmosShape, CmosTrack

\* Writing status register B keeps the invariant: later reads have the new format.
LEMMA CmosWrites ==
  ASSUME CmosInv, NEW b \in BOOLEAN, NEW h \in BOOLEAN, WriteStatusB(b, h)
  PROVE  CmosInv'
<1>1. /\ want = "StatusB" /\ first = Unset /\ second = Unset /\ believed = FALSE
      /\ now \in Times /\ ticks \in 0 .. MaxTicks
  BY Zenon DEF WriteStatusB, CmosInv, CmosType, CmosShape
<1>2. /\ statusB' = [binary |-> b, hour_12 |-> ~h] /\ mode' = [binary |-> b, hour_24 |-> h]
      /\ want' = "Seconds" /\ since' = {now} /\ UNCHANGED <<now, ticks, first, second, believed>>
  BY Zenon DEF WriteStatusB
<1>3. Unset \in [Fields -> Int] /\ \A f \in Fields : Unset[f] = -1
  BY DEF Unset
<1>4. \A f \in Fields : ~Seen(f)' /\ ~Again(f)'
  BY <1>1, <1>2, <1>3, Zenon DEF Seen, Again
<1>5. "Seconds" \in Fields /\ "Minute" \in Fields /\ "Hour" \in Fields /\ "Seconds" \notin {"Minute", "Hour"}
      /\ "Seconds" # "StatusB"
  BY Zenon DEF Fields
<1>6. statusB' = [binary |-> mode'.binary, hour_12 |-> ~mode'.hour_24] /\ mode' \in [binary : BOOLEAN, hour_24 : BOOLEAN]
  BY <1>2, Zenon
<1>7. since' \in SUBSET Times /\ now' \in since' /\ Times' = Times
  BY <1>1, <1>2, Zenon DEF Times
<1>8. want' \in Fields \cup {"StatusB"} /\ first' \in [Fields -> Int] /\ second' \in [Fields -> Int]
      /\ believed' \in BOOLEAN
  BY <1>1, <1>2, <1>3, <1>5, Zenon
<1>9. ~Seen("Seconds")' /\ ~Seen("Minute")' /\ ~Seen("Hour")' /\ ~Again("Seconds")' /\ ~Again("Hour")'
  BY <1>4, <1>5, Zenon
<1> QED  BY <1>1, <1>2, <1>4, <1>5, <1>6, <1>7, <1>8, <1>9, Zenon DEF CmosInv, CmosType, CmosShape, CmosTrack

\* A step that touches none of the clock and of the read keeps it.
LEMMA CmosAside ==
  ASSUME CmosInv, UNCHANGED <<now, ticks, statusB, mode, want, first, second, since, believed>>
  PROVE  CmosInv'
<1>1. CmosType'
  BY Zenon DEF CmosInv, CmosType, Times
<1>2. CmosShape'
  BY Zenon DEF CmosInv, CmosShape, Seen, Again, Unset
<1>3. CmosTrack'
  <2>1. \A t : Shows(t)' <=> Shows(t)
    BY Zenon DEF Shows, Seen, Hour
  <2> QED  BY <2>1, Zenon DEF CmosInv, CmosTrack, Seen, Again
<1> QED  BY <1>1, <1>2, <1>3, Zenon DEF CmosInv

\* Comparing the two reads keeps it: a time is believed only when they agree.
LEMMA CmosCompares ==
  ASSUME CmosInv, Compare
  PROVE  CmosInv'
<1>1. /\ now \in Times /\ ticks \in 0 .. MaxTicks /\ Again("Hour") /\ want = "Seconds" /\ ~believed
      /\ first \in [Fields -> Int] /\ second \in [Fields -> Int]
      /\ statusB = [binary |-> mode.binary, hour_12 |-> ~mode.hour_24]
      /\ mode \in [binary : BOOLEAN, hour_24 : BOOLEAN]
  BY Zenon DEF Compare, CmosInv, CmosType, CmosShape, Again
<1>2. UNCHANGED <<now, ticks, reg, statusB, mode, want>> /\ believed' = (first = second)
  BY Zenon DEF Compare
<1>3. CASE first = second
  <2>1. UNCHANGED <<first, second, since>>
    BY <1>3 DEF Compare
  <2>2. CmosType'
    BY <1>2, <2>1, Zenon DEF CmosInv, CmosType, Times
  <2>3. CmosShape'
    <3>1. (\A f : Seen(f)' = Seen(f) /\ Again(f)' = Again(f))
      BY <2>1, Zenon DEF Seen, Again
    <3> QED  BY <1>1, <1>2, <1>3, <2>1, <3>1, Zenon DEF CmosInv, CmosShape
  <2>4. CmosTrack'
    <3>1. \A t : Shows(t)' <=> Shows(t)
      BY <1>2, <2>1, Zenon DEF Shows, Seen, Hour
    <3> QED  BY <1>2, <2>1, <3>1, Zenon DEF CmosInv, CmosTrack, Seen, Again
  <2> QED  BY <2>2, <2>3, <2>4, Zenon DEF CmosInv
<1>4. CASE first # second
  <2>1. first' = Unset /\ second' = Unset /\ since' = {now} /\ believed' = FALSE
    BY <1>2, <1>4, Zenon DEF Compare
  <2>2. Unset \in [Fields -> Int] /\ \A f \in Fields : Unset[f] = -1
    BY DEF Unset
  <2>3. "Seconds" \in Fields /\ "Minute" \in Fields /\ "Hour" \in Fields /\ "Seconds" \notin {"Minute", "Hour"}
        /\ "Seconds" # "StatusB" /\ "Seconds" # "Hour"
    BY Zenon DEF Fields
  <2>4. \A f \in Fields : ~Seen(f)' /\ ~Again(f)'
    BY <2>1, <2>2, Zenon DEF Seen, Again
  <2>5. ~Seen("Seconds")' /\ ~Seen("Minute")' /\ ~Seen("Hour")' /\ ~Again("Seconds")' /\ ~Again("Hour")'
    BY <2>3, <2>4
  <2>6. CmosType'
    <3>1. now' \in Times /\ since' \in SUBSET Times /\ now' \in since'
      BY <1>1, <1>2, <2>1, Zenon
    <3>2. Times' = Times
      BY Zenon DEF Times
    <3> QED  BY <1>1, <1>2, <2>1, <2>2, <2>3, <3>1, <3>2, Zenon DEF CmosType
  <2>7. CmosShape'
    BY <1>1, <1>2, <2>1, <2>3, <2>4, <2>5, Zenon DEF CmosShape
  <2>8. CmosTrack'
    BY <2>5, Zenon DEF CmosTrack
  <2> QED  BY <2>6, <2>7, <2>8, Zenon DEF CmosInv
<1> QED  BY <1>3, <1>4

\* A second passing keeps it.
LEMMA CmosTicks ==
  ASSUME CmosInv, ClockTick
  PROVE  CmosInv'
<1>1. /\ now \in Times /\ ticks \in 0 .. MaxTicks /\ since \in SUBSET Times
      /\ want # "StatusB" => now \in since
  BY Zenon DEF CmosInv, CmosType
<1>2. /\ ticks < MaxTicks /\ now' = (now + 1) % Day /\ ticks' = ticks + 1
      /\ since' = IF want = "StatusB" THEN since ELSE since \cup {now'}
      /\ UNCHANGED <<reg, statusB, mode, want, first, second, believed>>
  BY Zenon DEF ClockTick
<1>3. Day \in Nat \ {0} /\ MaxTicks \in Nat /\ MaxTicks < Day
  BY CmosTypes, DayIs
<1>4. now' \in Times
  BY <1>1, <1>2, <1>3 DEF Times
<1>5. CmosType'
  <2>1. ticks' \in 0 .. MaxTicks
    BY <1>1, <1>2, <1>3
  <2>2. since' \in SUBSET Times /\ (want' # "StatusB" => now' \in since')
    BY <1>1, <1>2, <1>4, Zenon
  <2>3. Times' = Times
    BY Zenon DEF Times
  <2> QED  BY <1>2, <1>4, <2>1, <2>2, <2>3, Zenon DEF CmosInv, CmosType
<1>6. CmosShape'
  BY <1>2, Zenon DEF CmosInv, CmosShape, Seen, Again, Unset
<1>7. since \subseteq since' /\ \A t : Shows(t)' <=> Shows(t)
  BY <1>2, Zenon DEF Shows, Seen, Hour
<1>8. CmosTrack'
  <2>1. ASSUME Seen("Seconds"), ~Again("Seconds")
        PROVE  \E t \in since', k \in 0 .. ticks' :
                 /\ now' = Passed(t, k) /\ first["Seconds"] = second_of(t) /\ (k = 0 => Shows(t)')
    <3>1. PICK t \in since, k \in 0 .. ticks : now = Passed(t, k) /\ first["Seconds"] = second_of(t)
      BY <2>1, Zenon DEF CmosInv, CmosTrack
    <3>2. k \in Nat /\ k + 1 < Day /\ k + 1 \in 0 .. ticks' /\ k + 1 # 0 /\ t \in Times /\ t \in since'
      BY <1>1, <1>2, <1>3, <1>7
    <3>3. now' = Passed(t, k + 1)
      BY <1>2, <3>1, <3>2, PassedOne, Zenon
    <3> QED  BY <3>1, <3>2, <3>3
  <2>2. ASSUME Again("Seconds"), second["Seconds"] = first["Seconds"] PROVE \E t \in since' : Shows(t)'
    <3>1. \E t \in since : Shows(t)
      BY <2>2, Zenon DEF CmosInv, CmosTrack
    <3> QED  BY <1>7, <3>1
  <2>3. Seen("Seconds")' = Seen("Seconds") /\ Again("Seconds")' = Again("Seconds") /\ first' = first /\ second' = second
    BY <1>2, Zenon DEF Seen, Again
  <2> QED  BY <2>1, <2>2, <2>3, Zenon DEF CmosTrack, Passed, Day, second_of
<1> QED  BY <1>5, <1>6, <1>8, Zenon DEF CmosInv

\* Reading one field keeps it.
LEMMA CmosReads ==
  ASSUME CmosInv, ReadField
  PROVE  CmosInv'
<1> DEFINE v == Decoded(input)
<1>1. /\ now \in Times /\ ticks \in 0 .. MaxTicks /\ since \in SUBSET Times
      /\ first \in [Fields -> Int] /\ second \in [Fields -> Int]
      /\ statusB = [binary |-> mode.binary, hour_12 |-> ~mode.hour_24]
      /\ mode \in [binary : BOOLEAN, hour_24 : BOOLEAN] /\ believed \in BOOLEAN
  BY Zenon DEF CmosInv, CmosType
<1>2. /\ want \in Fields /\ reg = want /\ ~Again("Hour") /\ want' = After(want)
      /\ UNCHANGED <<now, ticks, reg, statusB, mode, since, believed>>
      /\ IF ~Seen("Hour") THEN first' = [first EXCEPT ![want] = v] /\ UNCHANGED second
         ELSE second' = [second EXCEPT ![want] = v] /\ UNCHANGED first
  BY Zenon  DEF ReadField, Seen, Again
<1>3. /\ v \in Nat
      /\ want = "Seconds" => v = second_of(now)
      /\ want = "Minute" => v = minute_of(now)
      /\ want = "Hour" => v = Hour(now)
  BY <1>2, DecodedIs, Zenon
<1> HIDE DEF v
<1>4. "Seconds" \in Fields /\ "Minute" \in Fields /\ "Hour" \in Fields /\ "StatusB" \notin Fields
      /\ (\A f \in Fields : f = "Seconds" \/ f = "Minute" \/ f = "Hour")
  BY Zenon DEF Fields
<1>5. /\ want = "Seconds" => want' = "Minute"
      /\ want = "Minute" => want' = "Hour"
      /\ want = "Hour" => want' = "Seconds"
  BY <1>2, SMTT(30) DEF After
<1>6. ~believed /\ now \in since
  <2>1. want # "StatusB"
    BY <1>2, <1>4, Zenon
  <2> QED  BY <1>2, <2>1 DEF CmosInv, CmosShape, CmosType
<1>7. v # -1
  BY <1>3
<1>8. \A t : Hour(t)' = Hour(t)
  BY <1>2, SMTT(30) DEF Hour
<1>9. CmosType'
  <2>1. first' \in [Fields -> Int] /\ second' \in [Fields -> Int]
    BY <1>1, <1>2, <1>3
  <2>2. want' \in Fields
    BY <1>2, <1>4, <1>5, Zenon
  <2>3. Times' = Times
    BY Zenon DEF Times
  <2> QED  BY <1>1, <1>2, <1>6, <2>1, <2>2, <2>3, ZenonT(30) DEF CmosType
<1>10. CASE ~Seen("Hour")
  <2>1. first' = [first EXCEPT ![want] = v] /\ second' = second
    BY <1>2, <1>10, Zenon
  <2>2. /\ \A f \in Fields : ~Again(f) /\ ~Again(f)'
        /\ Seen("Seconds") <=> want \in {"Minute", "Hour"}
        /\ Seen("Minute") <=> want = "Hour"
    BY <1>10, <2>1, Zenon DEF CmosInv, CmosShape, Again
  <2>3. \A f \in Fields : Seen(f)' <=> (f = want \/ Seen(f))
    BY <1>1, <1>7, <2>1 DEF Seen
  <2>4. /\ Seen("Seconds")' /\ (Seen("Minute")' <=> want \in {"Minute", "Hour"})
        /\ (Seen("Hour")' <=> want = "Hour")
    BY <1>2, <1>4, <1>10, <2>2, <2>3, Zenon
  <2>5. ~Again("Hour")' /\ ~Again("Seconds")' /\ ~Again("Seconds")
    BY <1>4, <2>2
  <2>6. CmosShape'
    BY <1>2, <1>4, <1>5, <1>6, <2>2, <2>4, <2>5, Zenon DEF CmosShape
  <2>7. \E t \in since, k \in 0 .. ticks :
          /\ now = Passed(t, k) /\ first'["Seconds"] = second_of(t) /\ (k = 0 => Shows(t)')
    <3>1. CASE want = "Seconds"
      <4>1. first'["Seconds"] = second_of(now) /\ ~Seen("Minute")' /\ ~Seen("Hour")'
        BY <1>1, <1>3, <1>4, <2>1, <2>4, <3>1
      <4>2. Shows(now)'
        <5>1. second_of(now)' = second_of(now)
          BY <1>2 DEF second_of
        <5> QED  BY <4>1, <5>1, Zenon DEF Shows
      <4>3. now = Passed(now, 0) /\ 0 \in 0 .. ticks
        BY <1>1, CmosTypes, DayIs DEF Passed, Times
      <4>4. Shows(now)' => \A t : t = now => Shows(t)'
        BY <1>2, Zenon DEF Shows, second_of, minute_of, Hour, hour_of, hour12_of
      <4> QED  BY <1>6, <4>1, <4>2, <4>3, <4>4, SMTT(30)
    <3>2. CASE want # "Seconds"
      <4>1. Seen("Seconds")
        BY <1>2, <1>4, <2>2, <3>2, Zenon
      <4>2. PICK t \in since, k \in 0 .. ticks :
              now = Passed(t, k) /\ first["Seconds"] = second_of(t) /\ (k = 0 => Shows(t))
        BY <2>5, <4>1, Zenon DEF CmosInv, CmosTrack
      <4>3. first'["Seconds"] = first["Seconds"]
        BY <1>1, <1>4, <2>1, <3>2
      <4>4. ASSUME k = 0 PROVE Shows(t)'
        <5>1. now = t
          <6>1. t \in Times /\ Day \in Nat \ {0}
            BY <1>1, DayIs, Zenon
          <6> QED  BY <4>2, <4>4, <6>1 DEF Passed, Times
        <5>2. Shows(t)
          BY <4>2, <4>4, Zenon
        <5>3. Seen("Minute")' => first'["Minute"] = minute_of(t)
          <6>1. CASE want = "Minute"
            BY <1>1, <1>3, <1>4, <2>1, <5>1, <6>1, SMTT(30)
          <6>2. CASE want # "Minute"
            BY <1>1, <1>4, <2>1, <2>3, <5>2, <6>2 DEF Shows
          <6> QED  BY <6>1, <6>2, Zenon
        <5>4. Seen("Hour")' => first'["Hour"] = Hour(t)
          <6>1. CASE want = "Hour"
            BY <1>1, <1>3, <1>4, <2>1, <5>1, <6>1, Zenon
          <6>2. CASE want # "Hour"
            BY <2>4, <6>2, Zenon
          <6> QED  BY <6>1, <6>2, Zenon
        <5> QED  BY <1>8, <4>2, <4>3, <5>3, <5>4, Zenon DEF Shows
      <4> QED  BY <4>2, <4>3, <4>4
    <3> QED  BY <3>1, <3>2, Zenon
  <2>8. CmosTrack'
    BY <1>2, <2>5, <2>7 DEF CmosTrack, Passed, Day, second_of
  <2> QED  BY <1>9, <2>6, <2>8, Zenon DEF CmosInv
<1>11. CASE Seen("Hour")
  <2>1. second' = [second EXCEPT ![want] = v] /\ first' = first
    BY <1>2, <1>11, Zenon
  <2>2. /\ Seen("Seconds") /\ Seen("Minute")
        /\ Again("Seconds") <=> want \in {"Minute", "Hour"}
    BY <1>2, <1>11, Zenon DEF CmosInv, CmosShape
  <2>3. \A f \in Fields : Again(f)' <=> (f = want \/ Again(f))
    BY <1>1, <1>7, <2>1, Zenon DEF Again
  <2>4. Again("Seconds")' /\ (Again("Hour")' <=> want = "Hour")
    BY <1>2, <1>4, <2>2, <2>3, Zenon
  <2>5. Seen("Seconds")' /\ Seen("Minute")' /\ Seen("Hour")'
    BY <1>11, <2>1, <2>2 DEF Seen
  <2>6. CmosShape'
    BY <1>2, <1>4, <1>5, <1>6, <2>4, <2>5, Zenon DEF CmosShape
  <2>7. \A t : Shows(t)' <=> Shows(t)
    BY <1>8, <2>1, Zenon DEF Shows, Seen
  <2>8. ASSUME second'["Seconds"] = first["Seconds"] PROVE \E t \in since : Shows(t)
    <3>1. CASE want = "Seconds"
      <4>1. ~Again("Seconds")
        BY <2>2, <3>1, Zenon
      <4>2. PICK t \in since, k \in 0 .. ticks :
              now = Passed(t, k) /\ first["Seconds"] = second_of(t) /\ (k = 0 => Shows(t))
        BY <2>2, <4>1, Zenon DEF CmosInv, CmosTrack
      <4>3. second'["Seconds"] = second_of(now)
        BY <1>1, <1>3, <1>4, <2>1, <3>1, SMTT(30)
      <4>4. k \in Nat /\ k < SecondsPerMinute /\ t \in Times
        BY <1>1, CmosTypes
      <4>5. k = 0
        BY <2>8, <4>2, <4>3, <4>4, SecondsTell, Zenon
      <4> QED  BY <4>2, <4>5, Zenon
    <3>2. CASE want # "Seconds"
      <4>1. Again("Seconds") /\ second'["Seconds"] = second["Seconds"]
        BY <1>1, <1>2, <1>4, <2>1, <2>2, <3>2, Zenon
      <4> QED  BY <2>8, <4>1, Zenon DEF CmosInv, CmosTrack
    <3> QED  BY <3>1, <3>2, Zenon
  <2>9. CmosTrack'
    BY <1>2, <2>1, <2>4, <2>7, <2>8 DEF CmosTrack
  <2> QED  BY <1>9, <2>6, <2>9, Zenon DEF CmosInv
<1> QED  BY <1>10, <1>11, Zenon

\* A time two passes of a guest agree on is one the clock showed since the first of
\* them began, whatever the lengths of a minute, an hour and half a day, in binary
\* and in BCD: every read of a register asks the host again (input of cmos.rs).
THEOREM BelievedTimeAlwaysShown == CmosSpec => []BelievedTimeShown
<1>1. CmosInit => CmosInv
  BY CmosStart, Zenon
<1>2. CmosInv /\ [CmosNext]_cmosVars => CmosInv'
  <2> SUFFICES ASSUME CmosInv, [CmosNext]_cmosVars PROVE CmosInv'
    BY Zenon
  <2>1. CASE \E binary, hour_24 \in BOOLEAN : WriteStatusB(binary, hour_24)
    BY <2>1, CmosWrites, Zenon
  <2>2. CASE Select \/ UNCHANGED cmosVars
    BY <2>2, CmosAside DEF Select, cmosVars
  <2>3. CASE ReadField
    BY <2>3, CmosReads, Zenon
  <2>4. CASE Compare
    BY <2>4, CmosCompares, Zenon
  <2>5. CASE ClockTick
    BY <2>5, CmosTicks, Zenon
  <2> QED  BY <2>1, <2>2, <2>3, <2>4, <2>5, Zenon DEF CmosNext, Done
<1>3. CmosInv => BelievedTimeShown
  <2> SUFFICES ASSUME CmosInv, believed PROVE BelievedTimeShown
    BY Zenon DEF BelievedTimeShown
  <2>1. first = second /\ Again("Hour")
    BY Zenon DEF CmosInv, CmosShape
  <2>2. Seen("Hour") /\ Seen("Minute") /\ Again("Seconds")
    BY <2>1, Zenon DEF CmosInv, CmosShape, Seen, Again
  <2>3. PICK t \in since : Shows(t)
    BY <2>1, <2>2, Zenon DEF CmosInv, CmosTrack
  <2> QED  BY <2>2, <2>3, Zenon DEF BelievedTimeShown, Shows, Hour
<1> QED  BY <1>1, <1>2, <1>3, PTL DEF CmosSpec
=============================================================================
