-------------------------------- MODULE Pit --------------------------------
(***************************************************************************)
(* Channel 0 of the interval timer (src/src/devices/timer.rs): the guest   *)
(* programs a divisor byte by byte while the tick thread turns the time    *)
(* that has passed into pulses on line 0.  Time is counted in cycles of    *)
(* the timer's clock, so a period is its divisor.  The operating mode is   *)
(* stored by the code and used nowhere, and is left out.                   *)
(***************************************************************************)
EXTENDS Naturals, Sequences

CONSTANTS
  BASE,       \* values of a byte, 256 in the code
  DataBytes,  \* bytes the guest writes
  Channels,   \* channels it addresses
  Passing,    \* how much time may pass between two steps
  MaxTime,    \* bound on time
  MaxData     \* bound on data bytes after one command

ASSUME PitAssumption ==
  /\ BASE \in Nat \ {0} /\ DataBytes \subseteq 0 .. BASE - 1
  /\ Channels \subseteq 0 .. 3 /\ Passing \subseteq Nat \ {0}

VARIABLES
  access_mode, divisor, latch_lo, acc_ns, period_ns, last_tick, programmed,
  clock,     \* the host's clock
  paid,      \* history: time turned into pulses
  written,   \* history: data bytes since the last command
  meant      \* history: the divisor the guest last completed

pitVars == <<access_mode, divisor, latch_lo, acc_ns, period_ns, last_tick, programmed,
          clock, paid, written, meant>>

Period(d) == IF d = 0 THEN BASE * BASE ELSE d

PitInit ==
  /\ access_mode = 3 /\ divisor = BASE * BASE /\ latch_lo = TRUE
  /\ acc_ns = 0 /\ period_ns = Period(divisor)
  /\ last_tick = 0 /\ programmed = FALSE
  /\ clock = 0 /\ paid = 0 /\ written = <<>> /\ meant = divisor

-----------------------------------------------------------------------------
\* Port 3.  Channels other than 0 are ignored; the pulses go on with the old
\* period until the new divisor is complete.
CommandKeepsLatch(channel, mode) ==
  IF channel # 0 THEN UNCHANGED pitVars
  ELSE /\ access_mode' = mode /\ divisor' = 0
       /\ written' = <<>>
       /\ UNCHANGED <<latch_lo, acc_ns, period_ns, last_tick, programmed, clock, paid, meant>>
Command(channel, mode) ==
  IF channel # 0 THEN UNCHANGED pitVars
  ELSE /\ access_mode' = mode /\ latch_lo' = TRUE /\ divisor' = 0
       /\ written' = <<>>
       /\ UNCHANGED <<acc_ns, period_ns, last_tick, programmed, clock, paid, meant>>

\* What the bytes after a command mean: the reference for Data below.
Meaning(mode, bytes, before) ==
  LET n == Len(bytes)
      k == n \div 2
  IN  CASE mode = 1 /\ n > 0 -> bytes[n]
        [] mode = 2 /\ n > 0 -> BASE * bytes[n]
        [] mode = 3 /\ k > 0 -> bytes[2 * k - 1] + BASE * bytes[2 * k]
        [] OTHER -> before

Programmed(d) ==
  /\ divisor' = d /\ period_ns' = Period(d) /\ programmed' = TRUE

\* Port 0.  The two halves never share a bit, so the code's | is a sum.
Data(val) ==
  /\ Len(written) < MaxData
  /\ written' = Append(written, val)
  /\ meant' = Meaning(access_mode, written', meant)
  /\ \/ access_mode = 1 /\ Programmed(val) /\ UNCHANGED latch_lo
     \/ access_mode = 2 /\ Programmed(BASE * val) /\ UNCHANGED latch_lo
     \/ /\ access_mode = 3 /\ latch_lo
        /\ divisor' = val /\ latch_lo' = FALSE
        /\ UNCHANGED <<period_ns, programmed>>
     \/ /\ access_mode = 3 /\ ~latch_lo
        /\ Programmed(divisor + BASE * val) /\ latch_lo' = TRUE
     \/ access_mode = 0 /\ UNCHANGED <<divisor, latch_lo, period_ns, programmed>>
  /\ UNCHANGED <<access_mode, acc_ns, last_tick, clock, paid>>

\* tick: nothing before the first divisor; then the time since the last tick
\* that counted becomes pulses, each raising and lowering the line.
TickForgetsClock ==
  /\ programmed
  /\ LET acc == acc_ns + (clock - last_tick)
     IN  /\ acc_ns' = acc % period_ns
         /\ paid' = paid + period_ns * (acc \div period_ns)
  /\ UNCHANGED <<access_mode, divisor, latch_lo, period_ns, last_tick, programmed,
                 clock, written, meant>>
PitTick ==
  /\ programmed
  /\ LET acc == acc_ns + (clock - last_tick)
     IN  /\ acc_ns' = acc % period_ns
         /\ paid' = paid + period_ns * (acc \div period_ns)
  /\ last_tick' = clock
  /\ UNCHANGED <<access_mode, divisor, latch_lo, period_ns, programmed, clock, written, meant>>

TimePasses(t) ==
  /\ clock + t =< MaxTime
  /\ clock' = clock + t
  /\ UNCHANGED <<access_mode, divisor, latch_lo, acc_ns, period_ns, last_tick,
                 programmed, paid, written, meant>>

PitNext ==
  \/ PitTick
  \/ \E channel \in Channels, mode \in 0 .. 3 : Command(channel, mode)
  \/ \E val \in DataBytes : Data(val)
  \/ \E t \in Passing : TimePasses(t)

PitSpec == PitInit /\ [][PitNext]_pitVars

-----------------------------------------------------------------------------
\* Whenever the tick thread looks, the period is that of a divisor the guest
\* has completed, never of half a new one: not between two bytes, not after a
\* command that cuts a sequence short.  A divisor that waits for its high byte is
\* a byte, or | would mix the two.
PeriodComplete == period_ns = Period(meant) /\ (~latch_lo => divisor < BASE)

\* Through every change of the divisor no time is lost or counted twice: the
\* pulses and the remainder make up all the time up to the last tick.
TimeConserved == paid + acc_ns = last_tick
=============================================================================
