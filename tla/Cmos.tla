-------------------------------- MODULE Cmos --------------------------------
(***************************************************************************)
(* The CMOS clock (src/src/devices/cmos.rs): an index port and a data      *)
(* port.  Every read of a clock register asks the host for the time of     *)
(* that moment, so the fields a guest collects may belong to different     *)
(* moments, and the update-in-progress flag never tells it.                *)
(*                                                                         *)
(* The guest sets status register B, then reads the fields one by one,     *)
(* twice, and believes two passes that agree.  The other fields of the     *)
(* date behave as the minute does and are left out.                        *)
(***************************************************************************)
EXTENDS Integers, FiniteSets

CONSTANTS
  SecondsPerMinute, MinutesPerHour, HoursPerHalf,
  MaxTicks        \* bound: seconds that pass while the guest reads

ASSUME CmosAssumption ==
  /\ {SecondsPerMinute, MinutesPerHour, HoursPerHalf} \subseteq 1 .. 60
  /\ MaxTicks \in Nat /\ MaxTicks < SecondsPerMinute

VARIABLES
  now, ticks,    \* the host's clock, and how often it moved
  reg,           \* selected register
  statusB,       \* bits of status register B that matter
  mode,          \* guest: bits of B that it has written
  want,          \* guest: register it turns to next, StatusB first
  first, second, \* guest: its two passes, field -> value
  since,         \* history: times since the first pass began
  believed       \* guest: whether it believes the time

cmosVars == <<now, ticks, reg, statusB, mode, want, first, second, since, believed>>

Fields == {"Seconds", "Minute", "Hour"}
Unset == [f \in Fields |-> -1]
Day == SecondsPerMinute * MinutesPerHour * HoursPerHalf * 2

second_of(t) == t % SecondsPerMinute
minute_of(t) == (t \div SecondsPerMinute) % MinutesPerHour
hour_of(t) == t \div (SecondsPerMinute * MinutesPerHour)
hour12_of(t) == IF hour_of(t) % HoursPerHalf = 0 THEN HoursPerHalf ELSE hour_of(t) % HoursPerHalf

CmosInit ==
  /\ now \in 0 .. Day - 1 /\ ticks = 0
  /\ reg = "Unset" /\ statusB = [binary |-> FALSE, hour_12 |-> FALSE]
  /\ mode = [binary |-> FALSE, hour_24 |-> TRUE]
  /\ want = "StatusB" /\ first = Unset /\ second = Unset /\ since = {} /\ believed = FALSE

-----------------------------------------------------------------------------
to_bcd(val) == (val \div 10) * 16 + (val % 10)

\* Data port, read
input ==
  LET val == CASE reg = "Seconds" -> second_of(now)
               [] reg = "Minute" -> minute_of(now)
               [] reg = "Hour" -> IF statusB.hour_12 THEN hour12_of(now) ELSE hour_of(now)
               [] OTHER -> 0
  IN IF statusB.binary THEN val ELSE to_bcd(val)

\* Index port.  A register that does not exist leaves reg as it is.
Select ==
  /\ reg # want
  /\ reg' = want
  /\ UNCHANGED <<now, ticks, statusB, mode, want, first, second, since, believed>>

\* Data port, write of status register B: bit 1 is set for 24-hour mode.
WriteStatusBPlain(binary, hour_24) ==
  /\ want = "StatusB" /\ reg = "StatusB"
  /\ statusB' = [binary |-> binary, hour_12 |-> hour_24]
  /\ mode' = [binary |-> binary, hour_24 |-> hour_24]
  /\ want' = "Seconds" /\ since' = {now}
  /\ UNCHANGED <<now, ticks, reg, first, second, believed>>
WriteStatusB(binary, hour_24) ==
  /\ want = "StatusB" /\ reg = "StatusB"
  /\ statusB' = [binary |-> binary, hour_12 |-> ~hour_24]
  /\ mode' = [binary |-> binary, hour_24 |-> hour_24]
  /\ want' = "Seconds" /\ since' = {now}
  /\ UNCHANGED <<now, ticks, reg, first, second, believed>>

\* What the guest makes of a value, by the mode it has set.
Decoded(val) == IF mode.binary THEN val ELSE (val \div 16) * 10 + (val % 16)

After(f) == CASE f = "Seconds" -> "Minute" [] f = "Minute" -> "Hour" [] f = "Hour" -> "Seconds"

ReadField ==
  /\ want \in Fields /\ reg = want /\ second["Hour"] = -1
  /\ want' = After(want)
  /\ IF first["Hour"] = -1
     THEN first' = [first EXCEPT ![want] = Decoded(input)] /\ UNCHANGED second
     ELSE second' = [second EXCEPT ![want] = Decoded(input)] /\ UNCHANGED first
  /\ UNCHANGED <<now, ticks, reg, statusB, mode, since, believed>>

\* Both passes are there: believe them when they agree, else begin again.
Compare ==
  /\ second["Hour"] # -1 /\ ~believed
  /\ believed' = (first = second)
  /\ IF first = second
     THEN UNCHANGED <<first, second, since>>
     ELSE first' = Unset /\ second' = Unset /\ since' = {now}
  /\ UNCHANGED <<now, ticks, reg, statusB, mode, want>>

ClockTick ==
  /\ ticks < MaxTicks /\ ~believed
  /\ now' = (now + 1) % Day /\ ticks' = ticks + 1
  /\ since' = IF want = "StatusB" THEN since ELSE since \cup {now'}
  /\ UNCHANGED <<reg, statusB, mode, want, first, second, believed>>

Done == believed /\ UNCHANGED cmosVars

CmosNext ==
  \/ \E binary, hour_24 \in BOOLEAN : WriteStatusB(binary, hour_24)
  \/ (~believed /\ Select) \/ ReadField \/ Compare \/ ClockTick \/ Done

CmosSpec == CmosInit /\ [][CmosNext]_cmosVars

-----------------------------------------------------------------------------
\* A time that two passes agree on is one the host's clock showed since the first
\* of them began, in binary and in BCD, with the hour up to half a day in 12-hour
\* mode, where the register carries no PM flag: carries between fields never show.
BelievedTimeShown ==
  believed => \E t \in since :
           /\ first["Seconds"] = second_of(t) /\ first["Minute"] = minute_of(t)
           /\ first["Hour"] = IF mode.hour_24 THEN hour_of(t) ELSE hour12_of(t)
=============================================================================
