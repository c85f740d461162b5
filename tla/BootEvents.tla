----------------------------- MODULE BootEvents -----------------------------
(***************************************************************************)
(* Events and keys of the firmware (src/guest/firmware/efi/uefi.c and      *)
(* headers/uefi/stip.h): a boot loader that creates events, arms timers,   *)
(* waits for several events at once and reads keys, while keys arrive at   *)
(* the serial port.  WaitForEvent looks at its events in order and asks    *)
(* the port only when none of them is signaled.                            *)
(***************************************************************************)
EXTENDS Integers, Sequences, FiniteSetsExt, Functions

CONSTANTS
  Timers,     \* events the loader may create
  MaxKeys     \* bound: keys that arrive

WaitForKey == "WaitForKey"
ASSUME BootEventsAssumption == MaxKeys \in Nat /\ WaitForKey \notin Timers

VARIABLES
  created,    \* events of the loader
  signaled,   \* of each event
  arrived,    \* keys that came to the port
  read,       \* keys the loader took
  wait,       \* events WaitForEvent was called with, <<>> outside of it
  index,      \* what it returned, counted from 1
  ahead       \* history: the loader took a key since WaitForKey was signaled

eventsVars == <<created, signaled, arrived, read, wait, index, ahead>>

Events == Timers \cup {WaitForKey}
serial_isdata == read < arrived
Outside == wait = <<>>

EventsInit ==
  /\ created = {} /\ signaled = [e \in Events |-> FALSE]
  /\ arrived = 0 /\ read = 0 /\ wait = <<>> /\ index = 0 /\ ahead = FALSE

-----------------------------------------------------------------------------
KeyArrives ==
  /\ arrived < MaxKeys
  /\ arrived' = arrived + 1
  /\ UNCHANGED <<created, signaled, read, wait, index, ahead>>

\* CreateEvent and CreateEventEx, when the heap has room.
CreateEvent(e) ==
  /\ Outside /\ e \notin created
  /\ created' = created \cup {e}
  /\ signaled' = [signaled EXCEPT ![e] = FALSE]
  /\ UNCHANGED <<arrived, read, wait, index, ahead>>

\* A timer goes off at once, whatever its time.
SetTimer(e) ==
  /\ Outside /\ e \in created
  /\ signaled' = [signaled EXCEPT ![e] = TRUE]
  /\ UNCHANGED <<created, arrived, read, wait, index, ahead>>

CallWaitForEvent(events) ==
  /\ Outside /\ Range(events) \subseteq created \cup {WaitForKey}
  /\ wait' = events
  /\ UNCHANGED <<created, signaled, arrived, read, index, ahead>>

\* A pass over the events that finds one.
WaitReturns ==
  LET found == {k \in DOMAIN wait : signaled[wait[k]]}
  IN /\ found # {}
     /\ index' = Min(found) /\ wait' = <<>>
     /\ signaled' = [signaled EXCEPT ![wait[Min(found)]] = FALSE]
     /\ ahead' = IF wait[Min(found)] = WaitForKey THEN FALSE ELSE ahead
     /\ UNCHANGED <<created, arrived, read>>

\* A pass that finds none, and update_events.
update_events_once ==
  /\ ~Outside /\ \A k \in DOMAIN wait : ~signaled[wait[k]]
  /\ signaled' = [signaled EXCEPT ![WaitForKey] = @ \/ (serial_isdata /\ read = 0)]
  /\ UNCHANGED <<created, arrived, read, wait, index, ahead>>
update_events ==
  /\ ~Outside /\ \A k \in DOMAIN wait : ~signaled[wait[k]]
  /\ signaled' = [signaled EXCEPT ![WaitForKey] = @ \/ serial_isdata]
  /\ ahead' = IF serial_isdata THEN FALSE ELSE ahead
  /\ UNCHANGED <<created, arrived, read, wait, index>>

\* Without a key the answer is NOT_READY and nothing changes.
ReadKeyStroke ==
  /\ Outside /\ serial_isdata
  /\ read' = read + 1
  /\ ahead' = (ahead \/ signaled[WaitForKey])
  /\ UNCHANGED <<created, signaled, arrived, wait, index>>

Waits == {<<WaitForKey>>} \cup
         UNION {{<<e>>, <<e, WaitForKey>>, <<WaitForKey, e>>} : e \in Timers}

EventsNext ==
  \/ KeyArrives \/ WaitReturns \/ update_events \/ ReadKeyStroke
  \/ \E e \in Timers : CreateEvent(e) \/ SetTimer(e)
  \/ \E events \in Waits : CallWaitForEvent(events)

EventsFairness == WF_eventsVars(WaitReturns) /\ WF_eventsVars(update_events)

EventsSpec == EventsInit /\ [][EventsNext]_eventsVars
EventsFairSpec == EventsSpec /\ EventsFairness

-----------------------------------------------------------------------------
\* A signaled WaitForKey stands for a key in the port, unless the loader took keys
\* while the signal stood: WaitForEvent does not report keys that never came.
SignalsTrue == signaled[WaitForKey] => serial_isdata \/ ahead

\* Keys are reported, and only keys (SignalsTrue).  A wait that includes WaitForKey
\* ends once a key is in the port, also the second key of a burst that the first
\* signal already stood for.
KeysReported ==
  /\ []SignalsTrue
  /\ (~Outside /\ WaitForKey \in Range(wait) /\ serial_isdata) ~> Outside
=============================================================================
