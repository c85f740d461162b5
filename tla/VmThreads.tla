------------------------------ MODULE VmThreads ------------------------------
(***************************************************************************)
(* The threads of the monitor and the mutexes they share: one thread per   *)
(* vCPU (src/src/vm/run.rs), the tick thread (src/src/vm/tick.rs), the     *)
(* main thread that pumps the display, and the keyboard thread of the      *)
(* terminal's serial port (src/src/devices/serial.rs).                     *)
(*                                                                         *)
(* A device handler may panic.  The panic ends its thread only, releases   *)
(* what it holds and poisons it.  The vCPU threads recover a poisoned      *)
(* device map; the tick thread unwraps it and dies.                        *)
(***************************************************************************)
EXTENDS Naturals, FiniteSets

CONSTANT Vcpus

Outer == {"mmio_map", "io_map"}
Inner(l) == CASE l = "mmio_map" -> {"memory", "irq_handler", "window"}
              [] l = "io_map"   -> {"irq_handler", "keys"}
Leaf == {"memory", "irq_handler", "window", "keys", "vm"}
Lock == Outer \cup Leaf
none == "none"

ASSUME VcpuAssumption == Vcpus \cap {"tick", "main", "keyboard"} = {}

Thread == Vcpus \cup {"tick", "main", "keyboard"}

VARIABLES
  want,       \* the lock a thread is blocked on, or none
  held,       \* the locks it holds
  alive,      \* it has not panicked
  poisoned,   \* locks released by a panic
  tick_at,    \* where the tick thread is in its loop
  commands,   \* some interrupt command is queued in the IRQHandler
  batch,      \* the tick thread has commands to deliver
  running     \* the process has not exited

vars == <<want, held, alive, poisoned, tick_at, commands, batch, running>>

Init ==
  /\ want = [t \in Thread |-> none]
  /\ held = [t \in Thread |-> {}]
  /\ alive = [t \in Thread |-> TRUE]
  /\ poisoned = {}
  /\ tick_at = "mmio_map"
  /\ commands = FALSE /\ batch = FALSE
  /\ running = TRUE

-----------------------------------------------------------------------------
Free(l) == \A t \in Thread : l \notin held[t]
Idle(t) == running /\ alive[t] /\ want[t] = none /\ held[t] = {}
Handling(t, l) == running /\ alive[t] /\ want[t] = none /\ held[t] = {l}

Ask(t, l) == want' = [want EXCEPT ![t] = l]

\* lock() answered by unwrap_or_else(into_inner) or by a match on the error,
\* against lock().unwrap()
RecoversNever(t, l) == FALSE
Recovers(t, l) == l = "memory" \/ (t \in Vcpus /\ l \in Outer)

\* A panic unwinds the thread: its locks are poisoned and free again.  The
\* process goes with its main thread only.
Die(t) ==
  /\ alive' = [alive EXCEPT ![t] = FALSE]
  /\ poisoned' = poisoned \cup held[t]
  /\ held' = [held EXCEPT ![t] = {}]
  /\ want' = [want EXCEPT ![t] = none]
  /\ running' = (t # "main")
  /\ UNCHANGED <<tick_at, commands, batch>>

\* The lock is granted ...
Acquire(t) ==
  /\ running /\ alive[t] /\ want[t] # none /\ Free(want[t])
  /\ want[t] \in poisoned => Recovers(t, want[t])
  /\ held' = [held EXCEPT ![t] = @ \cup {want[t]}]
  /\ want' = [want EXCEPT ![t] = none]
  /\ UNCHANGED <<alive, poisoned, tick_at, commands, batch, running>>

\* ... or it is poisoned and unwrap panics.
UnwrapPanics(t) ==
  /\ running /\ alive[t] /\ want[t] # none /\ Free(want[t])
  /\ want[t] \in poisoned /\ ~Recovers(t, want[t])
  /\ Die(t)

\* KVM exits to a vCPU thread with a port or an MMIO access.
VcpuExit(v, l) ==
  /\ Idle(v)
  /\ Ask(v, l)
  /\ UNCHANGED <<held, alive, poisoned, tick_at, commands, batch, running>>

\* run() ends: port 0x500, shutdown, a failed entry, an answer of the wrong
\* length while the map is still locked.  Or the user typed ctrl-z.
ProcessExit(t) ==
  /\ running /\ alive[t] /\ want[t] = none
  /\ held[t] = {} \/ \E l \in Outer : held[t] = {l}
  /\ running' = FALSE
  /\ UNCHANGED <<want, held, alive, poisoned, tick_at, commands, batch>>

\* A device handler reads guest memory, draws, raises a line, takes keys.
HandlerAsksOtherMap(t, l, m) ==
  /\ Handling(t, l) /\ m \in Inner(l)
  /\ Ask(t, CHOOSE o \in Outer : o # l)
  /\ UNCHANGED <<held, alive, poisoned, tick_at, commands, batch, running>>
HandlerAsks(t, l, m) ==
  /\ Handling(t, l) /\ m \in Inner(l)
  /\ Ask(t, m)
  /\ UNCHANGED <<held, alive, poisoned, tick_at, commands, batch, running>>

HandlerReleases(t, l, m) ==
  /\ running /\ alive[t] /\ want[t] = none /\ held[t] = {l, m} /\ m \in Inner(l)
  /\ held' = [held EXCEPT ![t] = {l}]
  /\ commands' = (commands \/ m = "irq_handler")
  /\ UNCHANGED <<want, alive, poisoned, tick_at, batch, running>>

\* panic! on a malformed descriptor or a slice out of range; the bounds check
\* of VirtioGuestMemoryHandle panics with the memory locked on an address past
\* the end of the first region, and blit_rect with the window locked on a
\* scanout too large to copy.
HandlerPanics(t, l) ==
  /\ running /\ alive[t] /\ want[t] = none
  /\ l \in held[t] /\ held[t] \subseteq {l, "memory", "window"}
  /\ Die(t)

VcpuResumes(v, l) ==
  /\ Handling(v, l)
  /\ held' = [held EXCEPT ![v] = {}]
  /\ UNCHANGED <<want, alive, poisoned, tick_at, commands, batch, running>>

-----------------------------------------------------------------------------
(* The tick thread: the MMIO devices, the port devices, the commands, KVM *)

TickAsks ==
  /\ Idle("tick") /\ (tick_at = "vm" => batch)
  /\ Ask("tick", tick_at)
  /\ UNCHANGED <<held, alive, poisoned, tick_at, commands, batch, running>>

\* The end of a locked section.  Delivering takes the vm lock once per command;
\* no other thread uses it, so one section stands for them all.
TickReleases(l) ==
  /\ Handling("tick", l)
  /\ held' = [held EXCEPT !["tick"] = {}]
  /\ tick_at' = CASE l = "mmio_map" -> "io_map"
                  [] l = "io_map" -> "irq_handler"
                  [] l = "irq_handler" -> "vm"
                  [] l = "vm" -> "mmio_map"
  /\ commands' = (commands /\ l # "irq_handler")
  /\ batch' = IF l = "irq_handler" THEN commands ELSE (batch /\ l # "vm")
  /\ UNCHANGED <<want, alive, poisoned, running>>

TickSleeps ==
  /\ Idle("tick") /\ tick_at = "vm" /\ ~batch
  /\ tick_at' = "mmio_map"
  /\ UNCHANGED <<want, held, alive, poisoned, commands, batch, running>>

-----------------------------------------------------------------------------
(* threaded_run's own loop, and the keyboard thread *)

Loops(t, l) == (t = "main" /\ l = "window") \/ (t = "keyboard" /\ l = "keys")

LoopAsks(t, l) ==
  /\ Loops(t, l) /\ Idle(t)
  /\ Ask(t, l)
  /\ UNCHANGED <<held, alive, poisoned, tick_at, commands, batch, running>>

LoopReleases(t, l) ==
  /\ Loops(t, l) /\ Handling(t, l)
  /\ held' = [held EXCEPT ![t] = {}]
  /\ running' \in {TRUE, t # "main"}   \* the window was closed
  /\ UNCHANGED <<want, alive, poisoned, tick_at, commands, batch>>

\* event::read().unwrap()
KeyboardFails == Idle("keyboard") /\ Die("keyboard")

Exited == ~running /\ UNCHANGED vars

-----------------------------------------------------------------------------
Granted(t) == Acquire(t) \/ UnwrapPanics(t)
Handler(t, l, m) == HandlerAsks(t, l, m) \/ HandlerReleases(t, l, m)
Leaves(t) ==
  \E l \in Outer :
    \/ t \in Vcpus /\ VcpuResumes(t, l)
    \/ t = "tick" /\ TickReleases(l)

Next ==
  \/ \E t \in Thread : Granted(t)
  \/ \E v \in Vcpus, l \in Outer : VcpuExit(v, l)
  \/ \E t \in Vcpus \cup {"keyboard"} : ProcessExit(t)
  \/ \E t \in Vcpus \cup {"tick"}, l \in Outer :
       \/ HandlerPanics(t, l)
       \/ \E m \in Leaf : Handler(t, l, m)
  \/ \E v \in Vcpus, l \in Outer : VcpuResumes(v, l)
  \/ TickAsks \/ TickSleeps \/ \E l \in Outer \cup {"irq_handler", "vm"} : TickReleases(l)
  \/ \E t \in Thread, l \in Leaf : LoopAsks(t, l) \/ LoopReleases(t, l)
  \/ KeyboardFails
  \/ Exited

\* Handlers end, the tick thread loops, and a mutex that is released again and
\* again is in the end granted to each thread that waits for it.
Fairness ==
  /\ \A t \in Vcpus \cup {"tick"} :
       /\ SF_vars(Granted(t))
       /\ SF_vars(Leaves(t))
       /\ WF_vars(\E l \in Outer, m \in Leaf : HandlerReleases(t, l, m))
  /\ WF_vars(TickAsks \/ TickSleeps \/ \E l \in {"irq_handler", "vm"} : TickReleases(l))
  /\ WF_vars(LoopAsks("main", "window")) /\ SF_vars(Granted("main"))
  /\ \A t \in {"main", "keyboard"} : WF_vars(\E l \in Leaf : LoopReleases(t, l))

Spec == Init /\ [][Next]_vars /\ Fairness

-----------------------------------------------------------------------------
\* Type invariant, with mutual exclusion: no lock has two holders.
TypeOK ==
  /\ want \in [Thread -> Lock \cup {none}]
  /\ held \in [Thread -> SUBSET Lock]
  /\ alive \in [Thread -> BOOLEAN]
  /\ poisoned \subseteq Lock
  /\ tick_at \in {"mmio_map", "io_map", "irq_handler", "vm"}
  /\ commands \in BOOLEAN /\ batch \in BOOLEAN /\ running \in BOOLEAN
  /\ \A t, u \in Thread : t # u => held[t] \cap held[u] = {}

\* No deadlock among any of the threads: there is no set of threads each of
\* which waits for a lock that another one of the set holds, though handlers
\* take up to three locks under a device map's lock.
NoCircularWait ==
  ~ \E S \in SUBSET Thread :
      /\ S # {}
      /\ \A t \in S : \E u \in S : want[t] \in held[u]

\* A panic never spreads through the locks that interrupts and keys depend on,
\* whose users all unwrap: only the device maps, guest memory and the window are
\* ever poisoned.  The main thread falls to a poisoned window only, and a tick
\* thread that died did so for a device map.
PanicContained ==
  /\ poisoned \subseteq Outer \cup {"memory", "window"}
  /\ ~alive["main"] => "window" \in poisoned
  /\ ~alive["tick"] => poisoned \cap Outer # {}

\* The machine keeps going or stops as a whole.  Interrupt commands are picked up
\* as long as the tick thread lives.  A vCPU gets every lock it waits for, also
\* the map of a device that panicked under another thread: it neither waits for
\* good nor dies of the poison, but for the window's.  And a panic that leaves the
\* window poisoned does not leave a headless machine running: the main thread's
\* next look at the window ends the process.
ThreadsProgress ==
  /\ commands ~> (~commands \/ ~alive["tick"] \/ ~running)
  /\ \A v \in Vcpus :
       (want[v] # none)
         ~> ((want[v] = none /\ held[v] # {}) \/ ~running \/ "window" \in poisoned)
  /\ ("window" \in poisoned) ~> ~running
==============================================================================
