--------------------------- MODULE PolledDevices ---------------------------
(***************************************************************************)
(* The entropy and counter devices (src/src/devices/virtio/devices/rng.rs, *)
(* counter.rs) and the drivers the firmware has for them                   *)
(* (src/guest/firmware/virtio/rng.c, counter.c).  main.rs gives both line  *)
(* 0, which the PIT pulses as well.  The drivers never acknowledge an      *)
(* interrupt: they notify, then watch the used index, while the tick       *)
(* thread may serve the request just as the notification does.             *)
(*                                                                         *)
(* One vCPU runs the drivers, one call at a time.  A device holds the      *)
(* device map's lock over its whole loop, so it is one step.               *)
(***************************************************************************)
EXTENDS Naturals, Sequences

CONSTANTS
  Inputs,       \* lengths asked of rng, numbers given to the counter
  Junk,         \* what an answer holds before the device has written it
  PollMod,      \* 2^16: ring indices are u16 and wrap
  MaxPulses,    \* bound on the PIT's pulses
  MaxQueued     \* bound on queued interrupt commands

ASSUME PolledAssumption ==
  /\ Inputs \subseteq Nat /\ Junk \in Nat /\ \A i \in Inputs : Junk \notin {i, i + 1}
  /\ PollMod \in Nat \ {0, 1}

rng == 1
cnt == 2
Polled == {rng, cnt}

VARIABLES
  status, interrupt_status, queue_sel, ready, irq_commands,
  tick_pc, next_dev, irqs, line,        \* MMIOTransport
  call,                                 \* the driver's call: device and place
  arg, answer,                          \* in guest memory: request and reply
  avail_at, taken, used_at, last_used,  \* the ring indices of both sides
  result,                               \* what the last call returned
  pulses, rises                         \* history: PIT pulses, rises of line 0

T == INSTANCE MMIOTransport WITH
       N <- 2, irq_sel <- [d \in Polled |-> 0], queue_num <- [d \in Polled |-> 1],
       LegacyLines <- {0}, Lines <- {0}, StatusVals <- {0, 15}, AckVals <- {},
       MaxCommands <- MaxQueued, commands <- irq_commands

pTransport == <<status, interrupt_status, queue_sel, ready, irq_commands,
                tick_pc, next_dev, irqs, line>>
pRings == <<arg, answer, avail_at, taken, used_at, last_used>>
polledVars == <<pTransport, call, pRings, result, pulses, rises>>

Zeroes == [d \in Polled |-> 0]

PolledFrom(c) ==
  /\ T!Init
  /\ call = c
  /\ arg = Zeroes /\ answer = Zeroes
  /\ avail_at = Zeroes /\ taken = Zeroes /\ used_at = Zeroes /\ last_used = Zeroes
  /\ result = [dev |-> rng, arg |-> 0, value |-> 0]
  /\ pulses = 0 /\ rises = 0
PolledInit == PolledFrom([dev |-> rng, pc |-> "reset"])

-----------------------------------------------------------------------------
(* The drivers *)

At(pc) == call.pc = pc
Goto(pc) == call' = [call EXCEPT !.pc = pc]

\* Reset, queue, DRIVER_OK; then the call next
InitSteps(next) ==
  /\ \/ At("reset") /\ T!WriteStatus(call.dev, 0) /\ Goto("queue")
     \/ At("queue") /\ T!WriteQueueReady(call.dev, TRUE) /\ Goto("ok")
     \/ At("ok") /\ T!WriteStatus(call.dev, 15) /\ call' = next
  /\ UNCHANGED <<pRings, result, pulses, rises>>

virtio_rng_init == call.dev = rng /\ InitSteps([dev |-> cnt, pc |-> "reset"])
virtio_cnt_init == call.dev = cnt /\ InitSteps([dev |-> cnt, pc |-> "idle"])

\* The descriptors and the ring entry ...
StartCall(d, x) ==
  /\ At("idle")
  /\ call' = [dev |-> d, pc |-> "publish"]
  /\ arg' = [arg EXCEPT ![d] = x] /\ answer' = [answer EXCEPT ![d] = Junk]
  /\ UNCHANGED <<pTransport, avail_at, taken, used_at, last_used, result, pulses, rises>>

virtio_rng_read(len) == StartCall(rng, len)
virtio_cnt(in) == StartCall(cnt, in)

\* ... then the index, from which on the tick thread may serve it ...
Publish ==
  /\ At("publish") /\ Goto("notify")
  /\ avail_at' = [avail_at EXCEPT ![call.dev] = (@ + 1) % PollMod]
  /\ UNCHANGED <<pTransport, arg, answer, taken, used_at, last_used, result, pulses, rises>>

\* What the devices answer: as many bytes as were asked for, the number plus one
RngVirtio(len) == len
CntVirtio(input) == input + 1
Reply(d, x) == IF d = rng THEN RngVirtio(x) ELSE CntVirtio(x)

Pending(d) == (avail_at[d] + PollMod - taken[d]) % PollMod
ServeAgain(d) ==
  /\ used_at' = [used_at EXCEPT ![d] = (@ + Pending(d)) % PollMod]
  /\ answer' = [answer EXCEPT ![d] = IF Pending(d) > 0 THEN Reply(d, arg[d]) ELSE @]
  /\ UNCHANGED <<arg, avail_at, last_used, taken>>
\* tick of both, down to the last request in the ring
Serve(d) ==
  /\ taken' = [taken EXCEPT ![d] = avail_at[d]]
  /\ used_at' = [used_at EXCEPT ![d] = (@ + Pending(d)) % PollMod]
  /\ answer' = [answer EXCEPT ![d] = IF Pending(d) > 0 THEN Reply(d, arg[d]) ELSE @]
  /\ UNCHANGED <<arg, avail_at, last_used>>

Notify ==
  /\ At("notify") /\ Goto("poll")
  /\ T!WriteQueueNotify(call.dev, 0, Pending(call.dev) > 0)
  /\ Serve(call.dev)
  /\ UNCHANGED <<result, pulses, rises>>

ReturnOnLess ==
  LET d == call.dev
  IN  /\ At("poll") /\ used_at[d] > last_used[d] /\ Goto("idle")
      /\ last_used' = [last_used EXCEPT ![d] = (@ + 1) % PollMod]
      /\ result' = [dev |-> d, arg |-> arg[d], value |-> answer[d]]
      /\ UNCHANGED <<pTransport, arg, answer, avail_at, taken, used_at, pulses, rises>>
\* ... and the wait for the used index.
Return ==
  LET d == call.dev
  IN  /\ At("poll") /\ used_at[d] # last_used[d] /\ Goto("idle")
      /\ last_used' = [last_used EXCEPT ![d] = (@ + 1) % PollMod]
      /\ result' = [dev |-> d, arg |-> arg[d], value |-> answer[d]]
      /\ UNCHANGED <<pTransport, arg, answer, avail_at, taken, used_at, pulses, rises>>

-----------------------------------------------------------------------------
(* The tick thread *)

ServeTick ==
  /\ next_dev \in Polled
  /\ IF T!DRIVER_OK(status[next_dev]) /\ ready[next_dev][0]
     THEN T!TickDevice(Pending(next_dev) > 0) /\ Serve(next_dev)
     ELSE T!TickDevice(FALSE) /\ UNCHANGED pRings
  /\ UNCHANGED <<call, result, pulses, rises>>

\* Pit::tick: up and down, pushed under one hold of the IRQHandler's lock
PitPulseStaysUp ==
  /\ tick_pc = "take" /\ pulses < MaxPulses
  /\ irq_commands' = irq_commands \o <<[irq_line |-> 0, value |-> TRUE]>>
  /\ pulses' = pulses + 1
  /\ UNCHANGED <<status, interrupt_status, queue_sel, ready, tick_pc, next_dev, irqs, line,
                 call, pRings, result, rises>>
PitPulse ==
  /\ tick_pc = "take" /\ pulses < MaxPulses
  /\ irq_commands' = irq_commands \o <<[irq_line |-> 0, value |-> TRUE],
                                       [irq_line |-> 0, value |-> FALSE]>>
  /\ pulses' = pulses + 1
  /\ UNCHANGED <<status, interrupt_status, queue_sel, ready, tick_pc, next_dev, irqs, line,
                 call, pRings, result, rises>>

TickRest ==
  /\ T!TickLock \/ T!TickUnlock \/ T!TakeCommands \/ T!Deliver \/ T!TickSleep
  /\ rises' = IF line'[0] /\ ~line[0] THEN rises + 1 ELSE rises
  /\ UNCHANGED <<call, pRings, result, pulses>>

PolledTick == ServeTick \/ TickRest
DriverStep == virtio_rng_init \/ virtio_cnt_init \/ Publish \/ Notify \/ Return
PolledNext ==
  \/ DriverStep \/ PolledTick \/ PitPulse
  \/ \E x \in Inputs : virtio_rng_read(x) \/ virtio_cnt(x)

\* The tick thread loops for ever and sleeps in every round, so a vCPU that
\* asks for the device map again and again gets it.
PolledSpec ==
  /\ PolledInit /\ [][PolledNext]_polledVars
  /\ WF_polledVars(PolledTick) /\ SF_polledVars(DriverStep)

-----------------------------------------------------------------------------
\* Though the notification and the tick thread both serve a request, each call
\* consumes exactly one completion and it is its own: it returns the number of
\* bytes asked for or the number given plus one, and no completion is left over
\* for the next call to mistake for its answer.
AnswersExact ==
  /\ result.value = Reply(result.dev, result.arg)
  /\ \A d \in Polled : (At("idle") \/ call.dev # d) =>
       avail_at[d] = used_at[d] /\ taken[d] = used_at[d] /\ last_used[d] = used_at[d]

\* A call returns, from whatever point of the tick thread's round, although no
\* interrupt is ever handled and interrupt_status stays set.
CallsReturn == ~At("idle") ~> At("idle")

\* The two devices leave line 0 up after every completion, yet no pulse of the
\* PIT is lost in it: once all commands are delivered the line has risen at least
\* as often as the PIT pulsed it.
TimerHeard == irq_commands = <<>> /\ irqs = <<>> => rises >= pulses
=============================================================================
