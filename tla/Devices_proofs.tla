--------------------------- MODULE Devices_proofs ---------------------------
(***************************************************************************)
(* The graphics device, and the devices the firmware polls. Gpu, for any   *)
(* ids, pages, scanouts and limit; PolledDevices, for any range of the     *)
(* ring index.                                                             *)
(***************************************************************************)
EXTENDS Gpu, PolledDevices, FiniteSetTheorems, TLAPS

-----------------------------------------------------------------------------
(***************************************************************************)
(* Sequences and functions: facts used below, here rather than from a      *)
(* library so that no proof carries more than these.                       *)
(***************************************************************************)

\* Two sequences of one length with the same elements are equal.
LEMMA SeqsEqual ==
  ASSUME NEW Items, NEW q \in Seq(Items), NEW r \in Seq(Items), Len(q) = Len(r),
         \A i \in 1 .. Len(q) : q[i] = r[i]
  PROVE  q = r
OBVIOUS

\* A function that is one to one and onto is a bijection.
LEMMA IsBijection ==
  ASSUME NEW S, NEW Items, NEW f \in [S -> Items],
         \A a, b \in S : f[a] = f[b] => a = b, \A y \in Items : \E x \in S : f[x] = y
  PROVE  f \in Bijection(S, Items)
BY Zenon DEF Bijection, Injection, Surjection, IsInjective

-----------------------------------------------------------------------------
(***************************************************************************)
(* PolledDevices: an answer is the answer to the question last asked, and  *)
(* the timer is heard. The invariant says at which place of a call each    *)
(* device's request is.                                                    *)
(***************************************************************************)

PollIdx == 0 .. PollMod - 1
CallPlaces == {"reset", "queue", "ok", "idle", "publish", "notify", "poll"}

\* The request of d is in the ring and not served, or served.
Waiting(d) == used_at[d] = last_used[d] /\ avail_at[d] = (last_used[d] + 1) % PollMod
Served(d) == /\ used_at[d] = avail_at[d] /\ avail_at[d] = (last_used[d] + 1) % PollMod
             /\ answer[d] = Reply(d, arg[d])
Quiet(d) == avail_at[d] = used_at[d] /\ last_used[d] = used_at[d]

PolledTypes ==
  /\ avail_at \in [Polled -> PollIdx] /\ taken = used_at
  /\ used_at \in [Polled -> PollIdx] /\ last_used \in [Polled -> PollIdx]
  /\ DOMAIN arg = Polled /\ DOMAIN answer = Polled
  /\ call \in [dev : Polled, pc : CallPlaces]

\* Where the driver and the device are with a request: only between the
\* publication and the end of the notification may the device have served it or
\* not.
CallInv ==
  /\ PolledTypes
  /\ \A d \in Polled :
       /\ (call.dev # d \/ call.pc \notin {"notify", "poll"}) => Quiet(d)
       /\ (call.dev = d /\ call.pc = "notify") => Waiting(d) \/ Served(d)
       /\ (call.dev = d /\ call.pc = "poll") => Served(d)
  /\ result.value = Reply(result.dev, result.arg)

\* The used index a driver polls: one step on is another index, at distance one.
LEMMA PollIndex ==
  ASSUME NEW x \in PollIdx
  PROVE  /\ (x + 1) % PollMod \in PollIdx /\ (x + 1) % PollMod # x
         /\ (x + PollMod - x) % PollMod = 0 /\ x % PollMod = x
         /\ (((x + 1) % PollMod) + PollMod - x) % PollMod = 1
<1>1. PollMod \in Nat /\ PollMod > 1
  BY PolledAssumption
<1>2. ASSUME NEW y \in Nat, y < 2 * PollMod
      PROVE  y % PollMod = IF y < PollMod THEN y ELSE y - PollMod
  <2>1. /\ y % PollMod \in 0 .. PollMod - 1 /\ y \div PollMod \in Nat
        /\ y = PollMod * (y \div PollMod) + (y % PollMod)
    BY <1>1
  <2> DEFINE q == y \div PollMod
             r == y % PollMod
  <2> HIDE DEF q, r
  <2>2. r \in 0 .. PollMod - 1 /\ q \in Nat /\ y = PollMod * q + r
    BY <2>1, Zenon DEF q, r
  <2>3. q = 0 \/ q = 1
    BY <1>1, <1>2, <2>2
  <2>4. r = IF y < PollMod THEN y ELSE y - PollMod
    BY <1>1, <2>2, <2>3
  <2> QED  BY <2>4, Zenon DEF r
<1>3. (x + 1) % PollMod = IF x + 1 < PollMod THEN x + 1 ELSE x + 1 - PollMod
  BY <1>1, <1>2 DEF PollIdx
<1>4. x % PollMod = x
  BY <1>1, <1>2 DEF PollIdx
<1>5. (x + PollMod - x) % PollMod = 0
  <2>1. x + PollMod - x = PollMod
    BY <1>1 DEF PollIdx
  <2>2. PollMod % PollMod = 0
    BY <1>1, <1>2
  <2> QED  BY <2>1, <2>2, Zenon
<1> DEFINE n == (x + 1) % PollMod
           z == n + PollMod - x
<1>6. z = 1 \/ z = PollMod + 1
  BY <1>1, <1>3 DEF PollIdx
<1>7. z % PollMod = 1
  <2> HIDE DEF z
  <2> QED  BY <1>1, <1>2, <1>6
<1> QED  BY <1>1, <1>3, <1>4, <1>5, <1>7 DEF PollIdx

\* The invariant of a call holds before the first one.
LEMMA PolledStart == PolledInit => CallInv
<1> HAVE PolledInit
<1>1. PollMod \in Nat /\ PollMod > 1
  BY PolledAssumption
<1>2. PolledTypes
  BY <1>1 DEF PolledInit, PolledFrom, Zeroes, PolledTypes, PollIdx, CallPlaces, Polled
<1>3. \A d \in Polled : Quiet(d)
  BY Zenon DEF PolledInit, PolledFrom, Zeroes, Quiet
<1>4. result.value = Reply(result.dev, result.arg)
  BY Zenon DEF PolledInit, PolledFrom, Reply, RngVirtio, rng
<1>5. call.pc = "reset"
  BY Zenon DEF PolledInit, PolledFrom
<1> QED  BY <1>2, <1>3, <1>4, <1>5 DEF CallInv

\* The device on d: a request that waits is answered, and nothing else changes.
LEMMA ServeKeeps ==
  ASSUME CallInv, NEW d \in Polled, Serve(d), UNCHANGED result,
         \/ UNCHANGED call
         \/ call.dev = d /\ call.pc = "notify" /\ call' = [call EXCEPT !.pc = "poll"]
  PROVE  CallInv'
<1>1. Pending(d) = IF used_at[d] = avail_at[d] THEN 0 ELSE 1
  BY PollIndex DEF CallInv, PolledTypes, Quiet, Waiting, Served, Pending
<1>2. /\ taken' = [taken EXCEPT ![d] = avail_at[d]]
      /\ used_at' = [used_at EXCEPT ![d] = avail_at[d]]
      /\ answer' = [answer EXCEPT ![d] = IF used_at[d] = avail_at[d] THEN @ ELSE Reply(d, arg[d])]
      /\ UNCHANGED <<arg, avail_at, last_used>>
  <2>1. used_at[d] \in PollIdx
        /\ (used_at[d] = avail_at[d] \/ avail_at[d] = (used_at[d] + 1) % PollMod)
    BY Zenon DEF CallInv, PolledTypes, Quiet, Waiting, Served
  <2>2. used_at[d] % PollMod = used_at[d]
    BY <2>1, PollIndex, Zenon
  <2>3. (used_at[d] + Pending(d)) % PollMod = avail_at[d]
    <3>1. CASE used_at[d] = avail_at[d]
      <4>1. used_at[d] + Pending(d) = used_at[d]
        BY <1>1, <2>1, <3>1 DEF PollIdx
      <4> QED  BY <2>2, <3>1, <4>1
    <3>2. CASE used_at[d] # avail_at[d]
      BY <1>1, <2>1, <3>2, Zenon
    <3> QED  BY <3>1, <3>2
  <2>4. (Pending(d) > 0) <=> used_at[d] # avail_at[d]
    BY <1>1
  <2> QED  BY <2>3, <2>4, Zenon DEF Serve
<1>3. PolledTypes'
  BY <1>2, Zenon DEF CallInv, PolledTypes, CallPlaces
<1>4. ASSUME NEW e \in Polled, e # d
      PROVE  /\ Quiet(e)' <=> Quiet(e)
             /\ Waiting(e)' <=> Waiting(e)
             /\ Served(e)' <=> Served(e)
  BY <1>2, <1>4, Zenon DEF CallInv, PolledTypes, Quiet, Waiting, Served
<1>5. Quiet(d) => Quiet(d)'
  BY <1>2, Zenon DEF CallInv, PolledTypes, Quiet
<1>6. Waiting(d) \/ Served(d) => Served(d)'
  <2>1. Waiting(d) => used_at[d] # avail_at[d]
    BY PollIndex DEF CallInv, PolledTypes, Waiting
  <2> QED  BY <1>2, <2>1 DEF CallInv, PolledTypes, Waiting, Served
<1>7. call'.dev = call.dev /\ (call'.pc = call.pc \/ (call.dev = d /\ call.pc = "notify" /\ call'.pc = "poll"))
  BY DEF CallInv, PolledTypes
<1> QED  BY <1>3, <1>4, <1>5, <1>6, <1>7 DEF CallInv

\* Every step of driver and device keeps the invariant of a call.
LEMMA PolledStep == CallInv /\ [PolledNext]_polledVars => CallInv'
<1> SUFFICES ASSUME CallInv, [PolledNext]_polledVars PROVE CallInv'
  OBVIOUS
<1> USE DEF At, Goto
<1>1. ASSUME NEW next, InitSteps(next), next \in [dev : Polled, pc : {"reset", "idle"}]
      PROVE  CallInv'
  <2>1. UNCHANGED pRings /\ UNCHANGED result /\ call.pc \in {"reset", "queue", "ok"}
    BY <1>1, Zenon DEF InitSteps
  <2>2. call' \in [dev : Polled, pc : {"reset", "queue", "ok", "idle"}]
    BY <1>1, Zenon DEF InitSteps, CallInv, PolledTypes
  <2>3. PolledTypes'
    BY <2>1, <2>2 DEF CallInv, PolledTypes, pRings, CallPlaces
  <2>4. \A d \in Polled : Quiet(d)'
    BY <2>1 DEF CallInv, Quiet, pRings
  <2> QED  BY <2>1, <2>2, <2>3, <2>4 DEF CallInv
<1>2. ASSUME NEW d \in Polled, NEW x, StartCall(d, x) PROVE CallInv'
  <2>1. PolledTypes'
    BY <1>2 DEF StartCall, CallInv, PolledTypes, CallPlaces
  <2>2. \A e \in Polled : Quiet(e)'
    BY <1>2 DEF StartCall, CallInv, Quiet
  <2> QED  BY <1>2, <2>1, <2>2 DEF StartCall, CallInv
<1>3. CASE Publish
  <2>1. PolledTypes'
    BY <1>3, PollIndex DEF Publish, CallInv, PolledTypes, CallPlaces
  <2>2. call'.dev = call.dev /\ call'.pc = "notify" /\ call.dev \in Polled
    BY <1>3, Zenon DEF Publish, CallInv, PolledTypes
  <2>3. \A e \in Polled : Quiet(e)
    BY <1>3, Zenon DEF Publish, CallInv
  <2>4. \A e \in Polled : e # call.dev => Quiet(e)'
    BY <1>3, <2>3 DEF Publish, CallInv, PolledTypes, Quiet
  <2>5. Waiting(call.dev)'
    BY <1>3, <2>2, <2>3 DEF Publish, CallInv, PolledTypes, Quiet, Waiting
  <2> QED  BY <1>3, <2>1, <2>2, <2>4, <2>5, SMTT(30) DEF Publish, CallInv
<1>4. CASE Notify
  BY <1>4, ServeKeeps DEF Notify, CallInv, PolledTypes
<1>5. CASE Return
  <2> DEFINE d == call.dev
  <2>1. d \in Polled /\ Served(d) /\ call.pc = "poll"
    BY <1>5 DEF Return, CallInv, PolledTypes
  <2>2. PolledTypes'
    BY <1>5, PollIndex DEF Return, CallInv, PolledTypes, CallPlaces
  <2>3. Quiet(d)'
    BY <1>5, <2>1 DEF Return, CallInv, PolledTypes, Quiet, Served
  <2>4. \A e \in Polled : e # d => Quiet(e)'
    BY <1>5, <2>1 DEF Return, CallInv, PolledTypes, Quiet
  <2>5. result'.value = Reply(result'.dev, result'.arg) /\ call'.pc = "idle" /\ call'.dev = d
    BY <1>5, <2>1 DEF Return, Served, CallInv, PolledTypes
  <2> QED  BY <2>2, <2>3, <2>4, <2>5 DEF CallInv
<1>6. CASE ServeTick
  <2>1. CASE Serve(next_dev)
    BY <1>6, <2>1, ServeKeeps, SMTT(30) DEF ServeTick
  <2>2. CASE UNCHANGED pRings
    BY <1>6, <2>2 DEF ServeTick, pRings, CallInv, PolledTypes, Quiet, Waiting, Served
  <2> QED  BY <1>6, <2>1, <2>2, Zenon DEF ServeTick
<1>7. CASE UNCHANGED <<call, pRings, result>>
  BY <1>7, Zenon DEF pRings, CallInv, PolledTypes, Quiet, Waiting, Served
<1>8. ASSUME NEW x \in Inputs, virtio_rng_read(x) \/ virtio_cnt(x) PROVE CallInv'
  BY <1>2, <1>8 DEF virtio_rng_read, virtio_cnt, Polled
<1>9. CASE virtio_rng_init \/ virtio_cnt_init
  BY <1>1, <1>9 DEF virtio_rng_init, virtio_cnt_init, Polled
<1> QED
  BY <1>3, <1>4, <1>5, <1>6, <1>7, <1>8, <1>9, SMTT(30)
  DEF PolledNext, DriverStep, PolledTick, TickRest, PitPulse, polledVars

\* Whatever number of calls, of whatever lengths and numbers, at whatever point
\* of its round the tick thread is and however the indices wrap: a call returns the
\* answer to its own request and leaves no completion behind.
THEOREM AnswersAlwaysExact == PolledSpec => []AnswersExact
<1>1. CallInv => AnswersExact
  BY Zenon DEF CallInv, PolledTypes, AnswersExact, Quiet, At
<1> QED  BY PolledStart, PolledStep, <1>1, PTL DEF PolledSpec

-----------------------------------------------------------------------------
(* The levels on their way to line 0 *)

Level == [irq_line : {0}, value : BOOLEAN]
WayOf(l, a, b) ==
  [k \in 1 .. 1 + Len(a) + Len(b) |->
     IF k = 1 THEN l
     ELSE IF k <= 1 + Len(a) THEN a[k - 1].value ELSE b[k - 1 - Len(a)].value]
Way == WayOf(line[0], irqs, irq_commands)

\* The places where a sequence of levels rises
Rising(s) == {k \in 2 .. Len(s) : s[k] /\ ~s[k - 1]}

Ahead(b) == IF b THEN 1 ELSE 0

WayTypes ==
  /\ irqs \in Seq(Level) /\ irq_commands \in Seq(Level) /\ line \in [{0} -> BOOLEAN]
  /\ rises \in Nat /\ pulses \in Nat
  /\ tick_pc # "drain" => irqs = <<>>

\* Rises that have happened and those on their way are as many as the pulses, and
\* one more while the last level on its way is high: a device that left the line up
\* has paid for the rise the next pulse will not make.
HeardInv ==
  /\ WayTypes
  /\ rises + Cardinality(Rising(Way)) >= pulses + Ahead(Way[Len(Way)])

\* A queue of levels for a line holds Booleans.
LEMMA LevelsAre ==
  ASSUME NEW s \in Seq(Level)
  PROVE  Len(s) \in Nat /\ \A i \in 1 .. Len(s) : s[i] \in Level /\ s[i].value \in BOOLEAN
<1>1. Len(s) \in Nat /\ \A i \in 1 .. Len(s) : s[i] \in Level
  OBVIOUS
<1> QED  BY <1>1, Zenon DEF Level

\* The levels a line has still to go through: the present one and those queued.
LEMMA WayIsSeq ==
  ASSUME NEW l \in BOOLEAN, NEW a \in Seq(Level), NEW b \in Seq(Level)
  PROVE  /\ WayOf(l, a, b) \in Seq(BOOLEAN)
         /\ Len(WayOf(l, a, b)) = 1 + Len(a) + Len(b)
         /\ WayOf(l, a, b) # <<>>
<1> DEFINE n == 1 + Len(a) + Len(b)
<1>1. n \in Nat /\ n > 0
  OBVIOUS
<1>0. /\ \A i \in 1 .. Len(a) : a[i].value \in BOOLEAN
      /\ \A i \in 1 .. Len(b) : b[i].value \in BOOLEAN
      /\ Len(a) \in Nat /\ Len(b) \in Nat
  BY LevelsAre, Zenon
<1>2. \A k \in 1 .. n : WayOf(l, a, b)[k] \in BOOLEAN
  <2> TAKE k \in 1 .. n
  <2>1. k = 1 \/ (k > 1 /\ k <= 1 + Len(a) /\ k - 1 \in 1 .. Len(a))
              \/ (k > 1 + Len(a) /\ k - 1 - Len(a) \in 1 .. Len(b))
    BY <1>0
  <2> QED  BY <1>0, <2>1 DEF WayOf
<1>3. WayOf(l, a, b) \in [1 .. n -> BOOLEAN]
  BY <1>2, Zenon DEF WayOf
<1> HIDE DEF n
<1>4. WayOf(l, a, b) \in Seq(BOOLEAN) /\ Len(WayOf(l, a, b)) = n
  BY <1>1, <1>3
<1> QED  BY <1>1, <1>4 DEF n

\* A command more is a level more at the end, a delivery one less at the front, and
\* taking the batch moves none.
LEMMA WayAppend ==
  ASSUME NEW l \in BOOLEAN, NEW a \in Seq(Level), NEW b \in Seq(Level), NEW c \in Level
  PROVE  WayOf(l, a, Append(b, c)) = Append(WayOf(l, a, b), c.value)
<1> DEFINE s == WayOf(l, a, Append(b, c))
           t == Append(WayOf(l, a, b), c.value)
<1>1. /\ Append(b, c) \in Seq(Level) /\ Len(Append(b, c)) = Len(b) + 1
      /\ \A i \in 1 .. Len(b) : Append(b, c)[i] = b[i]
      /\ Append(b, c)[Len(b) + 1] = c /\ c.value \in BOOLEAN /\ Len(a) \in Nat /\ Len(b) \in Nat
  BY DEF Level
<1>2. s \in Seq(BOOLEAN) /\ Len(s) = 2 + Len(a) + Len(b)
  <2>1. s \in Seq(BOOLEAN) /\ Len(s) = 1 + Len(a) + Len(Append(b, c))
    BY <1>1, WayIsSeq, Zenon
  <2> HIDE DEF s
  <2> QED  BY <1>1, <2>1
<1>3. t \in Seq(BOOLEAN) /\ Len(t) = 2 + Len(a) + Len(b)
  <2>1. WayOf(l, a, b) \in Seq(BOOLEAN) /\ Len(WayOf(l, a, b)) = 1 + Len(a) + Len(b)
    BY WayIsSeq
  <2> QED  BY <1>1, <2>1
<1>4. ASSUME NEW k \in 1 .. 2 + Len(a) + Len(b) PROVE s[k] = t[k]
  <2>1. CASE k = 2 + Len(a) + Len(b)
    <3>1. s[k] = Append(b, c)[Len(b) + 1].value
      BY <1>1, <2>1 DEF WayOf
    <3>2. t[k] = c.value
      BY <1>1, <2>1, WayIsSeq
    <3> QED  BY <1>1, <3>1, <3>2
  <2>2. CASE k \in 1 .. 1 + Len(a) + Len(b)
    <3>1. t[k] = WayOf(l, a, b)[k]
      BY <1>1, <2>2, WayIsSeq
    <3>2. s[k] = WayOf(l, a, b)[k]
      BY <1>1, <2>2 DEF WayOf
    <3> QED  BY <3>1, <3>2
  <2> HIDE DEF s, t
  <2> QED  BY <1>1, <2>1, <2>2
<1> HIDE DEF s, t
<1>5. s = t
  BY <1>2, <1>3, <1>4, SeqsEqual
<1> QED  BY <1>5, Zenon DEF s, t

\* Delivering the first queued level takes the first step of the way.
LEMMA WayTail ==
  ASSUME NEW l \in BOOLEAN, NEW a \in Seq(Level), NEW b \in Seq(Level), a # <<>>
  PROVE  WayOf(Head(a).value, Tail(a), b) = Tail(WayOf(l, a, b))
<1> DEFINE w == WayOf(l, a, b)
           s == WayOf(Head(a).value, Tail(a), b)
           t == Tail(w)
<1>1. /\ Tail(a) \in Seq(Level) /\ Len(Tail(a)) = Len(a) - 1 /\ Len(a) \in Nat \ {0}
      /\ \A i \in 1 .. Len(a) - 1 : Tail(a)[i] = a[i + 1]
      /\ Head(a) = a[1] /\ Head(a).value \in BOOLEAN /\ Len(b) \in Nat
  BY LevelsAre
<1>2. s \in Seq(BOOLEAN) /\ Len(s) = Len(a) + Len(b)
  <2>1. s \in Seq(BOOLEAN) /\ Len(s) = 1 + Len(Tail(a)) + Len(b)
    BY <1>1, WayIsSeq, Zenon
  <2> HIDE DEF s
  <2> QED  BY <1>1, <2>1
<1>3. w \in Seq(BOOLEAN) /\ Len(w) = 1 + Len(a) + Len(b)
  BY <1>1, WayIsSeq
<1>4. /\ t \in Seq(BOOLEAN) /\ Len(t) = Len(a) + Len(b)
      /\ \A k \in 1 .. Len(a) + Len(b) : t[k] = w[k + 1]
  <2> HIDE DEF w
  <2>1. w # <<>> /\ Len(a) \in Nat /\ Len(b) \in Nat
    BY <1>1, <1>3
  <2> QED  BY <1>3, <2>1
<1>5. ASSUME NEW k \in 1 .. Len(a) + Len(b) PROVE s[k] = w[k + 1]
  BY <1>1 DEF WayOf
<1> HIDE DEF s, t, w
<1>6. s = t
  BY <1>2, <1>4, <1>5, SeqsEqual, Zenon
<1> QED  BY <1>6 DEF s, t, w

\* Taking the queue over for delivery does not change the way.
LEMMA WayTaken ==
  ASSUME NEW l \in BOOLEAN, NEW b \in Seq(Level)
  PROVE  WayOf(l, b, <<>>) = WayOf(l, <<>>, b)
<1>1. Len(b) \in Nat /\ 1 + Len(b) + Len(<<>>) = 1 + Len(<<>>) + Len(b)
  OBVIOUS
<1>2. \A k \in 1 .. 1 + Len(b) + Len(<<>>) : WayOf(l, b, <<>>)[k] = WayOf(l, <<>>, b)[k]
  BY <1>1 DEF WayOf
<1> QED  BY <1>1, <1>2, Zenon DEF WayOf

\* The rising edges still to come can be counted.
LEMMA RisingFinite ==
  ASSUME NEW s \in Seq(BOOLEAN)
  PROVE  IsFiniteSet(Rising(s)) /\ Cardinality(Rising(s)) \in Nat
<1>1. IsFiniteSet(2 .. Len(s)) /\ Rising(s) \subseteq 2 .. Len(s)
  BY FS_Interval DEF Rising
<1> QED  BY <1>1, FS_Subset, FS_CardinalityType

\* A level more at the end is a rise more if it is high after a low one.
LEMMA RisingAppend ==
  ASSUME NEW s \in Seq(BOOLEAN), s # <<>>, NEW v \in BOOLEAN
  PROVE  Cardinality(Rising(Append(s, v)))
           = Cardinality(Rising(s)) + Ahead(v /\ ~s[Len(s)])
<1>1. Len(s) \in Nat \ {0} /\ Len(Append(s, v)) = Len(s) + 1
  OBVIOUS
<1>2. \A k \in 1 .. Len(s) : Append(s, v)[k] = s[k]
  OBVIOUS
<1>3. Append(s, v)[Len(s) + 1] = v
  OBVIOUS
<1>4. CASE v /\ ~s[Len(s)]
  <2>1. Rising(Append(s, v)) = Rising(s) \cup {Len(s) + 1}
    BY <1>1, <1>2, <1>3, <1>4 DEF Rising
  <2>2. Len(s) + 1 \notin Rising(s)
    BY <1>1 DEF Rising
  <2> QED  BY <1>4, <2>1, <2>2, RisingFinite, FS_AddElement, Zenon DEF Ahead
<1>5. CASE ~(v /\ ~s[Len(s)])
  <2>1. Rising(Append(s, v)) = Rising(s)
    BY <1>1, <1>2, <1>3, <1>5 DEF Rising
  <2> QED  BY <1>5, <2>1, RisingFinite DEF Ahead
<1> QED  BY <1>4, <1>5

\* The first level gone, all rises are one place nearer, and the first may be over.
LEMMA RisingTail ==
  ASSUME NEW s \in Seq(BOOLEAN), Len(s) > 1
  PROVE  Cardinality(Rising(s)) = Cardinality(Rising(Tail(s))) + Ahead(s[2] /\ ~s[1])
<1>1. Tail(s) \in Seq(BOOLEAN) /\ Len(Tail(s)) = Len(s) - 1 /\ Len(s) \in Nat
  OBVIOUS
<1>2. \A k \in 1 .. Len(s) - 1 : Tail(s)[k] = s[k + 1]
  OBVIOUS
<1> DEFINE R == Rising(s) \ {2}
           f == [k \in Rising(Tail(s)) |-> k + 1]
<1>3. f \in Bijection(Rising(Tail(s)), R)
  <2>1. \A k \in Rising(Tail(s)) : k \in 2 .. Len(s) - 1 /\ k + 1 \in R
    BY <1>1, <1>2 DEF Rising
  <2>2. \A k \in R : k \in 3 .. Len(s) /\ k - 1 \in Rising(Tail(s))
    BY <1>1, <1>2 DEF Rising
  <2>3. f \in [Rising(Tail(s)) -> R]
    BY <2>1
  <2>4. \A a, b \in Rising(Tail(s)) : f[a] = f[b] => a = b
    BY <2>1
  <2>5. \A k \in R : \E a \in Rising(Tail(s)) : f[a] = k
    BY <2>2
  <2> HIDE DEF f, R
  <2> QED  BY <2>3, <2>4, <2>5, IsBijection
<1>4. Cardinality(R) = Cardinality(Rising(Tail(s)))
  <2>1. ExistsBijection(Rising(Tail(s)), R)
    BY <1>3, Zenon DEF ExistsBijection
  <2> QED  BY <1>1, <2>1, RisingFinite, FS_Bijection, Zenon
<1>5. CASE s[2] /\ ~s[1]
  <2>1. 2 \in Rising(s)
    BY <1>1, <1>5 DEF Rising
  <2>2. Cardinality(R) = Cardinality(Rising(s)) - 1
    BY <2>1, RisingFinite, FS_RemoveElement, Zenon
  <2> QED  BY <1>1, <1>4, <1>5, <2>2, RisingFinite DEF Ahead
<1>6. CASE ~(s[2] /\ ~s[1])
  <2>1. R = Rising(s)
    BY <1>6 DEF Rising
  <2> HIDE DEF R
  <2> QED  BY <1>1, <1>4, <1>6, <2>1, RisingFinite, SMTT(30) DEF Ahead
<1> QED  BY <1>5, <1>6

HeardBalance(s, r, p) == r + Cardinality(Rising(s)) >= p + Ahead(s[Len(s)])

\* A level queued at the end keeps the balance of edges; a high one adds an edge owed.
LEMMA HeardAppend ==
  ASSUME NEW s \in Seq(BOOLEAN), s # <<>>, NEW r \in Nat, NEW p \in Nat, NEW v \in BOOLEAN,
         HeardBalance(s, r, p)
  PROVE  /\ Append(s, v) \in Seq(BOOLEAN) /\ Append(s, v) # <<>>
         /\ HeardBalance(Append(s, v), r, p)
         /\ v => r + Cardinality(Rising(Append(s, v))) >= p + 1
<1>1. /\ Append(s, v) \in Seq(BOOLEAN) /\ Append(s, v) # <<>>
      /\ Append(s, v)[Len(Append(s, v))] = v /\ s[Len(s)] \in BOOLEAN
  OBVIOUS
<1>2. Cardinality(Rising(Append(s, v))) = Cardinality(Rising(s)) + Ahead(v /\ ~s[Len(s)])
  BY RisingAppend, Zenon
<1>3. Cardinality(Rising(s)) \in Nat
  BY RisingFinite
<1> QED  BY <1>1, <1>2, <1>3 DEF HeardBalance, Ahead

\* A level delivered moves its edge, if it is one, to the edges heard.
LEMMA HeardTail ==
  ASSUME NEW s \in Seq(BOOLEAN), Len(s) > 1, NEW r \in Nat, NEW p \in Nat,
         HeardBalance(s, r, p)
  PROVE  HeardBalance(Tail(s), IF s[2] /\ ~s[1] THEN r + 1 ELSE r, p)
<1>1. Tail(s) \in Seq(BOOLEAN) /\ Tail(s)[Len(Tail(s))] = s[Len(s)]
  OBVIOUS
<1>2. Cardinality(Rising(s)) = Cardinality(Rising(Tail(s))) + Ahead(s[2] /\ ~s[1])
  BY RisingTail
<1>3. Cardinality(Rising(Tail(s))) \in Nat
  BY <1>1, RisingFinite, Zenon
<1> QED  BY <1>1, <1>2, <1>3 DEF HeardBalance, Ahead

\* The balance of edges holds at the start.
LEMMA HeardStart == PolledInit => HeardInv
<1> HAVE PolledInit
<1>1. WayTypes /\ irqs = <<>> /\ irq_commands = <<>> /\ line[0] = FALSE /\ rises = 0 /\ pulses = 0
  BY DEF PolledInit, PolledFrom, T!Init, WayTypes
<1>2. Way \in Seq(BOOLEAN) /\ Len(Way) = 1 /\ Way[1] = FALSE
  <2>1. Way \in Seq(BOOLEAN) /\ Len(Way) = 1 + Len(irqs) + Len(irq_commands)
    BY <1>1, WayIsSeq, Zenon DEF Way, WayTypes
  <2>2. Len(Way) = 1
    BY <1>1, <2>1
  <2> QED  BY <1>1, <2>1, <2>2 DEF Way, WayOf
<1>3. Cardinality(Rising(Way)) \in Nat
  BY <1>2, RisingFinite
<1> QED  BY <1>1, <1>2, <1>3, SMTT(30) DEF HeardInv, Ahead

\* Every step keeps the balance between timer pulses and edges heard.
LEMMA HeardStep == HeardInv /\ CallInv /\ [PolledNext]_polledVars => HeardInv'
<1> SUFFICES ASSUME HeardInv, CallInv, [PolledNext]_polledVars PROVE HeardInv'
  BY Zenon
<1>1. /\ line[0] \in BOOLEAN /\ irqs \in Seq(Level) /\ irq_commands \in Seq(Level)
      /\ rises \in Nat /\ pulses \in Nat
  BY Zenon DEF HeardInv, WayTypes
<1>2. Way \in Seq(BOOLEAN) /\ Way # <<>> /\ Len(Way) = 1 + Len(irqs) + Len(irq_commands)
  BY <1>1, WayIsSeq DEF Way
<1>3. HeardBalance(Way, rises, pulses)
  BY Zenon DEF HeardInv, HeardBalance
<1>4. ASSUME WayTypes', HeardBalance(Way', rises', pulses') PROVE HeardInv'
  BY <1>4 DEF HeardInv, HeardBalance
<1>5. ASSUME UNCHANGED <<irqs, line, rises, pulses>>, irqs' = <<>> \/ tick_pc' = "drain",
             \/ UNCHANGED irq_commands
             \/ \E v \in BOOLEAN : irq_commands' = Append(irq_commands, [irq_line |-> 0, value |-> v])
      PROVE  HeardInv'
  <2>1. CASE UNCHANGED irq_commands
    <3>1. WayTypes' /\ Way' = Way
      BY <1>5, <2>1 DEF HeardInv, WayTypes, Way
    <3> QED  BY <1>3, <1>4, <1>5, <3>1, SMTT(30)
  <2>2. ASSUME NEW v \in BOOLEAN, irq_commands' = Append(irq_commands, [irq_line |-> 0, value |-> v])
        PROVE  HeardInv'
    <3>1. [irq_line |-> 0, value |-> v] \in Level
      BY Zenon DEF Level
    <3>2. WayTypes'
      BY <1>1, <1>5, <2>2, <3>1 DEF HeardInv, WayTypes
    <3>3. Way' = Append(Way, v)
      BY <1>1, <1>5, <2>2, <3>1, WayAppend, Zenon DEF Way
    <3> QED  BY <1>1, <1>2, <1>3, <1>4, <1>5, <3>2, <3>3, HeardAppend, SMTT(30)
  <2> QED  BY <1>5, <2>1, <2>2, Zenon
<1>6. irqs = <<>> \/ tick_pc = "drain"
  BY Zenon DEF HeardInv, WayTypes
<1>7. ASSUME NEW next, InitSteps(next) PROVE HeardInv'
  <2>1. call.dev \in Polled
    BY Zenon  DEF CallInv, PolledTypes
  <2>2. /\ UNCHANGED <<irqs, line, rises, pulses, tick_pc>>
        /\ \/ UNCHANGED irq_commands
           \/ irq_commands' = Append(irq_commands, [irq_line |-> 0, value |-> FALSE])
    BY <1>7, <2>1, Zenon DEF InitSteps, T!WriteStatus, T!WriteQueueReady, T!set_irq_line,
                      T!trigger_irq, T!tickVars
  <2> QED  BY <1>5, <1>6, <2>2, Zenon
<1>8. CASE Notify
  <2>1. call.dev \in Polled
    BY Zenon DEF CallInv, PolledTypes
  <2>2. /\ UNCHANGED <<irqs, line, rises, pulses, tick_pc>>
        /\ \/ UNCHANGED irq_commands
           \/ irq_commands' = Append(irq_commands, [irq_line |-> 0, value |-> TRUE])
    <3>1. T!WriteQueueNotify(call.dev, 0, Pending(call.dev) > 0) /\ UNCHANGED <<rises, pulses>>
      BY <1>8, Zenon DEF Notify
    <3>2. ASSUME NEW w PROVE T!WriteQueueNotify(call.dev, 0, w) =>
             /\ UNCHANGED <<irqs, line, tick_pc>>
             /\ \/ UNCHANGED irq_commands
                \/ irq_commands' = Append(irq_commands, [irq_line |-> 0, value |-> TRUE])
      BY <2>1, Zenon DEF T!WriteQueueNotify, T!set_irq_line, T!trigger_irq, T!tickVars
    <3> QED  BY <3>1, <3>2
  <2> QED  BY <1>5, <1>6, <2>2, Zenon
<1>9. CASE ServeTick
  <2>1. next_dev \in Polled /\ UNCHANGED <<rises, pulses>> /\ \E w \in BOOLEAN : T!TickDevice(w)
    <3>1. T!TickDevice(Pending(next_dev) > 0) \/ T!TickDevice(FALSE)
      BY <1>9, Zenon DEF ServeTick
    <3>2. (Pending(next_dev) > 0) \in BOOLEAN
      OBVIOUS
    <3> QED  BY <1>9, <3>1, <3>2, Zenon DEF ServeTick
  <2>2. /\ UNCHANGED <<irqs, line, rises, pulses, tick_pc>>
        /\ \/ UNCHANGED irq_commands
           \/ irq_commands' = Append(irq_commands, [irq_line |-> 0, value |-> TRUE])
    BY <2>1, Zenon DEF T!TickDevice, T!set_irq_line, T!trigger_irq
  <2> QED  BY <1>5, <1>6, <2>2, Zenon
<1>10. CASE UNCHANGED <<pTransport, pulses, rises>>
  BY <1>5, <1>6, <1>10 DEF pTransport
<1>11. CASE PitPulse
  <2> DEFINE up == [irq_line |-> 0, value |-> TRUE]
             down == [irq_line |-> 0, value |-> FALSE]
  <2>1. up \in Level /\ down \in Level
    BY Zenon DEF Level
  <2>2. irq_commands' = Append(Append(irq_commands, up), down)
    <3> HIDE DEF up, down
    <3>1. irq_commands \o <<up, down>> = Append(Append(irq_commands, up), down)
      BY <1>1, <2>1
    <3> QED  BY <1>11, <3>1 DEF PitPulse, up, down
  <2>3. UNCHANGED <<irqs, line, rises, tick_pc>> /\ pulses' = pulses + 1
    BY <1>11 DEF PitPulse
  <2>4. WayTypes'
    <3> HIDE DEF up, down
    <3> QED  BY <1>1, <2>1, <2>2, <2>3 DEF HeardInv, WayTypes
  <2>5. Way' = Append(Append(Way, TRUE), FALSE)
    <3>1. WayOf(line[0], irqs, Append(irq_commands, up)) = Append(Way, up.value)
      BY <1>1, <2>1, WayAppend, Zenon DEF Way
    <3>2. Append(irq_commands, up) \in Seq(Level)
      BY <1>1, <2>1
    <3>3. WayOf(line[0], irqs, Append(Append(irq_commands, up), down))
            = Append(WayOf(line[0], irqs, Append(irq_commands, up)), down.value)
      BY <1>1, <2>1, <3>2, WayAppend, ZenonT(30)
    <3> QED  BY <2>2, <2>3, <3>1, <3>3, Zenon DEF Way
  <2> DEFINE u == Append(Way, TRUE)
             r == Cardinality(Rising(u))
  <2>6. u \in Seq(BOOLEAN) /\ u # <<>> /\ rises + r >= pulses + 1
    BY <1>1, <1>2, <1>3, HeardAppend, Zenon
  <2>7. u[Len(u)] = TRUE
    BY <1>2
  <2> HIDE DEF u
  <2>8. r \in Nat /\ Append(u, FALSE)[Len(Append(u, FALSE))] = FALSE
    BY <2>6, RisingFinite
  <2>9. Cardinality(Rising(Append(u, FALSE))) = r + 0
    BY <2>6, RisingAppend, Zenon DEF Ahead
  <2>10. HeardBalance(Append(u, FALSE), rises, pulses + 1)
    <3>1. Ahead(Append(u, FALSE)[Len(Append(u, FALSE))]) = 0
      BY <2>8 DEF Ahead
    <3> DEFINE z == Append(u, FALSE)
    <3>2. /\ Cardinality(Rising(z)) = r + 0 /\ Ahead(z[Len(z)]) = 0
          /\ r \in Nat /\ rises + r >= pulses + 1
      BY <2>6, <2>8, <2>9, <3>1, Zenon
    <3>3. rises \in Nat /\ pulses \in Nat
      BY <1>1
    <3> HIDE DEF r, z
    <3>4. HeardBalance(z, rises, pulses + 1)
      BY <3>2, <3>3 DEF HeardBalance
    <3> QED  BY <3>4, Zenon DEF z
  <2> QED  BY <1>4, <2>3, <2>4, <2>5, <2>10 DEF u
<1>12. CASE TickRest
  <2>1. CASE T!TickLock \/ T!TickUnlock \/ T!TickSleep
    <3>1. UNCHANGED <<irqs, line, irq_commands>> /\ (irqs = <<>> \/ tick_pc' = "drain")
      <4>1. CASE T!TickLock  BY <1>6, <2>1, <4>1 DEF T!TickLock
      <4>2. CASE T!TickUnlock  BY <1>6, <2>1, <4>2 DEF T!TickUnlock
      <4>3. CASE T!TickSleep  BY <1>6, <2>1, <4>3 DEF T!TickSleep
      <4> QED  BY <2>1, <4>1, <4>2, <4>3
    <3>2. UNCHANGED <<rises, pulses>>
      BY <1>12, <3>1 DEF TickRest
    <3> QED  BY <1>5, <3>1, <3>2
  <2>2. CASE T!TakeCommands
    <3>1. /\ irqs = <<>> /\ irqs' = irq_commands /\ irq_commands' = <<>>
          /\ UNCHANGED <<line, rises, pulses>> /\ tick_pc' = "drain"
      BY <1>12, <2>2 DEF TickRest, T!TakeCommands, HeardInv, WayTypes
    <3>2. WayTypes'
      BY <1>1, <3>1 DEF HeardInv, WayTypes
    <3>3. Way' = Way
      BY <1>1, <3>1, WayTaken DEF Way
    <3> QED  BY <1>3, <1>4, <3>1, <3>2, <3>3, SMTT(30)
  <2>3. CASE T!Deliver
    <3>1. /\ tick_pc = "drain" /\ tick_pc' = "drain" /\ irqs # <<>> /\ irqs' = Tail(irqs)
          /\ line' = [line EXCEPT ![Head(irqs).irq_line] = Head(irqs).value]
          /\ UNCHANGED <<irq_commands, pulses>>
          /\ rises' = IF line'[0] /\ ~line[0] THEN rises + 1 ELSE rises
      BY <1>12, <2>3 DEF TickRest, T!Deliver
    <3>2. Head(irqs) = irqs[1] /\ irqs[1] \in Level /\ Len(irqs) > 0 /\ Len(irq_commands) \in Nat
          /\ Len(irqs) \in Nat
      BY <1>1, <3>1
    <3>3. irqs[1].irq_line = 0 /\ irqs[1].value \in BOOLEAN
      BY <3>2 DEF Level
    <3>4. line' \in [{0} -> BOOLEAN] /\ line'[0] = irqs[1].value
      BY <3>1, <3>2, <3>3, SMTT(30) DEF HeardInv, WayTypes
    <3>5. WayTypes'
      BY <1>1, <3>1, <3>4, SMTT(30) DEF HeardInv, WayTypes
    <3>6. Way' = Tail(Way)
      BY <1>1, <3>1, <3>2, <3>4, WayTail, SMTT(30) DEF Way
    <3>7. Way[1] = line[0] /\ Way[2] = irqs[1].value /\ Len(Way) > 1
      BY <1>2, <3>2 DEF Way, WayOf
    <3>8. rises' = IF Way[2] /\ ~Way[1] THEN rises + 1 ELSE rises
      BY <3>1, <3>4, <3>7, SMTT(30)
    <3>9. HeardBalance(Tail(Way), rises', pulses)
      BY <1>1, <1>2, <1>3, <3>7, <3>8, HeardTail, SMTT(30)
    <3> QED  BY <1>4, <3>1, <3>5, <3>6, <3>9, SMTT(30)
  <2> QED  BY <1>12, <2>1, <2>2, <2>3, SMTT(30) DEF TickRest
<1>13. ASSUME NEW x \in Inputs, virtio_rng_read(x) \/ virtio_cnt(x) PROVE HeardInv'
  BY <1>10, <1>13 DEF virtio_rng_read, virtio_cnt, StartCall
<1>14. CASE virtio_rng_init \/ virtio_cnt_init
  BY <1>7, <1>14, SMTT(30) DEF virtio_rng_init, virtio_cnt_init
<1>15. CASE Publish \/ Return \/ UNCHANGED polledVars
  BY <1>10, <1>15 DEF Publish, Return, polledVars
<1> QED
  BY <1>8, <1>9, <1>11, <1>12, <1>13, <1>14, <1>15, SMTT(30) DEF PolledNext, DriverStep, PolledTick

\* The two devices leave line 0 high and never lower it, and the PIT's pulses share
\* the line and the queue of commands with them; for every interleaving, once all
\* commands are delivered the line has risen at least once for each pulse.
THEOREM TimerAlwaysHeard == PolledSpec => []TimerHeard
<1>1. HeardInv => TimerHeard
  <2> SUFFICES ASSUME HeardInv, irq_commands = <<>>, irqs = <<>> PROVE rises >= pulses
    BY Zenon DEF TimerHeard
  <2>1. /\ line[0] \in BOOLEAN /\ irqs \in Seq(Level) /\ irq_commands \in Seq(Level)
        /\ rises \in Nat /\ pulses \in Nat
    BY Zenon DEF HeardInv, WayTypes
  <2>2. Way \in Seq(BOOLEAN) /\ Len(Way) = 1 + Len(irqs) + Len(irq_commands)
    BY <2>1, WayIsSeq, Zenon DEF Way
  <2>3. Len(Way) = 1
    BY <2>2
  <2>4. Rising(Way) = {}
    BY <2>3 DEF Rising
  <2> QED  BY <2>1, <2>4, FS_EmptySet DEF HeardInv, Ahead
<1> QED  BY PolledStart, PolledStep, HeardStart, HeardStep, <1>1, PTL DEF PolledSpec

-----------------------------------------------------------------------------
(***************************************************************************)
(* Gpu: no dangling scanout, no page read after the guest took it back, no *)
(* pixels handed from one life of an id to the next. The three hold        *)
(* together with two facts: a resource that is gone has neither backing    *)
(* nor pixels, and the backing of a live one was attached in its present   *)
(* life.                                                                   *)
(***************************************************************************)

Types ==
  /\ resources \in [Ids -> Resource]
  /\ scanouts \in [Scanouts -> Ids \cup {None}]
  /\ reply \in Replies
  /\ lent \in [Ids -> SUBSET Pages] /\ own \in [Ids -> SUBSET Pages]

GoneIsGone == \A i \in Ids : ~Live(i) => resources[i] = Gone

BackingOwn ==
  \A i \in Ids : resources[i].backing # "none" => resources[i].backing \in own[i]

IInv == Types /\ GoneIsGone /\ ScanoutsLive /\ PagesLent /\ BackingOwn /\ PixelsOwn

-----------------------------------------------------------------------------
\* A resource that is gone and one just created are resources.
LEMMA GoneTyped == Gone \in Resource /\ Fresh \in Resource
BY Zenon DEF Gone, Fresh, Resource

\* The invariant of the graphics device holds at the start.
LEMMA InitIInv == Init => IInv
<1> SUFFICES ASSUME Init PROVE IInv
  BY Zenon
<1>1. \A i \in Ids : resources[i] = Gone
  BY Zenon DEF Init
<1>2. Types
  BY GoneTyped DEF Init, Types, Replies
<1>3. GoneIsGone
  BY <1>1, Zenon DEF GoneIsGone
<1>4. ScanoutsLive
  BY Zenon DEF Init, ScanoutsLive
<1>5. PagesLent /\ BackingOwn /\ PixelsOwn
  BY <1>1 DEF PagesLent, BackingOwn, PixelsOwn, Gone
<1> QED
  BY <1>2, <1>3, <1>4, <1>5 DEF IInv

\* A refused command leaves all but the answer alone.
LEMMA RefusedStep ==
  ASSUME IInv, NEW r \in Replies, NEW fits \in BOOLEAN, Refused(r, fits)
  PROVE  IInv'
<1>1. reply' \in Replies
  BY DEF Refused, Answer, Replies
<1> QED
  BY <1>1, Zenon DEF IInv, Refused, Types, GoneIsGone, ScanoutsLive, PagesLent, BackingOwn, PixelsOwn, Live

\* A command that replaces resource i, keeps it as live as it was or makes it
\* live, and keeps what the histories say of it true.
LEMMA UpdateStep ==
  ASSUME IInv, NEW i \in Ids, NEW r \in Resource,
         resources' = [resources EXCEPT ![i] = r],
         r.live \/ r = Gone, Live(i) => r.live,
         reply' \in Replies, UNCHANGED scanouts,
         lent' \in [Ids -> SUBSET Pages], own' \in [Ids -> SUBSET Pages],
         \A j \in Ids \ {i} : lent'[j] = lent[j] /\ own'[j] = own[j],
         r.backing # "none" => r.backing \in lent'[i] \cap own'[i],
         r.pixels \subseteq own'[i]
  PROVE  IInv'
<1>1. \A j \in Ids : resources'[j] = IF j = i THEN r ELSE resources[j]
  BY Zenon DEF IInv, Types
<1>2. Types'
  BY Zenon DEF IInv, Types
<1>3. GoneIsGone'
  BY <1>1, SMTT(30) DEF IInv, GoneIsGone, Live
<1>4. ScanoutsLive'
  BY <1>1, GpuAssumption DEF IInv, Types, ScanoutsLive, Live
<1>5. PagesLent'
  BY <1>1, SMTT(30) DEF IInv, PagesLent
<1>6. BackingOwn' /\ PixelsOwn'
  BY <1>1 DEF IInv, BackingOwn, PixelsOwn
<1> QED
  BY <1>2, <1>3, <1>4, <1>5, <1>6, SMTT(30) DEF IInv

\* RESOURCE_CREATE_2D keeps the invariant, refused or not.
LEMMA CreateStep ==
  ASSUME IInv, NEW i \in Ids, NEW good \in BOOLEAN, NEW fits \in BOOLEAN,
         ResourceCreate2D(i, good, fits)
  PROVE  IInv'
<1>1. CASE Refused("ERR_INVALID_RESOURCE_ID", fits) \/ Refused("ERR_INVALID_ARGUMENT", fits)
  BY <1>1, RefusedStep DEF Replies
<1>2. CASE ~Live(i) /\ resources' = [resources EXCEPT ![i] = Fresh]
           /\ Answer("OK_NODATA", fits) /\ UNCHANGED <<scanouts, lent, own>>
  <2>1. reply' \in Replies
    BY <1>2, Zenon DEF Answer, Replies
  <2>2. Fresh.live /\ Fresh.backing = "none" /\ Fresh.pixels = {}
    BY Zenon DEF Fresh, Gone
  <2>3. lent' \in [Ids -> SUBSET Pages] /\ own' \in [Ids -> SUBSET Pages]
    BY <1>2, Zenon DEF IInv, Types
  <2> QED
    BY <1>2, <2>1, <2>2, <2>3, GoneTyped, UpdateStep, Zenon
<1> QED
  BY <1>1, <1>2 DEF ResourceCreate2D

\* RESOURCE_UNREF keeps it: the scanouts showing the resource are cleared with it.
LEMMA UnrefStep ==
  ASSUME IInv, NEW i \in Ids, NEW fits \in BOOLEAN, ResourceUnref(i, fits)
  PROVE  IInv'
<1>1. \A j \in Ids : resources'[j] = IF j = i THEN Gone ELSE resources[j]
  BY Zenon DEF ResourceUnref, IInv, Types
<1>2. \A j \in Ids : j # i => lent'[j] = lent[j] /\ own'[j] = own[j]
  BY DEF ResourceUnref, TakenBack, IInv, Types
<1>3. Gone.backing = "none" /\ Gone.pixels = {}
  BY DEF Gone
<1>4. Types'
  <2>1. reply' \in Replies
    BY Zenon DEF ResourceUnref, Answer, Replies
  <2>2. resources' \in [Ids -> Resource]
    BY GoneTyped DEF ResourceUnref, IInv, Types
  <2>3. scanouts' \in [Scanouts -> Ids \cup {None}]
    BY Zenon DEF ResourceUnref, IInv, Types
  <2>4. lent' \in [Ids -> SUBSET Pages] /\ own' \in [Ids -> SUBSET Pages]
    BY Zenon DEF ResourceUnref, TakenBack, IInv, Types
  <2> QED
    BY <2>1, <2>2, <2>3, <2>4 DEF Types
<1>5. GoneIsGone'
  BY <1>1 DEF IInv, GoneIsGone, Live
<1>6. ScanoutsLive'
  BY <1>1, GpuAssumption, SMTT(30) DEF IInv, Types, ScanoutsLive, Live, ResourceUnref
<1>7. PagesLent' /\ BackingOwn' /\ PixelsOwn'
  BY <1>1, <1>2, <1>3, SMTT(30) DEF IInv, PagesLent, BackingOwn, PixelsOwn
<1> QED
  BY <1>4, <1>5, <1>6, <1>7 DEF IInv

\* SET_SCANOUT keeps it: only a live resource is shown.
LEMMA SetScanoutStep ==
  ASSUME IInv, NEW s \in Scanouts, NEW i \in Ids, NEW fits \in BOOLEAN,
         SetScanout(s, i, fits)
  PROVE  IInv'
<1>1. CASE UnknownResource(i, fits)
  BY <1>1, RefusedStep, SMTT(30) DEF UnknownResource, Replies
<1>2. CASE /\ i = 0 \/ Live(i)
           /\ scanouts' = [scanouts EXCEPT ![s] = IF i = 0 THEN None ELSE i]
           /\ Answer("OK_NODATA", fits)
           /\ UNCHANGED <<resources, lent, own>>
  <2>1. reply' \in Replies
    BY <1>2, SMTT(30) DEF Answer, Replies
  <2>2. Types'
    BY <1>2, <2>1, SMTT(30) DEF IInv, Types
  <2>3. ScanoutsLive'
    BY <1>2 DEF IInv, Types, ScanoutsLive, Live
  <2> QED
    BY <1>2, <2>2, <2>3 DEF IInv, GoneIsGone, PagesLent, BackingOwn, PixelsOwn, Live
<1> QED
  BY <1>1, <1>2 DEF SetScanout

\* TRANSFER_TO_HOST_2D keeps it: pixels come from the pages attached.
LEMMA TransferStep ==
  ASSUME IInv, NEW i \in Ids, NEW inside \in BOOLEAN, NEW whole \in BOOLEAN,
         NEW fits \in BOOLEAN, TransferToHost2D(i, inside, whole, fits)
  PROVE  IInv'
<1>1. CASE UnknownResource(i, fits) \/ Refused("ERR_INVALID_ARGUMENT", fits)
  BY <1>1, RefusedStep DEF UnknownResource, Replies
<1>2. CASE ~(UnknownResource(i, fits) \/ Refused("ERR_INVALID_ARGUMENT", fits))
  <2> DEFINE px == (IF whole THEN {} ELSE resources[i].pixels) \cup ({resources[i].backing} \ {"none"})
             r == [resources[i] EXCEPT !.pixels = px]
  <2>1. /\ Live(i) /\ resources' = [resources EXCEPT ![i] = r]
        /\ Answer("OK_NODATA", fits) /\ UNCHANGED <<scanouts, lent, own>>
    BY <1>2 DEF TransferToHost2D, IInv, Types, Resource
  <2>2. reply' \in Replies
    BY <2>1 DEF Answer, Replies
  <2>3. resources[i] \in Resource
    BY Zenon DEF IInv, Types
  <2>4. r \in Resource /\ r.live /\ r.backing = resources[i].backing /\ r.pixels = px
    BY <2>1, <2>3 DEF Resource, Live
  <2>5. lent' \in [Ids -> SUBSET Pages] /\ own' \in [Ids -> SUBSET Pages]
    BY <2>1 DEF IInv, Types
  <2>6. r.backing # "none" => r.backing \in lent'[i] \cap own'[i]
    BY <2>1, <2>4 DEF IInv, PagesLent, BackingOwn
  <2>7. r.pixels \subseteq own'[i]
    BY <2>1, <2>4, <2>6 DEF IInv, PixelsOwn
  <2> HIDE DEF px, r
  <2> QED
    BY <2>1, <2>2, <2>4, <2>5, <2>6, <2>7, UpdateStep, Zenon
<1> QED
  BY <1>1, <1>2

\* RESOURCE_ATTACH_BACKING keeps it.
LEMMA AttachStep ==
  ASSUME IInv, NEW i \in Ids, NEW p \in Pages, NEW fits \in BOOLEAN,
         ResourceAttachBacking(i, p, fits)
  PROVE  IInv'
<1> DEFINE r == IF Live(i) THEN [resources[i] EXCEPT !.backing = p] ELSE Gone
<1>1. reply' \in Replies /\ UNCHANGED scanouts
  BY DEF ResourceAttachBacking, Answer, Replies
<1>2. resources[i] \in Resource /\ (~Live(i) => resources[i] = Gone)
  BY Zenon DEF IInv, Types, GoneIsGone
<1>3. resources' = [resources EXCEPT ![i] = r]
  BY <1>2 DEF ResourceAttachBacking, IInv, Types, Resource
<1>4. r \in Resource /\ (r.live \/ r = Gone) /\ (Live(i) => r.live)
  BY <1>2, GoneTyped DEF Resource, Live
<1>5. lent' \in [Ids -> SUBSET Pages] /\ own' \in [Ids -> SUBSET Pages]
  BY DEF ResourceAttachBacking, IInv, Types
<1>6. \A j \in Ids \ {i} : lent'[j] = lent[j] /\ own'[j] = own[j]
  BY Zenon DEF ResourceAttachBacking, IInv, Types
<1>7. CASE Live(i)
  <2>1. r.backing = p /\ r.pixels = resources[i].pixels
    BY <1>2, <1>7 DEF Resource
  <2>2. p \in lent'[i] /\ p \in own'[i] /\ own[i] \subseteq own'[i]
    BY <1>7 DEF ResourceAttachBacking, IInv, Types
  <2>3. r.pixels \subseteq own'[i]
    BY <2>1, <2>2 DEF IInv, PixelsOwn
  <2> HIDE DEF r
  <2> QED
    BY <1>1, <1>3, <1>4, <1>5, <1>6, <2>1, <2>2, <2>3, UpdateStep, Zenon
<1>8. CASE ~Live(i)
  <2>1. r.backing = "none" /\ r.pixels = {}
    BY <1>8 DEF Gone
  <2> HIDE DEF r
  <2> QED
    BY <1>1, <1>3, <1>4, <1>5, <1>6, <2>1, UpdateStep, Zenon
<1> QED
  BY <1>7, <1>8

\* RESOURCE_DETACH_BACKING keeps it.
LEMMA DetachStep ==
  ASSUME IInv, NEW i \in Ids, NEW fits \in BOOLEAN, ResourceDetachBacking(i, fits)
  PROVE  IInv'
<1>1. CASE UnknownResource(i, fits)
  BY <1>1, RefusedStep DEF UnknownResource, Replies
<1>2. CASE ~UnknownResource(i, fits)
  <2> DEFINE r == [resources[i] EXCEPT !.backing = "none"]
  <2>1. /\ Live(i) /\ resources' = [resources EXCEPT ![i] = r]
        /\ Answer("OK_NODATA", fits) /\ TakenBack(i, fits)
        /\ UNCHANGED <<scanouts, own>>
    BY <1>2 DEF ResourceDetachBacking, IInv, Types, Resource
  <2>2. reply' \in Replies
    BY <2>1 DEF Answer, Replies
  <2>3. resources[i] \in Resource
    BY DEF IInv, Types
  <2>4. r \in Resource /\ r.live /\ r.backing = "none" /\ r.pixels = resources[i].pixels
    BY <2>1, <2>3 DEF Resource, Live
  <2>5. lent' \in [Ids -> SUBSET Pages] /\ own' \in [Ids -> SUBSET Pages]
    BY <2>1 DEF IInv, Types, TakenBack
  <2>6. \A j \in Ids \ {i} : lent'[j] = lent[j]
    BY <2>1 DEF IInv, Types, TakenBack
  <2>7. r.pixels \subseteq own'[i]
    BY <2>1, <2>4 DEF IInv, PixelsOwn
  <2> HIDE DEF r
  <2> QED
    BY <2>1, <2>2, <2>4, <2>5, <2>6, <2>7, UpdateStep, Zenon
<1> QED
  BY <1>1, <1>2

\* A reset of the device keeps it: resources and scanouts go together.
LEMMA ResetStep ==
  ASSUME IInv, Reset
  PROVE  IInv'
<1>1. \A i \in Ids : resources'[i] = Gone
  BY DEF Reset
<1>2. Types'
  BY GoneTyped DEF Reset, Types, Replies
<1>3. GoneIsGone' /\ ScanoutsLive'
  BY <1>1, SMTT(30) DEF Reset, GoneIsGone, ScanoutsLive
<1>4. PagesLent' /\ BackingOwn' /\ PixelsOwn'
  BY <1>1 DEF PagesLent, BackingOwn, PixelsOwn, Gone
<1> QED
  BY <1>2, <1>3, <1>4 DEF IInv

\* Every step of the graphics device keeps the invariant.
LEMMA StepIInv == IInv /\ [Next]_vars => IInv'
<1> SUFFICES ASSUME IInv, [Next]_vars PROVE IInv'
  BY Zenon
<1>1. CASE Malformed
  BY <1>1, RefusedStep, Zenon DEF Malformed, Replies
<1>2. CASE Reset
  BY <1>2, ResetStep
<1>3. ASSUME NEW fits \in BOOLEAN, Other(fits) PROVE IInv'
  BY <1>3, RefusedStep DEF Other, Replies
<1>4. ASSUME NEW fits \in BOOLEAN, NEW i \in Ids, ResourceUnref(i, fits) PROVE IInv'
  BY <1>4, UnrefStep
<1>5. ASSUME NEW fits \in BOOLEAN, NEW i \in Ids, ResourceFlush(i, fits) PROVE IInv'
  BY <1>5, RefusedStep DEF ResourceFlush, UnknownResource, Replies
<1>6. ASSUME NEW fits \in BOOLEAN, NEW i \in Ids, ResourceDetachBacking(i, fits) PROVE IInv'
  BY <1>6, DetachStep, Zenon
<1>7. ASSUME NEW fits \in BOOLEAN, NEW i \in Ids, NEW good \in BOOLEAN,
             ResourceCreate2D(i, good, fits)
      PROVE  IInv'
  BY <1>7, CreateStep, SMTT(30)
<1>8. ASSUME NEW fits \in BOOLEAN, NEW i \in Ids, NEW inside \in BOOLEAN, NEW whole \in BOOLEAN,
             TransferToHost2D(i, inside, whole, fits)
      PROVE  IInv'
  BY <1>8, TransferStep
<1>9. ASSUME NEW fits \in BOOLEAN, NEW i \in Ids, NEW s \in Scanouts,
             SetScanout(s, i, fits)
      PROVE  IInv'
  BY <1>9, SetScanoutStep
<1>10. ASSUME NEW fits \in BOOLEAN, NEW i \in Ids, NEW p \in Pages,
              ResourceAttachBacking(i, p, fits)
       PROVE  IInv'
  BY <1>10, AttachStep, SMTT(30)
<1>11. CASE UNCHANGED vars
  BY <1>11, SMTT(30) DEF vars, IInv, Types, GoneIsGone, ScanoutsLive, PagesLent, BackingOwn,
               PixelsOwn, Live
<1> QED
  BY <1>1, <1>2, <1>3, <1>4, <1>5, <1>6, <1>7, <1>8, <1>9, <1>10, <1>11, SMTT(30) DEF Next

-----------------------------------------------------------------------------
(* The limit on resources *)

LiveIds == {i \in Ids : Live(i)}
Bounded == Cardinality(LiveIds) =< MAX_RESOURCES

\* The live resources can be counted.
LEMMA LiveFinite == IsFiniteSet(LiveIds) /\ Cardinality(LiveIds) \in Nat
<1>1. IsFiniteSet(LiveIds)
  BY GpuAssumption, FS_Subset, SMTT(30) DEF LiveIds
<1> QED
  BY <1>1, FS_CardinalityType, SMTT(30)

\* A step that brings no resource to life keeps the limit.
LEMMA NoBirth ==
  ASSUME Bounded, \A i \in Ids : Live(i)' => Live(i)
  PROVE  Bounded'
<1>1. LiveIds' \subseteq LiveIds
  BY DEF LiveIds
<1>2. Cardinality(LiveIds') =< Cardinality(LiveIds) /\ Cardinality(LiveIds') \in Nat
  BY <1>1, LiveFinite, FS_Subset, FS_CardinalityType, SMTT(30)
<1> QED
  BY <1>2, LiveFinite, GpuAssumption DEF Bounded

\* A creation keeps the number of resources within the limit, since it checks it first.
LEMMA BirthStep ==
  ASSUME IInv, Bounded, NEW i \in Ids, NEW good \in BOOLEAN, NEW fits \in BOOLEAN,
         ResourceCreate2D(i, good, fits)
  PROVE  Bounded'
<1>1. CASE resources' = resources
  BY <1>1, NoBirth, SMTT(30) DEF Live
<1>2. CASE /\ Cardinality(LiveIds) < MAX_RESOURCES
           /\ resources' = [resources EXCEPT ![i] = Fresh]
  <2>1. LiveIds' \subseteq LiveIds \cup {i}
    BY <1>2 DEF LiveIds, Live, IInv, Types
  <2>2. IsFiniteSet(LiveIds \cup {i}) /\ Cardinality(LiveIds \cup {i}) =< Cardinality(LiveIds) + 1
    <3>1. /\ IsFiniteSet(LiveIds \cup {i})
          /\ Cardinality(LiveIds \cup {i}) =
               IF i \in LiveIds THEN Cardinality(LiveIds) ELSE Cardinality(LiveIds) + 1
      BY LiveFinite, FS_AddElement, Zenon
    <3>2. Cardinality(LiveIds) \in Nat
      BY LiveFinite
    <3> QED
      BY <3>1, <3>2
  <2>3. Cardinality(LiveIds') =< Cardinality(LiveIds \cup {i}) /\ Cardinality(LiveIds') \in Nat
        /\ Cardinality(LiveIds \cup {i}) \in Nat
    BY <2>1, <2>2, FS_Subset, FS_CardinalityType, SMTT(30)
  <2> QED
    BY <1>2, <2>2, <2>3, LiveFinite, GpuAssumption, SMTT(30) DEF Bounded
<1> QED
  BY <1>1, <1>2 DEF ResourceCreate2D, Refused, LiveIds

\* Every step keeps the number of resources within the limit.
LEMMA StepBounded == IInv /\ Bounded /\ [Next]_vars => Bounded'
<1> SUFFICES ASSUME IInv, Bounded, [Next]_vars PROVE Bounded'
  BY Zenon
<1>1. CASE \E fits, good \in BOOLEAN, i \in Ids : ResourceCreate2D(i, good, fits)
  BY <1>1, BirthStep
<1>2. CASE ~ \E fits, good \in BOOLEAN, i \in Ids : ResourceCreate2D(i, good, fits)
  <2>1. CASE resources' = resources
    BY <2>1, NoBirth, SMTT(30) DEF Live
  <2>2. CASE Reset
    BY <2>2, NoBirth DEF Reset, Live, Gone
  <2>3. ASSUME NEW fits \in BOOLEAN, NEW i \in Ids, ResourceUnref(i, fits) PROVE Bounded'
    <3>1. \A j \in Ids : Live(j)' => Live(j)
      BY <2>3 DEF ResourceUnref, Live, Gone, IInv, Types
    <3> QED
      BY <3>1, NoBirth, SMTT(30)
  <2>4. ASSUME NEW fits \in BOOLEAN, NEW i \in Ids, ResourceDetachBacking(i, fits)
        PROVE  Bounded'
    <3>1. \A j \in Ids : Live(j)' => Live(j)
      BY <2>4 DEF ResourceDetachBacking, UnknownResource, Refused, Live, IInv, Types, Resource
    <3> QED
      BY <3>1, NoBirth, Zenon
  <2>5. ASSUME NEW fits \in BOOLEAN, NEW i \in Ids, NEW inside \in BOOLEAN, NEW whole \in BOOLEAN,
               TransferToHost2D(i, inside, whole, fits)
        PROVE  Bounded'
    <3>1. \A j \in Ids : Live(j)' => Live(j)
      BY <2>5 DEF TransferToHost2D, UnknownResource, Refused, Live, IInv, Types, Resource
    <3> QED
      BY <3>1, NoBirth
  <2>6. ASSUME NEW fits \in BOOLEAN, NEW i \in Ids, NEW p \in Pages,
               ResourceAttachBacking(i, p, fits)
        PROVE  Bounded'
    <3>1. \A j \in Ids : Live(j)' => Live(j)
      BY <2>6 DEF ResourceAttachBacking, Live, IInv, Types, Resource
    <3> QED
      BY <3>1, NoBirth
  <2> QED
    BY <1>2, <2>1, <2>2, <2>3, <2>4, <2>5, <2>6, ZenonT(30)
       DEF Next, Malformed, Other, Refused, ResourceFlush, UnknownResource, SetScanout, vars
<1> QED
  BY <1>1, <1>2

\* No resource is live at the start.
LEMMA InitBounded == Init => Bounded
<1> SUFFICES ASSUME Init PROVE Bounded
  BY Zenon
<1>1. LiveIds = {}
  BY Zenon DEF Init, LiveIds, Live, Gone
<1> QED
  BY <1>1, FS_EmptySet, GpuAssumption, SMTT(30) DEF Bounded

-----------------------------------------------------------------------------
\* Types, and the limit on the number of resources.
THEOREM TypeCorrect == Spec => []TypeOK
<1>1. IInv /\ Bounded => TypeOK
  BY Zenon DEF IInv, Types, Bounded, LiveIds, TypeOK
<1> QED
  BY <1>1, InitIInv, InitBounded, StepIInv, StepBounded, PTL DEF Spec

\* No scanout ever points at a resource that is gone.
THEOREM ScanoutsStayLive == Spec => []ScanoutsLive
<1>1. IInv => ScanoutsLive
  BY SMTT(30) DEF IInv
<1> QED
  BY <1>1, InitIInv, StepIInv, PTL DEF Spec

\* The device reads no page that the guest has taken back.
THEOREM PagesStayLent == Spec => []PagesLent
<1>1. IInv => PagesLent
  BY SMTT(30) DEF IInv
<1> QED
  BY <1>1, InitIInv, StepIInv, PTL DEF Spec

\* A resource holds no pixels of an earlier resource with its id.
THEOREM PixelsStayOwn == Spec => []PixelsOwn
<1>1. IInv => PixelsOwn
  BY Zenon DEF IInv
<1> QED
  BY <1>1, InitIInv, StepIInv, PTL DEF Spec

\* The tables of resources, scanouts and backing stay sound, for every number of
\* ids, pages and scanouts and every limit.
THEOREM TablesStaySound == Spec => []TablesSound
BY TypeCorrect, ScanoutsStayLive, PagesStayLent, PixelsStayOwn, PTL DEF TablesSound
=============================================================================
