----------------------------- MODULE QueueSetup -----------------------------
(***************************************************************************)
(* How a driver programs the queues of its device through the registers of *)
(* the transport (src/src/devices/virtio/transports/mmio.rs), and how the  *)
(* next driver does it again: the firmware's (virtio_net_init of           *)
(* src/guest/firmware/virtio/net.c), then the operating system's, then the *)
(* same one after a reboot.  A driver is a list of register writes; the    *)
(* tick thread may run the device between any two of them.                 *)
(*                                                                         *)
(* A driver has rings of its own.  An address is told apart by the driver  *)
(* and the queue it belongs to, and is written in halves.                  *)
(***************************************************************************)
EXTENDS Naturals, Sequences

CONSTANTS
  Queues,      \* queues of the device
  Drivers,     \* drivers that take over from one another
  RingMod,     \* 2^16: ring indices are u16 and wrap
  RingSize     \* QUEUE_SIZE

ASSUME SetupAssumption ==
  /\ Queues \in Nat \ {0} /\ Drivers \in Nat /\ RingSize \in Nat \ {0}
  /\ RingMod \in Nat /\ RingSize < RingMod

QueueIdx == 0 .. Queues - 1
AddrReg == {"desc_low", "desc_high", "avail_low", "avail_high", "used_low", "used_high"}

VARIABLES
  dev_status, sel,                 \* registers of the transport
  features_sel, driver_features,
  queues,                          \* its VirtioQueues
  driver, at,                      \* the driver in charge, where it is in its list
  posted, used                     \* avail.idx and used.idx of its rings

setupVars == <<dev_status, sel, features_sel, driver_features, queues, driver, at, posted, used>>

VirtioQueue ==
  [size |-> 0, ready |-> FALSE, addr |-> [r \in AddrReg |-> <<0, 0>>],
   last_avail_idx |-> 0, last_used_idx |-> 0]

SetupInit ==
  /\ dev_status = 0 /\ sel = 0 /\ features_sel = 0 /\ driver_features = <<0, 0>>
  /\ queues = [q \in QueueIdx |-> VirtioQueue]
  /\ driver = 0 /\ at = 0
  /\ posted = [q \in QueueIdx |-> 0] /\ used = [q \in QueueIdx |-> 0]

-----------------------------------------------------------------------------
(* The registers: MMIOTransport::write *)

SetQueue(q) == queues' = [queues EXCEPT ![sel] = q]

WriteFeatures(reg, val) ==
  /\ \/ /\ reg = "driver_features_sel" /\ features_sel' = val
        /\ UNCHANGED driver_features
     \/ /\ reg = "driver_features"
        /\ driver_features' = IF features_sel = 0
                              THEN <<val, driver_features[2]>>
                              ELSE <<driver_features[1], val>>
        /\ UNCHANGED features_sel
  /\ UNCHANGED <<dev_status, sel, queues>>

SelectQueue(reg, val) ==
  /\ reg = "queue_sel"
  /\ sel' = IF val < Queues THEN val ELSE sel
  /\ UNCHANGED <<dev_status, features_sel, driver_features, queues>>

\* 0x038, 0x044 and the six address halves; making a queue ready rewinds the
\* index the device reads from, and only that one
WriteQueue(reg, val) ==
  /\ \/ reg = "queue_num" /\ SetQueue([queues[sel] EXCEPT !.size = val])
     \/ /\ reg = "queue_ready"
        /\ SetQueue([queues[sel] EXCEPT !.ready = val,
                       !.last_avail_idx = IF val /\ ~queues[sel].ready THEN 0 ELSE @])
     \/ reg \in AddrReg /\ SetQueue([queues[sel] EXCEPT !.addr[reg] = val])
  /\ UNCHANGED <<dev_status, sel, features_sel, driver_features>>

WriteSetupStatusOneQueue(reg, val) ==
  /\ reg = "status" /\ dev_status' = val
  /\ IF val = 0
     THEN /\ SetQueue(VirtioQueue)
          /\ sel' = 0 /\ features_sel' = 0 /\ driver_features' = <<0, 0>>
     ELSE UNCHANGED <<queues, sel, features_sel, driver_features>>
\* 0x070: zero puts every queue and selector back to its initial value.
WriteSetupStatus(reg, val) ==
  /\ reg = "status" /\ dev_status' = val
  /\ IF val = 0
     THEN /\ queues' = [q \in QueueIdx |-> VirtioQueue]
          /\ sel' = 0 /\ features_sel' = 0 /\ driver_features' = <<0, 0>>
     ELSE UNCHANGED <<queues, sel, features_sel, driver_features>>

Write(w) ==
  \/ WriteFeatures(w.reg, w.val) \/ SelectQueue(w.reg, w.val)
  \/ WriteQueue(w.reg, w.val) \/ WriteSetupStatus(w.reg, w.val)

-----------------------------------------------------------------------------
(* The driver *)

W(reg, val) == [reg |-> reg, val |-> val]

\* net_setup_queue
net_setup_queue(d, q) ==
  <<W("queue_sel", q), W("queue_num", RingSize),
    W("desc_low", <<d, q>>), W("desc_high", <<d, q>>),
    W("avail_low", <<d, q>>), W("avail_high", <<d, q>>),
    W("used_low", <<d, q>>), W("used_high", <<d, q>>), W("queue_ready", TRUE)>>

\* The k-th write of driver d: ACKNOWLEDGE, DRIVER and FEATURES_OK around the
\* features, the queues, and DRIVER_OK at the end.  An operating system writes
\* both halves of the features, the firmware only the one selected after a reset.
Features(d) ==
  IF d = 1 THEN <<W("driver_features", d)>>
  ELSE <<W("driver_features_sel", 1), W("driver_features", d),
         W("driver_features_sel", 0), W("driver_features", d)>>
Accepted(d) == <<d, IF d = 1 THEN 0 ELSE d>>

InitLen(d) == Len(Features(d)) + 9 * Queues + 4
virtio_net_init(d, k) ==
  LET f == Len(Features(d))
      j == k - (f + 4)
  IN  CASE k = 1 -> W("status", 1)
        [] k = 2 -> W("status", 3)
        [] k \in 3 .. f + 2 -> Features(d)[k - 2]
        [] k = f + 3 -> W("status", 11)
        [] k \in f + 4 .. InitLen(d) - 1 -> net_setup_queue(d, j \div 9)[(j % 9) + 1]
        [] k = InitLen(d) -> W("status", 15)

Running == driver > 0 /\ at > InitLen(driver)

\* The next driver, its rings zeroed, begins with a reset, wherever the one
\* before it stopped.
TakeOver ==
  /\ driver < Drivers
  /\ driver' = driver + 1 /\ at' = 1
  /\ posted' = [q \in QueueIdx |-> 0] /\ used' = [q \in QueueIdx |-> 0]
  /\ Write(W("status", 0))

Step ==
  /\ driver > 0 /\ ~Running
  /\ Write(virtio_net_init(driver, at))
  /\ at' = at + 1
  /\ UNCHANGED <<driver, posted, used>>

Since(later, earlier) == (later + RingMod - earlier) % RingMod

Post(q) ==
  /\ Running /\ Since(posted[q], used[q]) < RingSize
  /\ posted' = [posted EXCEPT ![q] = (@ + 1) % RingMod]
  /\ UNCHANGED <<dev_status, sel, features_sel, driver_features, queues, driver, at, used>>

\* The device on a ready queue, run by the tick thread once DRIVER_OK is set
\* or by a notification of the running driver: it takes all it finds in the
\* avail ring and writes the used index.
RunDevice(q) ==
  LET n == Since(posted[q], queues[q].last_avail_idx)
  IN  /\ queues[q].ready /\ queues[q].size # 0 /\ n > 0
      /\ (dev_status \div 4) % 2 = 1 \/ Running
      /\ queues' = [queues EXCEPT ![q].last_avail_idx = (@ + n) % RingMod,
                                  ![q].last_used_idx = (@ + n) % RingMod]
      /\ used' = [used EXCEPT ![q] = queues'[q].last_used_idx]
      /\ UNCHANGED <<dev_status, sel, features_sel, driver_features, driver, at, posted>>

SetupNext == TakeOver \/ Step \/ \E q \in QueueIdx : Post(q) \/ RunDevice(q)
SetupSpec == SetupInit /\ [][SetupNext]_setupVars

-----------------------------------------------------------------------------
\* A queue the device may be run on is the one its present driver set up: both
\* halves of the three addresses, the size, and the two indices, which count
\* from the start of this driver's rings though making a queue ready rewinds
\* one of them only.  Nothing of the driver before is left, wherever it was
\* stopped, and DRIVER_OK is not set before every queue is so.
DeviceReadsDriver ==
  /\ \A q \in QueueIdx : queues[q].ready =>
       /\ \A r \in AddrReg : queues[q].addr[r] = <<driver, q>>
       /\ queues[q].size = RingSize
       /\ queues[q].last_used_idx = used[q] /\ queues[q].last_avail_idx = used[q]
       /\ Since(posted[q], used[q]) =< RingSize
  /\ (dev_status \div 4) % 2 = 1 =>
       driver_features = Accepted(driver) /\ \A q \in QueueIdx : queues[q].ready
=============================================================================
