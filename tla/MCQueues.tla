------------------------------ MODULE MCQueues ------------------------------
(* Virtqueues from three sides: the rings of one queue, memory access by     *)
(* memory access (VirtQueue), the registers through which one driver after   *)
(* another sets its queues up (QueueSetup), and two whole devices with       *)
(* drivers that poll (PolledDevices).  A behaviour follows one of them.      *)
EXTENDS VirtQueue, QueueSetup, PolledDevices

VARIABLE side

queuesVars == <<side, vars, setupVars, polledVars>>

\* Where the polling drivers do not run, they are between two calls.
QueuesInit ==
  /\ side \in {"rings", "setup", "polled"}
  /\ Init /\ SetupInit
  /\ IF side = "polled" THEN PolledInit ELSE PolledFrom([dev |-> cnt, pc |-> "idle"])

ringsOnly == <<side, setupVars, polledVars>>
setupOnly == <<side, vars, polledVars>>
polledOnly == <<side, vars, setupVars>>

QueuesNext ==
  \/ side = "rings" /\ Next /\ UNCHANGED ringsOnly
  \/ side = "setup" /\ SetupNext /\ UNCHANGED setupOnly
  \/ side = "polled" /\ PolledNext /\ UNCHANGED polledOnly

QueuesSpec ==
  /\ QueuesInit /\ [][QueuesNext]_queuesVars
  /\ WF_queuesVars(side = "polled" /\ PolledTick /\ UNCHANGED polledOnly)
  /\ SF_queuesVars(side = "polled" /\ DriverStep /\ UNCHANGED polledOnly)
=============================================================================
