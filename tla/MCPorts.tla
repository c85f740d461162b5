------------------------------- MODULE MCPorts -------------------------------
(* The devices behind I/O ports.  A serial port, the PIT and the CMOS clock  *)
(* share no state, so every behaviour follows the one device that the guest  *)
(* uses in it and the others stay as they were when the machine started.     *)
EXTENDS Serial, Pit, Cmos

VARIABLE device

serialOnly == <<device, pitVars, cmosVars>>
pitOnly == <<device, serialVars, cmosVars>>
cmosOnly == <<device, serialVars, pitVars>>
portVars == <<device, serialVars, pitVars, cmosVars>>

PortInit ==
  /\ device \in {"serial", "pit", "cmos"}
  /\ device = "cmos" \/ now = 0
  /\ SerialInit /\ PitInit /\ CmosInit

PortNext ==
  \/ device = "serial" /\ SerialNext /\ UNCHANGED serialOnly
  \/ device = "pit" /\ PitNext /\ UNCHANGED pitOnly
  \/ device = "cmos" /\ CmosNext /\ UNCHANGED cmosOnly

PortSpec ==
  /\ PortInit /\ [][PortNext]_portVars
  /\ WF_portVars(device = "serial" /\ TickThread /\ UNCHANGED serialOnly)
  /\ SF_portVars(device = "serial" /\ ServeKeys /\ UNCHANGED serialOnly)

==============================================================================
