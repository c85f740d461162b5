------------------------------ MODULE MCMemory ------------------------------
(* Guest memory on its four levels: what lies in it at the start, the        *)
(* regions the monitor hands to KVM, the pages the firmware gives to a boot  *)
(* loader, and the firmware's heap.  The levels share no state of the        *)
(* program (the heap's span is a constant of the page allocator), so a       *)
(* behaviour follows one of them.                                            *)
EXTENDS FirmwareHeap, GuestMemory, BootServices, MachineImage

\* Every number of vCPUs that a u8 holds
MCVcpus == 0 .. 255

VARIABLE level

memoryVars == <<level, vars, ramVars, servicesVars, imageVars>>

MemoryInit ==
  /\ level \in {"image", "regions", "pages", "heap"}
  /\ level = "regions" \/ checked = TRUE
  /\ level = "image" \/ machine = CHOOSE m \in Machines : TRUE
  /\ Init /\ RamInit /\ ServicesInit /\ ImageInit

MemoryNext ==
  \/ level = "image" /\ ImageNext /\ UNCHANGED <<level, vars, ramVars, servicesVars>>
  \/ level = "regions" /\ RamNext /\ UNCHANGED <<level, vars, servicesVars, imageVars>>
  \/ level = "pages" /\ ServicesNext /\ UNCHANGED <<level, vars, ramVars, imageVars>>
  \/ level = "heap" /\ Next /\ UNCHANGED <<level, ramVars, servicesVars, imageVars>>

MemorySpec == MemoryInit /\ [][MemoryNext]_memoryVars

=============================================================================
