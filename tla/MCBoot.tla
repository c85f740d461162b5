------------------------------- MODULE MCBoot -------------------------------
(* The firmware from the disk to the boot loader it serves.  Its stages      *)
(* follow one another and hand on no more than the file read, so a behaviour *)
(* follows one stage: finding the volume, reading the boot file, building the *)
(* image from it, or answering the loader's calls about protocols or events.  *)
EXTENDS PartTable, BootDisk, PeLoader, ProtocolDb, BootEvents

CONSTANT Len0   \* length of every file

Section(va, ptr, raw, virt) ==
  [VirtualAddress |-> va, PointerToRawData |-> ptr, SizeOfRawData |-> raw, VirtualSize |-> virt]
Block(va, types, whole) ==
  [VirtualAddress |-> va, whole |-> whole,
   entries |-> [e \in DOMAIN types |-> [type |-> types[e], offset |-> e - 1]]]

\* Images of two sections of every size up to two cells, with and without zeros
\* behind them, and of two relocation blocks, the second possibly cut short.
MCImages ==
  {[len |-> Len0, efi |-> efi, at_base |-> at_base,
    sections |-> <<Section(1, 1, raw1, virt1), Section(4, Len0 - raw2, raw2, virt2)>>,
    relocs |-> <<Block(1, t, TRUE), Block(4, u, whole)>>] :
     efi, at_base, whole \in BOOLEAN, raw1, raw2 \in 0 .. 2, virt1, virt2 \in {0, 1, 3},
     t, u \in {<<"DIR64", "ABSOLUTE">>, <<"other", "DIR64">>, <<>>}}

\* Boot sectors of small volumes, also with sectors or clusters of no size.
MCGeometries ==
  [bytes_per_sector : {0, 512}, sectors_per_cluster : 0 .. 2, reserved_sectors : 1 .. 2,
   num_fats : 1 .. 2, fat_size : 0 .. 2]

VARIABLE stage

bootVars == <<stage, partVars, diskVars, peVars, protocolVars, eventsVars>>

\* Where the disk is not read it is one whose only chain is a cycle, of which
\* BootEnds says nothing.
NoDirectories == [c \in Clusters |-> [j \in 1 .. PerCluster |-> NoEntry]]

BootInit ==
  /\ stage \in {"partition", "disk", "image", "protocols", "events"}
  /\ stage = "image" \/ file = CHOOSE f \in Images : TRUE
  /\ PeInit /\ ProtocolInit /\ EventsInit
  /\ stage = "disk" \/ (fat = [c \in Clusters |-> c] /\ dirs = NoDirectories)
  /\ DiskInit
  /\ \/ stage = "partition"
     \/ table = [u \in PartEntry |-> "empty"] /\ range = 0 /\ header = CHOOSE h \in Headers : TRUE
  /\ PartInit

partitionOnly == <<stage, diskVars, peVars, protocolVars, eventsVars>>
diskOnly == <<stage, partVars, peVars, protocolVars, eventsVars>>
imageOnly == <<stage, partVars, diskVars, protocolVars, eventsVars>>
protocolsOnly == <<stage, partVars, diskVars, peVars, eventsVars>>
eventsOnly == <<stage, partVars, diskVars, peVars, protocolVars>>

BootNext ==
  \/ stage = "partition" /\ PartNext /\ UNCHANGED partitionOnly
  \/ stage = "disk" /\ DiskNext /\ UNCHANGED diskOnly
  \/ stage = "image" /\ PeNext /\ UNCHANGED imageOnly
  \/ stage = "protocols" /\ ProtocolNext /\ UNCHANGED protocolsOnly
  \/ stage = "events" /\ EventsNext /\ UNCHANGED eventsOnly

BootSpec ==
  /\ BootInit /\ [][BootNext]_bootVars
  /\ WF_bootVars(stage = "disk" /\ Boot /\ UNCHANGED diskOnly)
  /\ WF_bootVars(stage = "events" /\ WaitReturns /\ UNCHANGED eventsOnly)
  /\ WF_bootVars(stage = "events" /\ update_events /\ UNCHANGED eventsOnly)

=============================================================================
