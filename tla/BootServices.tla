---------------------------- MODULE BootServices ----------------------------
(***************************************************************************)
(* The memory services the firmware offers to the boot loader              *)
(* (src/guest/firmware/efi/uefi.c): AllocatePages, AllocatePool,           *)
(* GetMemoryMap and ExitBootServices, over the memory map the host injects *)
(* (inject_memmap of src/src/machine_config/machine_config.rs), read by    *)
(* mem/memmap.c and headers/memmap.h.                                      *)
(*                                                                         *)
(* Addresses are page numbers of a machine scaled down; its ranges keep    *)
(* their order.  Low memory and the device range above RAM are left out.   *)
(***************************************************************************)
EXTENDS Integers, Sequences, FiniteSetsExt

CONSTANTS
  FLOOR,                    \* 0x200000, end of the firmware image
  HEAP_START_PAGE, HEAP_END_PAGE,   \* the firmware's heap
  APIC_RESERVED_START, APIC_RESERVED_END,
  RamEnds,                  \* sizes of RAM
  Lengths,                  \* pages asked for
  MaxAllocs                 \* bound: allocations of the loader

ASSUME BootServicesAssumption ==
  /\ FLOOR \in Nat /\ HEAP_START_PAGE \in Nat /\ HEAP_END_PAGE \in Nat
  /\ APIC_RESERVED_START \in Nat /\ APIC_RESERVED_END \in Nat
  /\ FLOOR < HEAP_START_PAGE /\ HEAP_START_PAGE < HEAP_END_PAGE
  /\ HEAP_END_PAGE < APIC_RESERVED_START /\ APIC_RESERVED_START < APIC_RESERVED_END
  /\ RamEnds \subseteq Nat /\ Lengths \subseteq Nat \ {0}

VARIABLES
  ram_end,
  pg_bump, map_key, exited,   \* of the firmware
  allocs,                     \* page allocations, in their order
  pools,                      \* number of pool allocations made so far
  key, key_at                 \* loader: key of the map it has, allocations before it

servicesVars == <<ram_end, pg_bump, map_key, exited, allocs, pools, key, key_at>>

Made == Len(allocs) + pools

-----------------------------------------------------------------------------
(* The memory map *)

MemMap(start, end, type) == [start |-> start, end |-> end, type |-> type]

inject_memmap ==
  << MemMap(0, FLOOR, "BootServicesCode"),
     MemMap(FLOOR, HEAP_START_PAGE, "ConventionalMemory"),
     MemMap(HEAP_START_PAGE, HEAP_END_PAGE, "RuntimeServicesData"),
     MemMap(HEAP_END_PAGE, APIC_RESERVED_START, "ConventionalMemory"),
     MemMap(APIC_RESERVED_START, APIC_RESERVED_END, "Reserved"),
     MemMap(APIC_RESERVED_END, ram_end, "ConventionalMemory") >>

Conventional ==
  {r \in {inject_memmap[i] : i \in DOMAIN inject_memmap} : r.type = "ConventionalMemory"}
memmap_ram_top == Max({r.end : r \in Conventional})

\* What memmap_to_uefi tells the loader is free: empty ranges are dropped.
ReportedFree == UNION {r.start .. r.end - 1 : r \in Conventional}

ServicesInit ==
  /\ ram_end \in RamEnds
  /\ pg_bump = HEAP_END_PAGE /\ map_key = 1 /\ exited = FALSE
  /\ allocs = <<>> /\ pools = 0 /\ key = 0 /\ key_at = 0

-----------------------------------------------------------------------------
\* A successful allocation: how it was asked for and the pages it got.
Granted(how, addr, pages) ==
  /\ addr + pages =< memmap_ram_top
  /\ allocs' = Append(allocs, [how |-> how, start |-> addr, end |-> addr + pages])
  /\ map_key' = map_key + 1
  /\ UNCHANGED <<ram_end, exited, pools, key, key_at>>

AllocateAddress(pages, addr) ==
  /\ Made < MaxAllocs /\ addr >= FLOOR
  /\ Granted("address", addr, pages)
  /\ UNCHANGED pg_bump

AllocateMaxAddress(pages, max) ==
  /\ Made < MaxAllocs /\ max >= pages
  /\ Granted("max", IF max - pages < FLOOR THEN FLOOR ELSE max - pages, pages)
  /\ UNCHANGED pg_bump

AllocateAnyPagesNoBump(pages) ==
  /\ Made < MaxAllocs
  /\ Granted("any", pg_bump, pages)
  /\ UNCHANGED pg_bump
AllocateAnyPages(pages) ==
  /\ Made < MaxAllocs
  /\ Granted("any", pg_bump, pages)
  /\ pg_bump' = pg_bump + pages

AllocatePoolSilent ==
  /\ Made < MaxAllocs
  /\ pools' = pools + 1
  /\ UNCHANGED <<ram_end, pg_bump, exited, allocs, map_key, key, key_at>>
\* AllocatePool, when the heap has room
AllocatePool ==
  /\ Made < MaxAllocs
  /\ pools' = pools + 1 /\ map_key' = map_key + 1
  /\ UNCHANGED <<ram_end, pg_bump, exited, allocs, key, key_at>>

\* GetMemoryMap with a buffer that is large enough; the loader keeps the key.
GetMemoryMap ==
  /\ key' = map_key /\ key_at' = Made
  /\ UNCHANGED <<ram_end, pg_bump, map_key, exited, allocs, pools>>

\* The key is compared and nothing else is: the services keep working after.
ExitBootServices ==
  /\ key = map_key
  /\ exited' = TRUE
  /\ UNCHANGED <<ram_end, pg_bump, map_key, allocs, pools, key, key_at>>

ServicesNext ==
  \/ \E pages \in Lengths :
       \/ \E addr \in 0 .. ram_end : AllocateAddress(pages, addr) \/ AllocateMaxAddress(pages, addr)
       \/ AllocateAnyPages(pages)
  \/ AllocatePool \/ GetMemoryMap \/ ExitBootServices

ServicesSpec == ServicesInit /\ [][ServicesNext]_servicesVars

-----------------------------------------------------------------------------
\* Pages of every kind lie in RAM, above the firmware's image, and those asked
\* for without a place never overlap one another nor the firmware's heap, whatever
\* other allocations come between.
AnyPagesApart ==
  /\ \A i \in DOMAIN allocs : FLOOR =< allocs[i].start /\ allocs[i].end =< memmap_ram_top
  /\ \A i, j \in DOMAIN allocs : (allocs[i].how = "any" /\ allocs[j].how = "any") =>
       /\ HEAP_END_PAGE =< allocs[i].start
       /\ i < j => allocs[i].end =< allocs[j].start

\* Boot services end only for a loader whose map was taken after its last
\* allocation of pages or pool memory.
ExitKeepsMapCurrent == [][ExitBootServices => key_at = Made]_servicesVars

\* The loader is given no page of the interrupt controllers' span or of the
\* firmware heap, which "must be excluded from usable RAM" (machine_config.rs),
\* when it leaves the place to the firmware.
PagesUsable ==
  \A i \in DOMAIN allocs :
    allocs[i].how # "address" => (allocs[i].start .. allocs[i].end - 1) \subseteq ReportedFree
=============================================================================
