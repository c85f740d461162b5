---------------------------- MODULE MachineImage ----------------------------
(***************************************************************************)
(* What lies in guest memory when the machine starts: the firmware, reset  *)
(* vector, memory map and ACPI tables that main, inject_memmap and         *)
(* inject_acpi_tables (src/src/machine_config) collect as binaries with    *)
(* fixed places, copied one after another by VirtualMachine::new.          *)
(*                                                                         *)
(* A binary is its place, its length, the length written in its header and *)
(* the tables it points to.  Its other bytes, checksum included, are left  *)
(* out.                                                                    *)
(***************************************************************************)
EXTENDS Naturals, Sequences

CONSTANTS
  VcpuCounts,    \* total_vcpus, a u8
  MemSizes,      \* sizes of the one memory region
  Stage2Lens,    \* lengths of out.bin, which ends below the reset vector
  FirmwareLens,  \* lengths of main64.bin
  DsdtLens       \* lengths of DSDT.aml, which ends below main64.bin

ASSUME MachineImageAssumption ==
  /\ MemSizes \subseteq Nat /\ FirmwareLens \subseteq Nat
  /\ \A n \in VcpuCounts : n \in Nat /\ n =< 255
  /\ \A n \in Stage2Lens : n \in Nat /\ n =< 65520 - 32256
  /\ \A n \in DsdtLens : n \in Nat /\ n =< 1048576 - 919552

VARIABLES
  machine,      \* what main is given, and whether arithmetic is checked
  image_pc,
  binaries,     \* MachineConfig::binaries
  copied        \* how many of them were gone through

imageVars == <<machine, image_pc, binaries, copied>>

Binary(name, offset, len, length, points) ==
  [name |-> name, offset |-> offset, len |-> len, length |-> length, points |-> points]
Plain(name, offset, len) == Binary(name, offset, len, len, {})

Machines == [vcpus : VcpuCounts, mem_size : MemSizes, checked : BOOLEAN,
             stage2 : Stage2Lens, firmware : FirmwareLens, dsdt : DsdtLens]

\* main: 0x7E00, 0x100000, 0xFFF0
ImageInit ==
  /\ machine \in Machines
  /\ binaries = <<Plain("stage2", 32256, machine.stage2),
                  Plain("firmware", 1048576, machine.firmware), Plain("reset", 65520, 5)>>
  /\ image_pc = "memmap" /\ copied = 0

\* A header of 8 bytes and entries of 20
as_bytes(entries) == 8 + entries * 20

\* Eleven entries, 0x7000
inject_memmap_binary ==
  /\ image_pc = "memmap" /\ image_pc' = "acpi"
  /\ binaries' = Append(binaries, Plain("memmap", 28672, as_bytes(11)))
  /\ UNCHANGED <<machine, copied>>

-----------------------------------------------------------------------------
(* The tables *)

dsdt == Plain("DSDT", 919552, machine.dsdt)                          \* 0xE0800
fadt == Binary("FACP", 918528, 244, 244, {<<"DSDT", dsdt.offset>>})   \* 0xE0400

\* 44 + vcpu_num * 8 + 12 in a u8, 0xE0500
MadtNeeds == 44 + machine.vcpus * 8 + 12
madt_wide == Binary("APIC", 918784, MadtNeeds, MadtNeeds, {})
madt == Binary("APIC", 918784, MadtNeeds % 256, MadtNeeds % 256, {})

xsdt == Binary("XSDT", 917728, 36 + 2 * 8, 36 + 2 * 8,                \* 0xE00E0
               {<<"FACP", fadt.offset>>, <<"APIC", madt.offset>>})
rsdp == Binary("RSDP", 917504, 36, 36, {<<"XSDT", xsdt.offset>>})     \* 0xE0000

\* build_madt panics when its sum overflows, or, unchecked, at the first byte
\* that does not fit the vector.
inject_acpi_tables ==
  /\ image_pc = "acpi"
  /\ IF (machine.checked /\ MadtNeeds > 255) \/ MadtNeeds > madt.len
     THEN image_pc' = "panic" /\ UNCHANGED binaries
     ELSE image_pc' = "copy" /\ binaries' = binaries \o <<dsdt, fadt, madt, rsdp, xsdt>>
  /\ UNCHANGED <<machine, copied>>

\* VirtualMachine::new: one that starts in the region must end in it
CopyBinary ==
  LET b == binaries[copied + 1]
  IN  /\ image_pc = "copy" /\ copied < Len(binaries)
      /\ IF b.offset < machine.mem_size /\ b.offset + b.len > machine.mem_size
         THEN image_pc' = "panic" /\ UNCHANGED copied
         ELSE copied' = copied + 1 /\ UNCHANGED image_pc
      /\ UNCHANGED <<machine, binaries>>

ImageDone ==
  \/ /\ image_pc = "copy" /\ copied = Len(binaries) /\ image_pc' = "run"
     /\ UNCHANGED <<machine, binaries, copied>>
  \/ image_pc \in {"run", "panic"} /\ UNCHANGED imageVars

ImageNext == inject_memmap_binary \/ inject_acpi_tables \/ CopyBinary \/ ImageDone
ImageSpec == ImageInit /\ [][ImageNext]_imageVars

-----------------------------------------------------------------------------
Whole(b) == b.offset + b.len =< machine.mem_size
BytesApart(b, c) == b.offset + b.len =< c.offset \/ c.offset + c.len =< b.offset

\* EFI_CONFIGURATION_TABLE names 0xE0000; the memory map says of the addresses
\* from 0xA0000 to 0x100000 that they are reserved.
RootTable == 917504
ReservedSpan == [offset |-> 655360, len |-> 393216]

\* Whatever number of vCPUs is asked for, in a build with or without overflow
\* checks: once the binaries are collected, none will be overwritten by one copied
\* later, and each one copied is whole in the machine's memory.  From the address
\* the firmware hands to the operating system every table is reached, each with its
\* own length, and all lie where the memory map keeps the system from allocating.
TablesReadable ==
  image_pc \in {"copy", "run"} /\ machine.mem_size > 1048576 =>
    /\ \A j \in 1 .. copied : Whole(binaries[j])
    /\ \A j, k \in DOMAIN binaries : j # k => BytesApart(binaries[j], binaries[k])
    /\ \E k \in DOMAIN binaries : binaries[k].name = "RSDP" /\ binaries[k].offset = RootTable
    /\ \A k \in DOMAIN binaries : \A p \in binaries[k].points :
         \E t \in DOMAIN binaries :
           /\ binaries[t].name = p[1] /\ binaries[t].offset = p[2]
           /\ binaries[t].length = binaries[t].len
           /\ ReservedSpan.offset =< p[2] /\ p[2] + binaries[t].len =< ReservedSpan.offset + ReservedSpan.len
=============================================================================
