------------------------------ MODULE PeLoader ------------------------------
(***************************************************************************)
(* format_pe and apply_relocations of src/guest/firmware/disk/format_PE.c: *)
(* the file lies at FILE_BUF_ADDR, its headers and sections are copied to  *)
(* load_base above it, relocated, and the entry point is called.           *)
(*                                                                         *)
(* Memory is a row of cells.  A cell holds a cell of the file, with the    *)
(* number of times it was relocated, or zero, or what it held before.      *)
(* Cell 0 of the file is the headers, ImageBase included.  Images are what *)
(* a linker makes: sections in order and apart, a cell relocated once.     *)
(***************************************************************************)
EXTENDS Integers, Sequences

CONSTANTS
  LOAD_OFFSET,     \* load_base - FILE_BUF_ADDR
  Top,             \* cells of memory from FILE_BUF_ADDR on
  Images           \* files the firmware may find

\* An image: file length, whether its headers are those of an EFI application,
\* sections, whether load_base is the base it was linked for, and its blocks of
\* relocations: the first cell, the entries, and whether SizeOfBlock is whole.
Types == {"ABSOLUTE", "DIR64", "other"}
Sections == [VirtualAddress : Nat \ {0}, PointerToRawData : Nat, SizeOfRawData : Nat, VirtualSize : Nat]
RelocBlocks == [VirtualAddress : Nat, whole : BOOLEAN, entries : Seq([type : Types, offset : Nat])]
Files == [len : 1 .. LOAD_OFFSET, efi : BOOLEAN, at_base : BOOLEAN,
          sections : Seq(Sections), relocs : Seq(RelocBlocks)]

\* The cells of memory a section takes
Extent(sec) == LET size == IF sec.SizeOfRawData < sec.VirtualSize THEN sec.VirtualSize
                                                                ELSE sec.SizeOfRawData
               IN  sec.VirtualAddress .. sec.VirtualAddress + size - 1

Targets(block) ==
  {block.VirtualAddress + block.entries[e].offset :
     e \in {x \in DOMAIN block.entries : block.entries[x].type = "DIR64"}}

ASSUME PeLoaderAssumption ==
  /\ LOAD_OFFSET \in Nat \ {0} /\ Top \in Nat /\ LOAD_OFFSET =< Top
  /\ \A f \in Images :
       /\ f \in Files
       /\ \A s \in DOMAIN f.sections :
            /\ f.sections[s].PointerToRawData + f.sections[s].SizeOfRawData =< f.len
            /\ \A a \in Extent(f.sections[s]) :
                 /\ LOAD_OFFSET + a =< Top
                 /\ \A t \in DOMAIN f.sections : s < t => a < f.sections[t].VirtualAddress
       /\ \A b, c \in DOMAIN f.relocs : b # c => Targets(f.relocs[b]) \cap Targets(f.relocs[c]) = {}
       /\ \A b \in DOMAIN f.relocs : \A e, g \in DOMAIN f.relocs[b].entries :
            f.relocs[b].entries[e].offset = f.relocs[b].entries[g].offset /\ e # g =>
              f.relocs[b].entries[e].type # "DIR64" \/ f.relocs[b].entries[g].type # "DIR64"

VARIABLES
  file,     \* the image
  mem,      \* memory from FILE_BUF_ADDR on
  pe_pc,    \* place in format_pe
  i         \* section or block that comes next

peVars == <<file, mem, pe_pc, i>>

Zero == [from |-> -1, relocated |-> 0, patched |-> FALSE]
Old == [from |-> -2, relocated |-> 0, patched |-> FALSE]
OfFile(k) == [from |-> k, relocated |-> 0, patched |-> FALSE]

PeInit ==
  /\ file \in Images
  /\ mem = [a \in 0 .. Top |-> IF a < file.len THEN OfFile(a) ELSE Old]
  /\ pe_pc = "check" /\ i = 1

-----------------------------------------------------------------------------
\* The firmware's memcpy goes upwards, so a target inside the source repeats it.
memcpy(m, dst, src, n) ==
  [a \in DOMAIN m |-> IF a \in dst .. dst + n - 1
                      THEN m[IF dst > src THEN src + ((a - dst) % (dst - src)) ELSE src + a - dst]
                      ELSE m[a]]
memset(m, dst, n) == [a \in DOMAIN m |-> IF a \in dst .. dst + n - 1 THEN Zero ELSE m[a]]

\* The magic numbers and the subsystem
CheckHeaders ==
  /\ pe_pc = "check"
  /\ pe_pc' = IF file.efi THEN "headers" ELSE "refused"
  /\ UNCHANGED <<file, mem, i>>

CopyHeaders ==
  /\ pe_pc = "headers"
  /\ mem' = memcpy(mem, LOAD_OFFSET, 0, 1)
  /\ pe_pc' = "sections" /\ UNCHANGED <<file, i>>

CopySectionRawOnly ==
  LET s == file.sections[i]
  IN /\ pe_pc = "sections" /\ i =< Len(file.sections)
     /\ mem' = memcpy(mem, LOAD_OFFSET + s.VirtualAddress, s.PointerToRawData, s.SizeOfRawData)
     /\ i' = i + 1 /\ UNCHANGED <<file, pe_pc>>
CopySection ==
  LET s == file.sections[i]
      dst == LOAD_OFFSET + s.VirtualAddress
      copied == memcpy(mem, dst, s.PointerToRawData, s.SizeOfRawData)
  IN /\ pe_pc = "sections" /\ i =< Len(file.sections)
     /\ mem' = memset(copied, dst + s.SizeOfRawData, s.VirtualSize - s.SizeOfRawData)
     /\ i' = i + 1 /\ UNCHANGED <<file, pe_pc>>

\* apply_relocations returns at once when the image lies where it was linked to.
SectionsDone ==
  /\ pe_pc = "sections" /\ i > Len(file.sections)
  /\ pe_pc' = IF file.at_base THEN "patch" ELSE "relocs"
  /\ i' = 1 /\ UNCHANGED <<file, mem>>

RelocateBlock ==
  LET block == file.relocs[i]
  IN /\ pe_pc = "relocs" /\ i =< Len(file.relocs) /\ block.whole
     /\ mem' = [a \in DOMAIN mem |-> IF a - LOAD_OFFSET \in Targets(block)
                                     THEN [mem[a] EXCEPT !.relocated = @ + 1] ELSE mem[a]]
     /\ i' = i + 1 /\ UNCHANGED <<file, pe_pc>>

\* The end of the directory (there may be none), or a block too short to be one.
RelocsDone ==
  /\ pe_pc = "relocs"
  /\ i =< Len(file.relocs) => ~file.relocs[i].whole
  /\ pe_pc' = "patch" /\ UNCHANGED <<file, mem, i>>

PatchImageBase ==
  /\ pe_pc = "patch"
  /\ mem' = [mem EXCEPT ![LOAD_OFFSET].patched = TRUE, ![0].patched = TRUE]
  /\ pe_pc' = "entered" /\ UNCHANGED <<file, i>>

\* The entry point does not come back, or format_pe returns: the firmware hangs.
Halt == pe_pc \in {"refused", "entered"} /\ UNCHANGED peVars

PeNext == CheckHeaders \/ CopyHeaders \/ CopySection \/ SectionsDone \/ RelocateBlock
        \/ RelocsDone \/ PatchImageBase \/ Halt

PeSpec == PeInit /\ [][PeNext]_peVars

-----------------------------------------------------------------------------
\* The blocks before one cut short
Applied == {b \in DOMAIN file.relocs : \A c \in 1 .. b : file.relocs[c].whole}
Relocated(a) == ~file.at_base /\ \E b \in Applied : a \in Targets(file.relocs[b])

\* When the entry point is called every section is in place: its part of the file,
\* zeros behind it, and one relocation of each cell that the table names.  The file
\* is still whole then, its ImageBase changed, "because the shell may read from
\* either location" (format_PE.c).
ImageFaithful ==
  pe_pc = "entered" =>
    /\ \A s \in DOMAIN file.sections : \A a \in Extent(file.sections[s]) :
         LET sec == file.sections[s]
             c == a - sec.VirtualAddress
             held == mem[LOAD_OFFSET + a]
         IN /\ held.from = IF c < sec.SizeOfRawData THEN sec.PointerToRawData + c ELSE Zero.from
            /\ held.relocated = IF Relocated(a) THEN 1 ELSE 0
    /\ \A a \in 0 .. file.len - 1 : mem[a] = [OfFile(a) EXCEPT !.patched = (a = 0)]
=============================================================================
