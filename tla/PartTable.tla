----------------------------- MODULE PartTable -----------------------------
(***************************************************************************)
(* How the firmware finds the EFI system partition and opens the volume on *)
(* it: load_part_table (src/guest/firmware/disk/esp.c), open_fat32 and the *)
(* addresses it gives to FAT entries and clusters                          *)
(* (src/guest/firmware/disk/fat32.c).  BootDisk takes over from there.     *)
(*                                                                         *)
(* The disk is arbitrary.  The partition table is counted in units of one  *)
(* entry's 128 bytes, so unit u of it holds one entry and its partition    *)
(* starts at sector First(u).  Any read may fail.                          *)
(***************************************************************************)
EXTENDS Naturals, FiniteSets

CONSTANTS
  TableUnits,   \* units of the partition table that lie on the disk
  PerSector,    \* units in a sector, 4 in the code
  Wrap,         \* 2^32 in units: entry_count * entry_size is a uint32_t
  Counts,       \* num_partition_entries
  EntrySizes,   \* partition_entry_size, in units
  Geometries,   \* boot sectors of volumes
  FatPerSector  \* FAT entries in a sector, 128 in the code

PartTypes == {"empty", "esp", "other"}
PartEntry == 0 .. TableUnits - 1
Headers == [good : BOOLEAN, count : Counts, size : EntrySizes]
Geometry == [bytes_per_sector : {0, 512}, sectors_per_cluster : Nat,
             reserved_sectors : Nat, num_fats : Nat, fat_size : Nat]

ASSUME PartTableAssumption ==
  /\ TableUnits \in Nat \ {0} /\ PerSector \in Nat \ {0} /\ Wrap \in Nat \ {0}
  /\ Counts \subseteq Nat /\ EntrySizes \subseteq Nat \ {0}
  /\ Geometries \subseteq Geometry /\ FatPerSector \in Nat \ {0}

VARIABLES
  table, header,   \* the disk: types of the entries; checks, count and size
  part_pc,
  part_i, buffer,  \* of load_part_table: entry looked at, units read
  range, number,   \* first_sector, by its entry, and gDiskPath's number
  bpb              \* the boot sector open_fat32 read

partDisk == <<table, header>>
partVars == <<partDisk, part_pc, part_i, buffer, range, number, bpb>>

NoBpb == [bytes_per_sector |-> 0, sectors_per_cluster |-> 0, reserved_sectors |-> 0,
          num_fats |-> 0, fat_size |-> 0]

\* range is an uninitialised local of load_efi_application; gDiskPath starts with
\* partition 1.
PartInit ==
  /\ table \in [PartEntry -> PartTypes]
  /\ header \in Headers
  /\ part_pc = "read_headers" /\ part_i = 0 /\ buffer = 0
  /\ range \in {0, TableUnits} /\ number = 1 /\ bpb = NoBpb

-----------------------------------------------------------------------------
Fail == part_pc' = "error" /\ UNCHANGED <<part_i, buffer, range, number, bpb>>

\* Sectors 0 and 1: boot signature, protective type, "EFI PART", revision
ReadHeaders ==
  /\ part_pc = "read_headers"
  /\ \/ Fail
     \/ /\ header.good /\ part_pc' = "read_table"
        /\ UNCHANGED <<part_i, buffer, range, number, bpb>>
  /\ UNCHANGED partDisk

\* The product keeps 32 bits and is rounded up to whole sectors.
ReadTable ==
  /\ part_pc = "read_table"
  /\ \/ Fail
     \/ LET bytes == (header.count * header.size) % Wrap
        IN  /\ buffer' = ((bytes + PerSector - 1) \div PerSector) * PerSector
            /\ part_pc' = "scan" /\ UNCHANGED <<part_i, range, number, bpb>>
  /\ UNCHANGED partDisk

\* What lies at an entry: past the buffer, anything.
EntryAt(n) ==
  LET u == (n * header.size) % Wrap
  IN  IF u < buffer /\ u < TableUnits THEN {[type |-> table[u], first |-> u]}
      ELSE [type : PartTypes, first : {TableUnits}]

ScanEntryKeepsOn ==
  /\ part_pc = "scan"
  /\ \/ part_i >= header.count /\ part_pc' = "open_fat32" /\ UNCHANGED <<part_i, range, number>>
     \/ /\ part_i < header.count
        /\ \E e \in EntryAt(part_i) :
             IF e.type = "esp"
             THEN range' = e.first /\ number' = part_i + 1 /\ part_i' = part_i + 1 /\ UNCHANGED part_pc
             ELSE part_i' = part_i + 1 /\ UNCHANGED <<part_pc, range, number>>
  /\ UNCHANGED <<partDisk, buffer, bpb>>
\* One turn of the loop: empty and foreign entries are passed over, the first
\* system partition ends it.  Without one the loop ends all the same, with
\* success.
ScanEntry ==
  /\ part_pc = "scan"
  /\ \/ part_i >= header.count /\ part_pc' = "open_fat32" /\ UNCHANGED <<part_i, range, number>>
     \/ /\ part_i < header.count
        /\ \E e \in EntryAt(part_i) :
             IF e.type = "esp"
             THEN /\ range' = e.first /\ number' = part_i + 1
                  /\ part_pc' = "open_fat32" /\ UNCHANGED part_i
             ELSE part_i' = part_i + 1 /\ UNCHANGED <<part_pc, range, number>>
  /\ UNCHANGED <<partDisk, buffer, bpb>>

\* open_fat32: the sector size must be 512 and a cluster not empty.
open_fat32 ==
  /\ part_pc = "open_fat32"
  /\ \/ Fail
     \/ \E g \in Geometries :
          /\ g.bytes_per_sector = 512 /\ g.sectors_per_cluster # 0
          /\ bpb' = g /\ part_pc' = "opened"
          /\ UNCHANGED <<part_i, buffer, range, number>>
  /\ UNCHANGED partDisk

PartStopped == part_pc \in {"opened", "error"} /\ UNCHANGED partVars

PartNext == ReadHeaders \/ ReadTable \/ ScanEntry \/ open_fat32 \/ PartStopped
PartSpec == PartInit /\ [][PartNext]_partVars

-----------------------------------------------------------------------------
(* Where things lie in the partition, in sectors from its start *)

data_start_lba == bpb.reserved_sectors + bpb.num_fats * bpb.fat_size
cluster_to_lba(c) == data_start_lba + (c - 2) * bpb.sectors_per_cluster
ClusterSectors(c) == cluster_to_lba(c) .. cluster_to_lba(c) + bpb.sectors_per_cluster - 1

\* read_fat_entry: the sector and the place in it
FatEntry(c) == <<bpb.reserved_sectors + c \div FatPerSector, c % FatPerSector>>

\* The clusters a FAT of fat_size sectors has entries for
Covered == 2 .. bpb.fat_size * FatPerSector - 1

Esps == {n \in 0 .. header.count - 1 :
           n * header.size < TableUnits /\ table[n * header.size] = "esp"}

PartitionFound ==
  IF Esps = {} THEN number = 1 /\ range \in {0, TableUnits}
  ELSE \E n \in Esps : /\ \A m \in Esps : n =< m
                       /\ range = n * header.size /\ number = n + 1

PlacesApart ==
  /\ \A c \in Covered :
       /\ \A s \in ClusterSectors(c) : s >= data_start_lba
       /\ \A d \in Covered \ {c} :
            ClusterSectors(c) \cap ClusterSectors(d) = {} /\ FatEntry(c) # FatEntry(d)
       /\ FatEntry(c)[1] \in bpb.reserved_sectors .. bpb.reserved_sectors + bpb.fat_size - 1
  /\ 2 \in Covered => data_start_lba \in ClusterSectors(2)

\* A table that fits 32 bits is searched right: if it names a system partition,
\* the volume is opened at the first one and the device path carries that one's
\* number, else range and number are untouched, which only the boot sector's check
\* stands against.  The whole table is in the buffer before any entry is looked at.
\* Whatever boot sector is then accepted, clusters and FAT entries have places of
\* their own: no two clusters share a sector, none lies in the reserved sectors
\* or a FAT, the first data sector is in cluster 2, and every cluster's entry is
\* in the first FAT.
VolumeFound ==
  /\ header.count * header.size < Wrap /\ header.count * header.size =< TableUnits =>
       /\ part_pc = "scan" => header.count * header.size =< buffer
       /\ part_pc \in {"open_fat32", "opened"} => PartitionFound
  /\ part_pc = "opened" => PlacesApart
=============================================================================
