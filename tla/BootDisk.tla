------------------------------ MODULE BootDisk ------------------------------
(***************************************************************************)
(* How the firmware gets from the disk to the boot loader                  *)
(* (src/guest/firmware/disk/boot.c, esp.c, fat32.c, called by main64.c):   *)
(* it finds the EFI system partition, walks a path of directories along    *)
(* their cluster chains and reads the file at its end, one cluster at a    *)
(* time, any read of the disk failing.                                     *)
(*                                                                         *)
(* A volume is arbitrary: chains may be short, shared or cyclic.  Sectors  *)
(* are one cluster long; data is counted in units of which ClusterSize     *)
(* make a cluster, and is told apart by where it lies.                     *)
(***************************************************************************)
EXTENDS Naturals, Sequences, FiniteSets

CONSTANTS
  Clusters,      \* numbers of the data clusters of the volume
  RootCluster,   \* fat.root_cluster
  EOC,           \* a FAT entry of 0x0FFFFFF8 or more
  ClusterSize,   \* units in a cluster
  PerCluster,    \* directory entries in a cluster
  FileSizes,     \* sizes of files, in units
  Depth          \* names on the path: directories, then the file

ASSUME BootDiskAssumption ==
  /\ RootCluster \in Clusters /\ EOC \notin Clusters
  /\ ClusterSize \in Nat \ {0} /\ PerCluster \in Nat \ {0} /\ FileSizes \subseteq Nat
  /\ Depth \in Nat \ {0}

\* A directory entry as find_in_dir sees it: the end mark, one to pass over
\* (deleted, long name or another name) or the one looked for.
DirEntry ==
  [kind : {"end", "skip"}, first : {RootCluster}, size : {0}]
    \cup [kind : {"dir"}, first : Clusters, size : {0}]
    \cup [kind : {"file"}, first : Clusters, size : FileSizes]

VARIABLES
  fat, dirs,                            \* the volume: FAT and directory clusters
  pc,
  depth,                                \* names of the path found so far
  current_cluster, entry_index, entry,  \* of the Fat32_Handle and its last entry
  cluster, remaining, buf               \* of read_file

volume == <<fat, dirs>>
walk == <<depth, current_cluster, entry_index, entry>>
reading == <<cluster, remaining, buf>>
diskVars == <<volume, pc, walk, reading>>

NoEntry == [kind |-> "end", first |-> RootCluster, size |-> 0]

DiskInit ==
  /\ fat \in [Clusters -> Clusters \cup {EOC}]
  /\ dirs \in [Clusters -> [1 .. PerCluster -> DirEntry]]
  /\ pc = "part_table" /\ depth = 0
  /\ current_cluster = RootCluster /\ entry_index = 0 /\ entry = NoEntry
  /\ cluster = RootCluster /\ remaining = 0 /\ buf = <<>>

-----------------------------------------------------------------------------
Hang == pc' = "hang" /\ UNCHANGED <<walk, reading>>

\* load_part_table and open_fat32: each reads the disk and checks what it finds.
LoadPartTable ==
  /\ pc = "part_table"
  /\ Hang \/ (pc' = "open_fat32" /\ UNCHANGED <<walk, reading>>)
  /\ UNCHANGED volume

OpenFat32 ==
  /\ pc = "open_fat32"
  /\ Hang \/ (pc' = "open_dir" /\ UNCHANGED <<walk, reading>>)
  /\ UNCHANGED volume

\* load_cluster, after which the directory is scanned from its start.
LoadCluster(c) ==
  \/ Hang
  \/ /\ current_cluster' = c /\ entry_index' = 0 /\ pc' = "scan"
     /\ UNCHANGED <<depth, entry, reading>>

ReadFatEntry(c) == fat[c]

\* open_root_dir first, then open_dir_entry of the entry found
OpenDir ==
  /\ pc = "open_dir"
  /\ \/ depth = 0 /\ LoadCluster(RootCluster)
     \/ depth > 0 /\ entry.kind = "dir" /\ LoadCluster(entry.first)
     \/ depth > 0 /\ entry.kind # "dir" /\ Hang
  /\ UNCHANGED volume

NextDirEntryStuck ==
  LET e == dirs[current_cluster][entry_index + 1]
  IN  /\ pc = "scan" /\ entry_index < PerCluster
      /\ \/ e.kind = "end" /\ Hang
         \/ e.kind = "skip" /\ UNCHANGED <<pc, walk, reading>>
         \/ /\ e.kind \in {"dir", "file"}
            /\ entry' = e /\ entry_index' = entry_index + 1 /\ depth' = depth + 1
            /\ pc' = IF depth' < Depth THEN "open_dir" ELSE "read_file"
            /\ UNCHANGED <<current_cluster, reading>>
      /\ UNCHANGED volume
\* find_in_dir with next_dir_entry: one entry at a time ...
NextDirEntry ==
  LET e == dirs[current_cluster][entry_index + 1]
  IN  /\ pc = "scan" /\ entry_index < PerCluster
      /\ \/ e.kind = "end" /\ Hang
         \/ /\ e.kind = "skip" /\ entry_index' = entry_index + 1
            /\ UNCHANGED <<pc, depth, current_cluster, entry, reading>>
         \/ /\ e.kind \in {"dir", "file"}
            /\ entry' = e /\ entry_index' = entry_index + 1 /\ depth' = depth + 1
            /\ pc' = IF depth' < Depth THEN "open_dir" ELSE "read_file"
            /\ UNCHANGED <<current_cluster, reading>>
      /\ UNCHANGED volume

\* ... and then the next cluster of the directory.
NextDirCluster ==
  /\ pc = "scan" /\ entry_index = PerCluster
  /\ \/ Hang
     \/ ReadFatEntry(current_cluster) # EOC /\ LoadCluster(ReadFatEntry(current_cluster))
  /\ UNCHANGED volume

\* read_file; whatever it returns, load_efi_application reports success and
\* main64 goes on to format_pe.
ReadFile ==
  /\ pc = "read_file"
  /\ IF entry.kind = "dir" \/ entry.size = 0
       THEN pc' = "format_pe" /\ UNCHANGED reading
       ELSE /\ pc' = "read_cluster"
            /\ cluster' = entry.first /\ remaining' = entry.size /\ buf' = <<>>
  /\ UNCHANGED <<volume, walk>>

Units(c, n) == [k \in 1 .. n |-> <<c, k>>]

ReadClusterNext ==
  LET to_read == IF remaining < ClusterSize THEN remaining ELSE ClusterSize
  IN  /\ pc = "read_cluster"
      /\ \/ pc' = "format_pe" /\ UNCHANGED reading
         \/ /\ buf' = buf \o Units(cluster, to_read)
            /\ remaining' = remaining - to_read
            /\ \/ pc' = "format_pe" /\ UNCHANGED cluster
               \/ /\ remaining' > 0 /\ cluster + 1 \in Clusters
                  /\ cluster' = cluster + 1 /\ UNCHANGED pc
      /\ UNCHANGED <<volume, walk>>
\* One turn of read_file's loop: the cluster's data, unless the disk fails, and,
\* while data is missing, the next cluster, unless the disk fails or the chain
\* ends.
ReadCluster ==
  LET to_read == IF remaining < ClusterSize THEN remaining ELSE ClusterSize
  IN  /\ pc = "read_cluster"
      /\ \/ pc' = "format_pe" /\ UNCHANGED reading
         \/ /\ buf' = buf \o Units(cluster, to_read)
            /\ remaining' = remaining - to_read
            /\ \/ pc' = "format_pe" /\ UNCHANGED cluster
               \/ /\ remaining' > 0 /\ ReadFatEntry(cluster) # EOC
                  /\ cluster' = ReadFatEntry(cluster) /\ UNCHANGED pc
      /\ UNCHANGED <<volume, walk>>

Stopped == pc \in {"hang", "format_pe"} /\ UNCHANGED diskVars

Boot ==
  \/ LoadPartTable \/ OpenFat32 \/ OpenDir \/ NextDirEntry \/ NextDirCluster
  \/ ReadFile \/ ReadCluster

DiskNext == Boot \/ Stopped
DiskSpec == DiskInit /\ [][DiskNext]_diskVars
DiskFairSpec == DiskSpec /\ WF_diskVars(Boot)

-----------------------------------------------------------------------------
(* What the volume holds, read off its FAT. *)

\* The entry looked for in the directory at c is the first one that is not to be
\* passed over, along the chain: it lies in a cluster that every set holds which
\* holds c and, with a cluster that is passed over, the next one of the chain.
PassedOver(d) == \A j \in 1 .. PerCluster : dirs[d][j].kind = "skip"
Searched(c, S) ==
  c \in S /\ \A d \in S : PassedOver(d) /\ fat[d] # EOC => fat[d] \in S
FoundIn(c, e) ==
  \E d \in Clusters, j \in 1 .. PerCluster :
    /\ \A S \in SUBSET Clusters : Searched(c, S) => d \in S
    /\ dirs[d][j] = e /\ \A k \in 1 .. j - 1 : dirs[d][k].kind = "skip"

\* The entries found on the way are directories, each found in the one before.
Named == {e \in DirEntry : e.kind \in {"dir", "file"}}
FoundThrough(s) ==
  \A k \in DOMAIN s :
    /\ k = 1 => FoundIn(RootCluster, s[k])
    /\ k > 1 => s[k - 1].kind = "dir" /\ FoundIn(s[k - 1].first, s[k])

\* The unit after u in a file: the next of its cluster or, after the last, the
\* first of the cluster the FAT names.
UnitAfter(u) == IF u[2] < ClusterSize THEN <<u[1], u[2] + 1>> ELSE <<fat[u[1]], 1>>
Begins(b, e) ==
  /\ Len(b) =< e.size
  /\ \A k \in DOMAIN b : b[k] = IF k = 1 THEN <<e.first, 1>> ELSE UnitAfter(b[k - 1])

\* The boot file is the right one and its bytes are.  It is reached through
\* directories alone, each time by the first entry of the name in the directory's
\* chain.  What is in the buffer is always the beginning of the file, in the order
\* of its chain, however the file is scattered and wherever a read fails.
BootFileExact ==
  /\ (pc \in {"open_dir", "read_file"} /\ depth > 0) =>
       \E s \in [1 .. depth -> Named] : s[depth] = entry /\ FoundThrough(s)
  /\ pc \in {"read_cluster", "format_pe"} => Begins(buf, entry)

\* The first n clusters of the chain at c
Chain(c, n) ==
  LET at[k \in 1 .. n] == IF k = 1 THEN c ELSE IF at[k - 1] = EOC THEN EOC ELSE fat[at[k - 1]]
  IN  at
Straight(c) == \E n \in 1 .. Cardinality(Clusters) + 1 : Chain(c, n)[n] = EOC
DirsStraight ==
  /\ Straight(RootCluster)
  /\ \A c \in Clusters, j \in 1 .. PerCluster :
       dirs[c][j].kind = "dir" => Straight(dirs[c][j].first)

\* Unless a directory's chain is cyclic, the firmware stops: it hangs or starts
\* the boot loader.  A cycle in the file's chain does not keep read_file going.
BootEnds == DirsStraight => <>(pc \in {"hang", "format_pe"})
=============================================================================
