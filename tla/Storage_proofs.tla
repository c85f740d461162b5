--------------------------- MODULE Storage_proofs ---------------------------
(***************************************************************************)
(* From the block device to the boot file: BlkSystem, for any sectors,     *)
(* values and number of requests; PartTable, for any table and boot        *)
(* sector; BootDisk, for any volume.                                       *)
(***************************************************************************)
EXTENDS BlkSystem, PartTable, BootDisk, SequenceTheorems, TLAPS

-----------------------------------------------------------------------------
(***************************************************************************)
(* BootDisk: the file handed on is the one the path names, from its first  *)
(* byte. The invariant keeps the entries found on the way down and, while  *)
(* the file is read, that the buffer begins its chain.                     *)
(***************************************************************************)

DiskType ==
  /\ fat \in [Clusters -> Clusters \cup {EOC}]
  /\ dirs \in [Clusters -> [1 .. PerCluster -> DirEntry]]
  /\ pc \in {"part_table", "open_fat32", "open_dir", "scan", "read_file", "read_cluster",
             "format_pe", "hang"}
  /\ depth \in Nat /\ current_cluster \in Clusters /\ entry_index \in 0 .. PerCluster
  /\ entry \in DirEntry /\ cluster \in Clusters /\ remaining \in Nat
  /\ buf \in Seq(Clusters \X (1 .. ClusterSize))

\* The names found so far lead to the entry.
Led == depth > 0 => \E s \in [1 .. depth -> Named] : s[depth] = entry /\ FoundThrough(s)

\* The directory searched is the root or the one just found; the search has come to
\* the current cluster past nothing but entries to pass over.
Searching(c) ==
  /\ IF depth = 0 THEN c = RootCluster ELSE entry.kind = "dir" /\ c = entry.first
  /\ \A S \in SUBSET Clusters : Searched(c, S) => current_cluster \in S
  /\ \A k \in 1 .. entry_index : dirs[current_cluster][k].kind = "skip"

\* While the file is read its clusters so far are whole, and the cluster that comes
\* next is the one its chain names.
Reading ==
  /\ remaining > 0 /\ Len(buf) + remaining = entry.size
  /\ IF buf = <<>> THEN cluster = entry.first
     ELSE buf[Len(buf)][2] = ClusterSize /\ cluster = fat[buf[Len(buf)][1]]

DiskInv ==
  /\ DiskType
  /\ pc \in {"part_table", "open_fat32"} => depth = 0
  /\ pc \in {"open_dir", "scan", "read_file"} => Led
  /\ pc = "scan" => \E c \in Clusters : Searching(c)
  /\ pc \notin {"read_cluster", "format_pe", "hang"} => buf = <<>>
  /\ pc = "read_cluster" => Reading
  /\ pc \in {"read_cluster", "format_pe"} => Begins(buf, entry)

\* The fields of a directory entry.
LEMMA EntryIs ==
  ASSUME NEW e \in DirEntry
  PROVE  /\ e.first \in Clusters /\ e.size \in Nat
         /\ e.kind \in {"end", "skip", "dir", "file"}
<1>1. CASE e \in [kind : {"end", "skip"}, first : {RootCluster}, size : {0}]
  BY <1>1, BootDiskAssumption
<1>2. CASE e \in [kind : {"dir"}, first : Clusters, size : {0}]
  BY <1>2
<1>3. CASE e \in [kind : {"file"}, first : Clusters, size : FileSizes]
  BY <1>3, BootDiskAssumption, Zenon
<1> QED BY <1>1, <1>2, <1>3, Zenon DEF DirEntry

\* What is found on an unchanged volume stays found.
LEMMA VolumeKept ==
  ASSUME UNCHANGED volume
  PROVE  /\ \A c, S : Searched(c, S)' <=> Searched(c, S)
         /\ \A s : FoundThrough(s)' <=> FoundThrough(s)
         /\ \A b, e : Begins(b, e)' <=> Begins(b, e)
BY DEF volume, Searched, PassedOver, FoundThrough, FoundIn, Begins, UnitAfter

\* The invariant holds before a directory is opened.
LEMMA DiskStart == DiskInit => DiskInv
<1> SUFFICES ASSUME DiskInit PROVE DiskInv
  BY Zenon
<1>1. NoEntry \in DirEntry
  BY Zenon DEF NoEntry, DirEntry
<1>2. buf \in Seq(Clusters \X (1 .. ClusterSize))
  BY DEF DiskInit
<1>3. DiskType
  BY <1>1, <1>2, BootDiskAssumption DEF DiskInit, DiskType
<1> QED BY <1>3, Zenon DEF DiskInit, DiskInv

\* Giving up keeps it.
LEMMA DiskHang ==
  ASSUME DiskInv, Hang, UNCHANGED volume
  PROVE  DiskInv'
<1>1. UNCHANGED <<fat, dirs, depth, current_cluster, entry_index, entry, cluster, remaining, buf>>
      /\ pc' = "hang"
  BY Zenon DEF Hang, volume, walk, reading
<1>2. DiskType'
  BY <1>1, Zenon DEF DiskInv, DiskType
<1> QED BY <1>1, <1>2, Zenon DEF DiskInv

\* Opening a directory, the root or the one just found
LEMMA DiskOpens ==
  ASSUME DiskInv, OpenDir
  PROVE  DiskInv'
<1>1. UNCHANGED volume /\ pc = "open_dir" /\ DiskType /\ Led /\ buf = <<>>
  BY Zenon DEF OpenDir, DiskInv
<1>2. ASSUME NEW c \in Clusters, LoadCluster(c), ~Hang,
             IF depth = 0 THEN c = RootCluster ELSE entry.kind = "dir" /\ c = entry.first
      PROVE  DiskInv'
  <2>1. /\ current_cluster' = c /\ entry_index' = 0 /\ pc' = "scan"
        /\ UNCHANGED <<fat, dirs, depth, entry, cluster, remaining, buf>>
    BY <1>1, <1>2, Zenon DEF LoadCluster, reading, volume
  <2>2. DiskType'
    BY <1>1, <2>1, BootDiskAssumption DEF DiskType
  <2>3. Led'
    BY <1>1, <2>1, VolumeKept, Zenon DEF Led
  <2>4. Searching(c)'
    <3>1. \A S \in SUBSET Clusters : Searched(c, S)' => c \in S
      BY Zenon DEF Searched
    <3> QED BY <1>2, <2>1, <3>1 DEF Searching
  <2> QED BY <1>1, <2>1, <2>2, <2>3, <2>4 DEF DiskInv
<1>3. CASE Hang
  BY <1>1, <1>3, DiskHang, Zenon
<1>4. CASE ~Hang /\ depth = 0
  <2>1. LoadCluster(RootCluster)
    BY <1>1, <1>4 DEF OpenDir, DiskType
  <2> QED BY <1>2, <1>4, <2>1, BootDiskAssumption
<1>5. CASE ~Hang /\ depth # 0
  <2>1. entry.kind = "dir" /\ LoadCluster(entry.first)
    BY <1>1, <1>5 DEF OpenDir, DiskType
  <2>2. entry.first \in Clusters
    BY <1>1, EntryIs, Zenon DEF DiskType
  <2> QED BY <1>2, <1>5, <2>1, <2>2, Zenon
<1> QED BY <1>3, <1>4, <1>5, Zenon

\* An entry passed over or found
LEMMA DiskScans ==
  ASSUME DiskInv, NextDirEntry
  PROVE  DiskInv'
<1> DEFINE e == dirs[current_cluster][entry_index + 1]
<1>1. UNCHANGED volume /\ pc = "scan" /\ DiskType /\ Led /\ buf = <<>> /\ entry_index < PerCluster
  BY Zenon DEF NextDirEntry, DiskInv
<1>2. PICK c \in Clusters : Searching(c)
  BY <1>1, Zenon DEF DiskInv
<1>3. entry_index \in Nat /\ entry_index + 1 \in 1 .. PerCluster /\ e \in DirEntry
  BY <1>1, BootDiskAssumption DEF DiskType
<1>4. CASE Hang
  BY <1>1, <1>4, DiskHang, Zenon
<1>5. CASE /\ e.kind = "skip" /\ entry_index' = entry_index + 1
           /\ UNCHANGED <<pc, depth, current_cluster, entry, reading>>
  <2>1. UNCHANGED <<fat, dirs, pc, depth, current_cluster, entry, cluster, remaining, buf>>
    BY <1>1, <1>5, Zenon DEF reading, volume
  <2>2. DiskType'
    BY <1>1, <1>3, <1>5, <2>1, BootDiskAssumption DEF DiskType
  <2>3. Led'
    BY <1>1, <2>1, VolumeKept, Zenon DEF Led
  <2>4. Searching(c)'
    <3>1. \A S \in SUBSET Clusters : Searched(c, S)' => current_cluster' \in S
      BY <1>1, <1>2, <2>1, VolumeKept DEF Searching
    <3>2. \A k \in 1 .. entry_index + 1 : dirs[current_cluster][k].kind = "skip"
      BY <1>2, <1>3, <1>5 DEF Searching
    <3>3. IF depth = 0 THEN c = RootCluster ELSE entry.kind = "dir" /\ c = entry.first
      BY <1>2, Zenon DEF Searching
    <3> QED BY <1>5, <2>1, <3>1, <3>2, <3>3, Zenon DEF Searching
  <2> QED BY <1>1, <2>1, <2>2, <2>3, <2>4, Zenon DEF DiskInv
<1>6. CASE /\ e.kind \in {"dir", "file"}
           /\ entry' = e /\ entry_index' = entry_index + 1 /\ depth' = depth + 1
           /\ pc' = IF depth' < Depth THEN "open_dir" ELSE "read_file"
           /\ UNCHANGED <<current_cluster, reading>>
  <2>1. UNCHANGED <<fat, dirs, current_cluster, cluster, remaining, buf>>
    BY <1>1, <1>6, Zenon DEF reading, volume
  <2>2. pc' \in {"open_dir", "read_file"}
    BY <1>6, Zenon
  <2>3. DiskType'
    BY <1>1, <1>3, <1>6, <2>1, <2>2, BootDiskAssumption DEF DiskType
  <2>4. FoundIn(c, e)
    <3>1. current_cluster \in Clusters
      BY <1>1, Zenon DEF DiskType
    <3>2. \A S \in SUBSET Clusters : Searched(c, S) => current_cluster \in S
      BY <1>2, Zenon DEF Searching
    <3>3. \A k \in 1 .. entry_index + 1 - 1 : dirs[current_cluster][k].kind = "skip"
      BY <1>2, <1>3 DEF Searching
    <3> QED BY <1>3, <3>1, <3>2, <3>3 DEF FoundIn
  <2>5. e \in Named
    BY <1>3, <1>6, Zenon DEF Named
  <2>6. depth \in Nat
    BY <1>1, Zenon DEF DiskType
  <2>7. \E s \in [1 .. depth + 1 -> Named] : s[depth + 1] = e /\ FoundThrough(s)
    <3>1. CASE depth = 0
      <4>1. PICK s \in [1 .. depth + 1 -> Named] : s = [k \in 1 .. depth + 1 |-> e]
        BY <2>5, Zenon
      <4>2. c = RootCluster
        BY <1>2, <3>1, Zenon DEF Searching
      <4>3. s[1] = e /\ DOMAIN s = {1}
        BY <3>1, <4>1
      <4> HIDE DEF e
      <4>4. FoundThrough(s)
        BY <2>4, <4>2, <4>3 DEF FoundThrough
      <4>5. s[depth + 1] = e
        BY <3>1, <4>3
      <4> QED BY <4>4, <4>5, Zenon
    <3>2. CASE depth # 0
      <4>1. PICK s \in [1 .. depth -> Named] : s[depth] = entry /\ FoundThrough(s)
        BY <1>1, <2>6, <3>2 DEF Led
      <4>2. entry.kind = "dir" /\ c = entry.first
        BY <1>2, <3>2, Zenon DEF Searching
      <4> HIDE DEF e
      <4>0. ASSUME NEW k \in 1 .. depth + 1
            PROVE  (IF k = depth + 1 THEN e ELSE s[k]) \in Named
        <5>1. k # depth + 1 => k \in 1 .. depth
          BY <2>6
        <5> QED BY <2>5, <4>1, <5>1, Zenon
      <4>3. PICK z \in [1 .. depth + 1 -> Named] :
               z = [k \in 1 .. depth + 1 |-> IF k = depth + 1 THEN e ELSE s[k]]
        BY <4>0, Zenon
      <4>4. \A k \in 1 .. depth : z[k] = s[k]
        BY <2>6, <4>3
      <4>5. z[depth + 1] = e /\ DOMAIN z = 1 .. depth + 1 /\ DOMAIN s = 1 .. depth
        BY <2>6, <4>3
      <4>6. ASSUME NEW k \in 1 .. depth
            PROVE  /\ k = 1 => FoundIn(RootCluster, z[k])
                   /\ k > 1 => z[k - 1].kind = "dir" /\ FoundIn(z[k - 1].first, z[k])
        <5>1. /\ k = 1 => FoundIn(RootCluster, s[k])
              /\ k > 1 => s[k - 1].kind = "dir" /\ FoundIn(s[k - 1].first, s[k])
          <6>1. k \in DOMAIN s
            BY <4>5, Zenon
          <6> QED BY <4>1, <6>1, Zenon DEF FoundThrough
        <5>2. z[k] = s[k] /\ (k > 1 => z[k - 1] = s[k - 1])
          BY <4>4, <2>6
        <5> QED BY <5>1, <5>2, Zenon
      <4>7. z[depth].kind = "dir" /\ FoundIn(z[depth].first, z[depth + 1])
        <5>1. depth \in 1 .. depth
          BY <2>6, <3>2
        <5>2. z[depth] = entry
          BY <4>1, <4>4, <5>1, Zenon
        <5> QED BY <2>4, <4>2, <4>5, <5>2, Zenon
      <4>8. \A k \in 1 .. depth + 1 : k \in 1 .. depth \/ (k = depth + 1 /\ k # 1)
        BY <2>6, <3>2
      <4>9. FoundThrough(z)
        <5>1. ASSUME NEW k \in 1 .. depth + 1
              PROVE  /\ k = 1 => FoundIn(RootCluster, z[k])
                     /\ k > 1 => z[k - 1].kind = "dir" /\ FoundIn(z[k - 1].first, z[k])
          <6>1. CASE k \in 1 .. depth
            BY <4>6, <6>1, Zenon
          <6>2. CASE k = depth + 1 /\ k # 1
            <7>1. k - 1 = depth
              BY <2>6, <6>2
            <7> QED BY <4>7, <6>2, <7>1, Zenon
          <6> QED BY <4>8, <6>1, <6>2, Zenon
        <5> QED BY <4>5, <5>1, Zenon DEF FoundThrough
      <4> QED BY <4>5, <4>9, Zenon
    <3> QED BY <3>1, <3>2, Zenon
  <2>8. Led'
    <3> HIDE DEF e
    <3> QED BY <1>1, <1>6, <2>7, VolumeKept, Zenon DEF Led
  <2> QED BY <1>1, <2>1, <2>2, <2>3, <2>8, Zenon DEF DiskInv
<1> QED BY <1>4, <1>5, <1>6, Zenon DEF NextDirEntry

\* From a cluster passed over to the next one
LEMMA DiskFollows ==
  ASSUME DiskInv, NextDirCluster
  PROVE  DiskInv'
<1>1. UNCHANGED volume /\ pc = "scan" /\ DiskType /\ Led /\ buf = <<>> /\ entry_index = PerCluster
  BY Zenon DEF NextDirCluster, DiskInv
<1>2. PICK c \in Clusters : Searching(c)
  BY <1>1, Zenon DEF DiskInv
<1>3. CASE Hang
  BY <1>1, <1>3, DiskHang, Zenon
<1>4. CASE ~Hang
  <2> DEFINE d == fat[current_cluster]
  <2>1. /\ d # EOC /\ current_cluster' = d /\ entry_index' = 0 /\ pc' = "scan"
        /\ UNCHANGED <<fat, dirs, depth, entry, cluster, remaining, buf>>
    BY <1>1, <1>4, Zenon DEF NextDirCluster, LoadCluster, ReadFatEntry, reading, volume
  <2>2. current_cluster \in Clusters /\ d \in Clusters
    BY <1>1, <2>1, Zenon DEF DiskType
  <2>3. DiskType'
    BY <1>1, <2>1, <2>2, BootDiskAssumption DEF DiskType
  <2>4. Led'
    BY <1>1, <2>1, VolumeKept, Zenon DEF Led
  <2>5. PassedOver(current_cluster)
    BY <1>1, <1>2, Zenon DEF Searching, PassedOver
  <2>6. \A S \in SUBSET Clusters : Searched(c, S) => d \in S
    BY <1>2, <2>1, <2>5, Zenon DEF Searching, Searched
  <2>7. \A S \in SUBSET Clusters : Searched(c, S)' => current_cluster' \in S
    BY <1>1, <2>1, <2>6, VolumeKept, Zenon
  <2>8. IF depth = 0 THEN c = RootCluster ELSE entry.kind = "dir" /\ c = entry.first
    BY <1>2, Zenon DEF Searching
  <2>9. Searching(c)'
    BY <2>1, <2>7, <2>8 DEF Searching
  <2> QED BY <1>1, <2>1, <2>3, <2>4, <2>9, Zenon DEF DiskInv
<1> QED BY <1>3, <1>4, Zenon

\* Starting to read the file found keeps it.
LEMMA DiskFile ==
  ASSUME DiskInv, ReadFile
  PROVE  DiskInv'
<1>1. UNCHANGED <<fat, dirs, depth, current_cluster, entry_index, entry>>
      /\ pc = "read_file" /\ DiskType /\ buf = <<>> /\ buf' = <<>>
  BY Zenon DEF ReadFile, DiskInv, volume, walk, reading
<1>2. entry.first \in Clusters /\ entry.size \in Nat
  BY <1>1, EntryIs, Zenon DEF DiskType
<1>3. Len(buf') = 0 /\ DOMAIN buf' = {}
  BY <1>1
<1>4. Begins(buf, entry)'
  BY <1>1, <1>2, <1>3 DEF Begins
<1>5. CASE entry.kind = "dir" \/ entry.size = 0
  <2>1. pc' = "format_pe" /\ UNCHANGED <<cluster, remaining>>
    BY <1>5, Zenon DEF ReadFile, reading
  <2>2. DiskType'
    BY <1>1, <2>1, Zenon DEF DiskType
  <2> QED BY <1>1, <1>4, <2>1, <2>2, Zenon DEF DiskInv
<1>6. CASE ~(entry.kind = "dir" \/ entry.size = 0)
  <2>1. pc' = "read_cluster" /\ cluster' = entry.first /\ remaining' = entry.size
    BY <1>6, Zenon DEF ReadFile
  <2>2. DiskType'
    BY <1>1, <1>2, <2>1, Zenon DEF DiskType
  <2>3. Reading'
    BY <1>1, <1>2, <1>3, <1>6, <2>1 DEF Reading
  <2> QED BY <1>1, <1>4, <2>1, <2>2, <2>3, Zenon DEF DiskInv
<1> QED BY <1>5, <1>6, Zenon

\* One more cluster's data, and the step to the next cluster
LEMMA DiskReads ==
  ASSUME DiskInv, ReadCluster
  PROVE  DiskInv'
<1> DEFINE n == IF remaining < ClusterSize THEN remaining ELSE ClusterSize
           U == Clusters \X (1 .. ClusterSize)
<1>1. UNCHANGED <<fat, dirs, depth, current_cluster, entry_index, entry>>
      /\ pc = "read_cluster" /\ DiskType /\ Reading /\ Begins(buf, entry)
  BY Zenon DEF ReadCluster, DiskInv, volume, walk
<1>2. CASE pc' = "format_pe" /\ UNCHANGED reading
  <2>1. UNCHANGED <<cluster, remaining, buf>>
    BY <1>2, Zenon DEF reading
  <2>2. DiskType'
    BY <1>1, <1>2, <2>1, Zenon DEF DiskType
  <2>3. Begins(buf, entry)'
    BY <1>1, <2>1, Zenon DEF Begins, UnitAfter
  <2> QED BY <1>2, <2>2, <2>3, Zenon DEF DiskInv
<1>3. CASE /\ buf' = buf \o Units(cluster, n)
           /\ remaining' = remaining - n
           /\ \/ pc' = "format_pe" /\ UNCHANGED cluster
              \/ /\ remaining' > 0 /\ ReadFatEntry(cluster) # EOC
                 /\ cluster' = ReadFatEntry(cluster) /\ UNCHANGED pc
  <2>1. /\ remaining \in Nat /\ remaining > 0 /\ cluster \in Clusters /\ buf \in Seq(U)
        /\ entry.size \in Nat /\ Len(buf) + remaining = entry.size
    BY <1>1, EntryIs, Zenon DEF DiskType, Reading
  <2>2. n \in 1 .. ClusterSize /\ n =< remaining /\ (remaining - n > 0 => n = ClusterSize)
    BY <2>1, BootDiskAssumption
  <2> DEFINE v == Units(cluster, n)
  <2> HIDE DEF n
  <2>3. v \in Seq(U) /\ Len(v) = n /\ \A k \in 1 .. n : v[k] = <<cluster, k>>
    <3>1. v = [k \in 1 .. n |-> <<cluster, k>>]
      BY Zenon DEF Units
    <3>2. \A k \in 1 .. n : <<cluster, k>> \in U
      BY <2>1, <2>2, BootDiskAssumption
    <3>3. v \in [1 .. n -> U] /\ n \in Nat
      BY <2>2, <3>1, <3>2, BootDiskAssumption
    <3>4. v \in Seq(U)
      BY <3>3
    <3>5. Len(v) = n
      BY <3>3, <3>4
    <3> QED BY <3>1, <3>4, <3>5, Zenon
  <2> HIDE DEF v
  <2> DEFINE m == Len(buf)
  <2>4. m \in Nat /\ buf' \in Seq(U) /\ Len(buf') = m + n
        /\ (\A k \in 1 .. m : buf'[k] = buf[k])
        /\ (\A k \in m + 1 .. m + n : buf'[k] = v[k - m])
    <3>1. buf' = buf \o v
      BY <1>3, Zenon DEF v
    <3>2. Len(buf) \in Nat /\ Len(v) \in Nat
      BY <2>1, <2>3, LenProperties, Zenon
    <3>3. /\ buf \o v \in Seq(U) /\ Len(buf \o v) = Len(buf) + Len(v)
          /\ \A k \in 1 .. Len(buf) + Len(v) : (buf \o v)[k] =
                IF k =< Len(buf) THEN buf[k] ELSE v[k - Len(buf)]
      BY <2>1, <2>3, ConcatProperties, Zenon
    <3> HIDE DEF U
    <3> QED BY <2>2, <2>3, <3>1, <3>2, <3>3, BootDiskAssumption
  <2>5. \A k \in m + 1 .. m + n : buf'[k] = <<cluster, k - m>>
    <3>1. ASSUME NEW k \in m + 1 .. m + n PROVE k - m \in 1 .. n
      BY <2>2, <2>4, <3>1, BootDiskAssumption, SMTT(30)
    <3> QED BY <2>3, <2>4, <3>1, SMTT(30)
  <2>6. m + n =< entry.size /\ remaining - n \in Nat /\ m + n + (remaining - n) = entry.size
        /\ n \in Nat
    BY <2>1, <2>2, <2>4, BootDiskAssumption
  <2>7. IF m = 0 THEN cluster = entry.first
        ELSE buf[m][2] = ClusterSize /\ cluster = fat[buf[m][1]]
    BY <1>1, <2>1, EmptySeq, Zenon DEF Reading
  <2>8. \A k \in 1 .. m : buf[k] = IF k = 1 THEN <<entry.first, 1>> ELSE UnitAfter(buf[k - 1])
    BY <1>1, <2>1, LenProperties, Zenon DEF Begins
  <2> HIDE DEF m
  <2>9. ASSUME NEW k \in 1 .. m + n
        PROVE  buf'[k] = IF k = 1 THEN <<entry.first, 1>> ELSE UnitAfter(buf'[k - 1])
    <3>1. CASE k =< m
      <4>1. k \in 1 .. m /\ (k # 1 => k - 1 \in 1 .. m)
        BY <2>4, <2>6, <3>1
      <4>2. buf'[k] = buf[k] /\ (k # 1 => buf'[k - 1] = buf[k - 1])
        BY <2>4, <4>1, Zenon
      <4> QED BY <2>8, <4>1, <4>2, Zenon
    <3>2. CASE k = m + 1
      <4>1. buf'[k] = <<cluster, 1>>
        <5>1. k \in m + 1 .. m + n /\ k - m = 1
          BY <2>2, <2>4, <2>6, <3>2
        <5> QED BY <2>5, <5>1, Zenon
      <4>2. CASE m = 0
        BY <2>7, <3>2, <4>1, <4>2
      <4>3. CASE m # 0
        <5>1. k # 1 /\ k - 1 = m /\ m \in 1 .. m
          BY <2>4, <3>2, <4>3
        <5>2. buf'[k - 1] = buf[m]
          BY <2>4, <5>1, Zenon
        <5>3. buf[m][2] = ClusterSize /\ cluster = fat[buf[m][1]]
          BY <2>7, <4>3, Zenon
        <5>4. UnitAfter(buf[m]) = <<cluster, 1>>
          BY <5>3, BootDiskAssumption DEF UnitAfter
        <5> QED BY <4>1, <5>1, <5>2, <5>4, Zenon
      <4> QED BY <4>2, <4>3, Zenon
    <3>3. CASE k > m + 1
      <4>1. k \in m + 1 .. m + n /\ k - 1 \in m + 1 .. m + n /\ k # 1
            /\ k - 1 - m < ClusterSize /\ k - 1 - m + 1 = k - m
        BY <2>2, <2>4, <2>6, <3>3, BootDiskAssumption
      <4>2. buf'[k] = <<cluster, k - m>> /\ buf'[k - 1] = <<cluster, k - 1 - m>>
        BY <2>5, <4>1, Zenon
      <4>3. UnitAfter(<<cluster, k - 1 - m>>) = <<cluster, k - m>>
        BY <4>1, Zenon DEF UnitAfter
      <4> QED BY <4>1, <4>2, <4>3, Zenon
    <3>4. k =< m \/ k = m + 1 \/ k > m + 1
      BY <2>4, <2>6
    <3> QED BY <3>1, <3>2, <3>3, <3>4, Zenon
  <2>10. DOMAIN buf' = 1 .. m + n
    BY <2>4, LenProperties
  <2>11. Begins(buf, entry)'
    BY <1>1, <2>4, <2>6, <2>9, <2>10, Zenon DEF Begins, UnitAfter
  <2>12. pc' \in {"format_pe", "read_cluster"} /\ cluster' \in Clusters
    BY <1>1, <1>3, <2>1, Zenon DEF DiskType, ReadFatEntry
  <2>13. DiskType'
    BY <1>1, <1>3, <2>4, <2>6, <2>12, Zenon DEF DiskType
  <2>14. pc' = "read_cluster" => Reading'
    <3> SUFFICES ASSUME pc' = "read_cluster" PROVE Reading'
      BY Zenon
    <3>0. remaining' > 0 /\ cluster' = ReadFatEntry(cluster) /\ remaining' = remaining - n
      BY <1>3, Zenon
    <3>1. remaining' > 0 /\ cluster' = fat[cluster] /\ remaining' = remaining - n
      BY <3>0, Zenon DEF ReadFatEntry
    <3>2. n = ClusterSize /\ m + n \in m + 1 .. m + n /\ m + n - m = n /\ m + n # 0
      BY <2>2, <2>4, <2>6, <3>1, SMTT(30)
    <3>3. buf'[m + n] = <<cluster, ClusterSize>>
      <4>1. PICK k \in m + 1 .. m + n : k = m + n /\ k - m = ClusterSize
        BY <2>4, <2>6, <3>2
      <4>2. buf'[k] = <<cluster, k - m>>
        BY <2>5, Zenon
      <4> QED BY <4>1, <4>2, Zenon
    <3>4. buf' # <<>>
      BY <2>4, <3>2, EmptySeq, Zenon
    <3>5. Len(buf') = m + n /\ Len(buf') + remaining' = entry'.size
      BY <1>1, <2>4, <2>6, <3>1, Zenon
    <3>6. buf'[Len(buf')][2] = ClusterSize /\ cluster' = fat'[buf'[Len(buf')][1]]
      BY <1>1, <3>1, <3>3, <3>5
    <3> QED BY <3>1, <3>4, <3>5, <3>6, Zenon DEF Reading
  <2> QED BY <2>11, <2>12, <2>13, <2>14, Zenon DEF DiskInv
<1> QED BY <1>2, <1>3, Zenon DEF ReadCluster

\* Every step of finding and reading the boot file keeps the invariant.
LEMMA DiskSteps == DiskInv /\ [DiskNext]_diskVars => DiskInv'
<1> SUFFICES ASSUME DiskInv, [DiskNext]_diskVars PROVE DiskInv'
  BY Zenon
<1>1. CASE LoadPartTable \/ OpenFat32
  <2>1. UNCHANGED volume /\ pc \in {"part_table", "open_fat32"}
    BY <1>1, Zenon DEF LoadPartTable, OpenFat32
  <2>2. CASE Hang
    BY <2>1, <2>2, DiskHang, Zenon
  <2>3. CASE ~Hang
    <3>1. pc' \in {"open_fat32", "open_dir"} /\ UNCHANGED <<walk, reading>>
      BY <1>1, <2>3, Zenon DEF LoadPartTable, OpenFat32
    <3>2. UNCHANGED <<fat, dirs, depth, current_cluster, entry_index, entry, cluster, remaining, buf>>
      BY <2>1, <3>1, Zenon DEF volume, walk, reading
    <3>3. DiskType'
      BY <3>1, <3>2, Zenon DEF DiskInv, DiskType
    <3>4. depth' = 0 /\ buf' = <<>>
      BY <2>1, <3>2, Zenon DEF DiskInv
    <3>5. Led'
      BY <3>4 DEF Led
    <3> QED BY <3>1, <3>3, <3>4, <3>5, Zenon DEF DiskInv
  <2> QED BY <2>2, <2>3, Zenon
<1>2. CASE OpenDir
  BY <1>2, DiskOpens, Zenon
<1>3. CASE NextDirEntry
  BY <1>3, DiskScans
<1>4. CASE NextDirCluster
  BY <1>4, DiskFollows, Zenon
<1>5. CASE ReadFile
  BY <1>5, DiskFile, Zenon
<1>6. CASE ReadCluster
  BY <1>6, DiskReads, Zenon
<1>7. CASE UNCHANGED diskVars
  <2>1. UNCHANGED <<fat, dirs, pc, depth, current_cluster, entry_index, entry,
                    cluster, remaining, buf>>
    BY <1>7, SMTT(30) DEF diskVars, volume, walk, reading
  <2>2. DiskType' /\ (Reading' <=> Reading) /\ (Led' <=> Led)
    BY <2>1, VolumeKept DEF DiskInv, DiskType, Reading, Led, volume
  <2>3. \A c \in Clusters : Searching(c)' <=> Searching(c)
    BY <2>1, VolumeKept, Zenon DEF Searching, volume
  <2>4. Begins(buf, entry)' <=> Begins(buf, entry)
    BY <2>1, VolumeKept, Zenon DEF volume
  <2> QED BY <2>1, <2>2, <2>3, <2>4, Zenon DEF DiskInv
<1> QED BY <1>1, <1>2, <1>3, <1>4, <1>5, <1>6, <1>7, Zenon DEF DiskNext, Boot, Stopped

\* What is handed to format_pe is the file the path names, by the first entry of each
\* name, its bytes in the order of its chain (find_in_dir and read_file): for volumes
\* of every size, cyclic chains included, and paths of any depth.
THEOREM BootFileAlwaysExact == DiskSpec => []BootFileExact
<1>1. DiskInv => BootFileExact
  BY Zenon DEF DiskInv, Led, BootFileExact
<1> QED BY <1>1, DiskStart, DiskSteps, PTL DEF DiskSpec

-----------------------------------------------------------------------------
(***************************************************************************)
(* BlkSystem: a read sees what was written before it, and finished work is *)
(* announced. The invariant gives the requests that wait the images of the *)
(* disk between them.                                                      *)
(***************************************************************************)

Image == [Sectors -> Vals \cup {Eof}]

BlkTypes ==
  /\ avail \in Seq(Request) /\ used \in Seq(Result)
  /\ disk \in Image /\ model_disk \in Image
  /\ DOMAIN interrupt_status = {blk}
  /\ dev \in [by : {"none", "vcpu", "tick"}, count : Nat, did_work : BOOLEAN]

\* What a request does to an image it finds, and what it is to read from it
Effect(r, image) == IF r.write /\ r.kind = "ok" THEN Written(image, r.sector, r.val) ELSE image
WantOf(r, image) == IF r.write \/ r.kind # "ok" THEN Eof ELSE image[r.sector]

\* The images between the requests that wait: the first is the file, each request
\* turns one into the next and wants what it finds there, and the last is the
\* history's.
Stages(q, first, last, h) ==
  /\ h \in [1 .. Len(q) + 1 -> Image]
  /\ h[1] = first /\ h[Len(q) + 1] = last
  /\ \A x \in 1 .. Len(q) : h[x + 1] = Effect(q[x], h[x]) /\ q[x].want = WantOf(q[x], h[x])

BlkInv ==
  /\ BlkTypes
  /\ \E h : Stages(avail, disk, model_disk, h)
  /\ ReadsSeeWrites
  /\ WorkAnnounced

\* Writing a sector of a disk gives a disk.
LEMMA WrittenImage ==
  ASSUME NEW image \in Image, NEW s \in Sectors, NEW v \in Vals
  PROVE  Written(image, s, v) \in Image
BY BlkAssumption, Zenon DEF Written, Image

\* What a request does to a disk gives a disk, and what a read should see is a value.
LEMMA EffectImage ==
  ASSUME NEW r \in Request, NEW image \in Image
  PROVE  Effect(r, image) \in Image /\ WantOf(r, image) \in Vals \cup {Eof}
<1>1. r.sector \in Sectors /\ r.val \in Vals
  BY Zenon DEF Request
<1>2. image[r.sector] \in Vals \cup {Eof}
  BY <1>1, Zenon DEF Image
<1> QED  BY <1>1, <1>2, WrittenImage, Zenon DEF Effect, WantOf

\* A request more is an image more, ...
LEMMA ImagesAppend ==
  ASSUME NEW q \in Seq(Request), NEW first, NEW last, NEW h, Stages(q, first, last, h),
         NEW r \in Request, r.want = WantOf(r, last), last \in Image
  PROVE  \E g : Stages(Append(q, r), first, Effect(r, last), g)
<1> DEFINE n == Len(q)
           p == Append(q, r)
           g == [x \in 1 .. n + 2 |-> IF x <= n + 1 THEN h[x] ELSE Effect(r, last)]
<1>1. /\ n \in Nat /\ Len(p) = n + 1 /\ p[n + 1] = r
      /\ \A x \in 1 .. n : p[x] = q[x]
  OBVIOUS
<1>2. Effect(r, last) \in Image
  BY EffectImage, Zenon
<1>3. g \in [1 .. Len(p) + 1 -> Image]
  BY <1>1, <1>2 DEF Stages
<1>4. g[1] = first /\ g[Len(p) + 1] = Effect(r, last)
  BY <1>1 DEF Stages
<1>5. ASSUME NEW x \in 1 .. Len(p) PROVE g[x + 1] = Effect(p[x], g[x]) /\ p[x].want = WantOf(p[x], g[x])
  <2>1. CASE x = n + 1
    BY <1>1, <2>1 DEF Stages
  <2>2. CASE x \in 1 .. n
    <3>1. g[x] = h[x] /\ g[x + 1] = h[x + 1] /\ p[x] = q[x]
      BY <1>1, <2>2
    <3> HIDE DEF g, p
    <3> QED  BY <2>2, <3>1, Zenon DEF Stages
  <2> HIDE DEF g, p
  <2> QED  BY <1>1, <2>1, <2>2
<1> HIDE DEF g, p
<1>6. Stages(p, first, Effect(r, last), g)
  BY <1>3, <1>4, <1>5, Zenon DEF Stages
<1> QED  BY <1>6, Zenon DEF p

\* ... and one taken is an image less, at the front.
LEMMA ImagesTail ==
  ASSUME NEW q \in Seq(Request), q # <<>>, NEW first, NEW last, NEW h, Stages(q, first, last, h)
  PROVE  /\ Head(q).want = WantOf(Head(q), first)
         /\ \E g : Stages(Tail(q), Effect(Head(q), first), last, g)
<1> DEFINE n == Len(q)
           p == Tail(q)
           g == [x \in 1 .. n |-> h[x + 1]]
<1>1. /\ n \in Nat \ {0} /\ Len(p) = n - 1 /\ Head(q) = q[1]
      /\ \A x \in 1 .. n - 1 : p[x] = q[x + 1]
  OBVIOUS
<1>2. h[2] = Effect(q[1], h[1]) /\ q[1].want = WantOf(q[1], h[1]) /\ h[1] = first
  BY <1>1 DEF Stages
<1>3. g \in [1 .. Len(p) + 1 -> Image]
  BY <1>1 DEF Stages
<1>4. g[1] = Effect(Head(q), first) /\ g[Len(p) + 1] = last
  BY <1>1, <1>2 DEF Stages
<1>5. ASSUME NEW x \in 1 .. Len(p) PROVE g[x + 1] = Effect(p[x], g[x]) /\ p[x].want = WantOf(p[x], g[x])
  <2>1. g[x] = h[x + 1] /\ g[x + 1] = h[x + 2] /\ p[x] = q[x + 1]
    BY <1>1
  <2>2. x + 1 \in 1 .. n /\ (x + 1) + 1 = x + 2
    BY <1>1
  <2> HIDE DEF g, p
  <2> QED  BY <2>1, <2>2, Zenon DEF Stages
<1> HIDE DEF g, p
<1>6. Stages(p, Effect(Head(q), first), last, g)
  BY <1>3, <1>4, <1>5, Zenon DEF Stages
<1> QED  BY <1>1, <1>2, <1>6, Zenon DEF p

\* With no request outstanding the disk goes through no stages.
LEMMA NoneImages ==
  ASSUME NEW d \in Image
  PROVE  \E h : Stages(<<>>, d, d, h)
<1>1. Stages(<<>>, d, d, [x \in 1 .. 1 |-> d])
  BY DEF Stages
<1> QED  BY <1>1, Zenon

\* The invariant holds at the start.
LEMMA BlkStart == Init => BlkInv
<1> SUFFICES ASSUME Init PROVE BlkInv
  BY Zenon
<1>1. disk \in Image
  BY BlkAssumption, Zenon DEF Init, Image
<1>2. BlkTypes
  BY <1>1 DEF Init, T!Init, T!Dev, blk, NoCall, BlkTypes
<1>3. \E h : Stages(avail, disk, model_disk, h)
  BY <1>1, NoneImages, Zenon DEF Init
<1> QED  BY <1>2, <1>3 DEF Init, BlkInv, ReadsSeeWrites, WorkAnnounced

\* What the steps of the transport that this composition takes do to the two
\* things the invariant is about
LEMMA BlkStatus ==
  ASSUME BlkTypes
  PROVE  /\ \A v : T!WriteStatus(blk, v) =>
              DOMAIN interrupt_status' = {blk} /\ (v # 0 => UNCHANGED interrupt_status)
         /\ T!WriteQueueReady(blk, TRUE) => UNCHANGED interrupt_status
         /\ T!ReadInterruptStatus(blk) => DOMAIN interrupt_status' = {blk}
         /\ T!WriteInterruptAck(blk, 1) => DOMAIN interrupt_status' = {blk}
         /\ \A w \in BOOLEAN : T!WriteQueueNotify(blk, 0, w) =>
              DOMAIN interrupt_status' = {blk}
              /\ (interrupt_status'[blk] = IF w THEN 1 ELSE interrupt_status[blk])
         /\ \A w \in BOOLEAN : next_dev = blk /\ T!TickDevice(w) =>
              DOMAIN interrupt_status' = {blk}
              /\ (interrupt_status'[blk] = IF w THEN 1 ELSE interrupt_status[blk])
         /\ T!TickLock \/ T!TickUnlock \/ T!TakeCommands \/ T!Deliver \/ T!TickSleep
              => UNCHANGED interrupt_status
<1> USE DEF BlkTypes
<1>1. ASSUME NEW v, T!WriteStatus(blk, v)
      PROVE  DOMAIN interrupt_status' = {blk} /\ (v # 0 => UNCHANGED interrupt_status)
  BY <1>1, Zenon DEF T!WriteStatus
<1>2. T!WriteQueueReady(blk, TRUE) => UNCHANGED interrupt_status
  BY Zenon DEF T!WriteQueueReady
<1>3. T!ReadInterruptStatus(blk) => DOMAIN interrupt_status' = {blk}
  BY Zenon DEF T!ReadInterruptStatus
<1>4. T!WriteInterruptAck(blk, 1) => DOMAIN interrupt_status' = {blk}
  BY Zenon DEF T!WriteInterruptAck
<1>5. ASSUME NEW w \in BOOLEAN, T!WriteQueueNotify(blk, 0, w)
      PROVE  DOMAIN interrupt_status' = {blk}
             /\ (interrupt_status'[blk] = IF w THEN 1 ELSE interrupt_status[blk])
  BY <1>5, Zenon DEF T!WriteQueueNotify
<1>6. ASSUME NEW w \in BOOLEAN, next_dev = blk, T!TickDevice(w)
      PROVE  DOMAIN interrupt_status' = {blk}
             /\ (interrupt_status'[blk] = IF w THEN 1 ELSE interrupt_status[blk])
  BY <1>6, Zenon DEF T!TickDevice
<1>7. T!TickLock \/ T!TickUnlock \/ T!TakeCommands \/ T!Deliver \/ T!TickSleep
        => UNCHANGED interrupt_status
  BY Zenon DEF T!TickLock, T!TickUnlock, T!TakeCommands, T!Deliver, T!TickSleep, T!transportVars
<1> QED  BY <1>1, <1>2, <1>3, <1>4, <1>5, <1>6, <1>7, Zenon

\* Removing the oldest completion hides none of the others.
LEMMA BlkSeen ==
  ASSUME BlkInv, used # <<>>
  PROVE  /\ Tail(used) \in Seq(Result)
         /\ \A x \in DOMAIN Tail(used) : x + 1 \in DOMAIN used /\ Tail(used)[x] = used[x + 1]
<1>1. used \in Seq(Result)
  BY Zenon  DEF BlkInv, BlkTypes
<1> QED  BY <1>1

\* The requests of the ring, its completions, the file and the call are as before.
BlkStill == UNCHANGED <<avail, used, disk, model_disk>>

\* A step that leaves requests, rings and disk alone keeps it.
LEMMA BlkAside ==
  ASSUME BlkInv, BlkStill, DOMAIN interrupt_status' = {blk},
         dev' \in [by : {"none", "vcpu", "tick"}, count : Nat, did_work : BOOLEAN],
         WorkAnnounced'
  PROVE  BlkInv'
BY Zenon DEF BlkInv, BlkStill, BlkTypes, ReadsSeeWrites

\* Submitting a request keeps it: one more stage, after the others.
LEMMA BlkSubmit ==
  ASSUME BlkInv, NEW slot \in Slots, NEW write \in BOOLEAN, NEW sector \in Sectors,
         NEW val \in Vals, NEW kind \in Kinds, Submit(slot, write, sector, val, kind)
  PROVE  BlkInv'
<1> DEFINE r == [slot |-> slot, write |-> write, sector |-> sector, val |-> val, kind |-> kind,
                 want |-> IF write \/ kind # "ok" THEN Eof ELSE model_disk[sector]]
<1>1. model_disk \in Image /\ avail \in Seq(Request)
  BY Zenon DEF BlkInv, BlkTypes
<1>2. r \in Request
  BY <1>1, Zenon DEF Request, Image
<1>3. r.want = WantOf(r, model_disk)
  BY Zenon DEF WantOf
<1>4. avail' = Append(avail, r) /\ model_disk' = Effect(r, model_disk)
  BY Zenon DEF Submit, Effect
<1>5. UNCHANGED <<used, disk, dev, mode, irq_pc, interrupt_status>>
  BY Zenon DEF Submit, tVars
<1> HIDE DEF r
<1>6. \E h : Stages(avail', disk', model_disk', h)
  <2>1. PICK h : Stages(avail, disk, model_disk, h)
    BY Zenon DEF BlkInv
  <2> QED  BY <1>1, <1>2, <1>3, <1>4, <1>5, <2>1, ImagesAppend
<1>7. BlkTypes'
  BY <1>1, <1>2, <1>4, <1>5, EffectImage DEF BlkInv, BlkTypes
<1> QED  BY <1>5, <1>6, <1>7, Zenon DEF BlkInv, ReadsSeeWrites, WorkAnnounced

\* Serving a request keeps it: the disk goes to the next stage.
LEMMA BlkServes ==
  ASSUME BlkInv, BlkRequest
  PROVE  BlkInv'
<1> DEFINE r == Head(avail)
           ok == r.kind = "ok" /\ (r.write \/ disk[r.sector] # Eof)
           u == [slot |-> r.slot, write |-> r.write, kind |-> r.kind, want |-> r.want,
                 ok |-> ok, data |-> IF ok /\ ~r.write THEN disk[r.sector] ELSE Eof]
<1>1. avail \in Seq(Request) /\ avail # <<>> /\ disk \in Image /\ used \in Seq(Result)
  BY Zenon DEF BlkInv, BlkTypes, BlkRequest
<1>2. r \in Request /\ Tail(avail) \in Seq(Request)
  BY <1>1
<1>3. /\ avail' = Tail(avail) /\ used' = Append(used, u)
      /\ UNCHANGED <<mode, irq_pc, interrupt_status, model_disk>>
      /\ dev' = [dev EXCEPT !.count = @ + 1, !.did_work = @ \/ r.kind # "bad"]
  BY Zenon DEF BlkRequest, Serve, tVars, drvVars
<1>4. disk' = Effect(r, disk)
  BY Zenon DEF BlkRequest, Serve, Effect
<1>5. r.want = WantOf(r, disk) /\ \E h : Stages(avail', disk', model_disk', h)
  <2>1. PICK h : Stages(avail, disk, model_disk, h)
    BY Zenon DEF BlkInv
  <2> HIDE DEF r
  <2>2. r.want = WantOf(r, disk) /\ \E g : Stages(Tail(avail), Effect(r, disk), model_disk, g)
    BY <1>1, <2>1, ImagesTail DEF r
  <2> QED  BY <1>3, <1>4, <2>2
<1> HIDE DEF r
<1>6. /\ r.slot \in Slots /\ r.write \in BOOLEAN /\ r.sector \in Sectors /\ r.kind \in Kinds
      /\ r.want \in Vals \cup {Eof} /\ disk[r.sector] \in Vals \cup {Eof}
  BY <1>1, <1>2 DEF Request, Image
<1>7. u \in Result
  BY <1>6 DEF Result
<1>8. u.kind = "ok" /\ ~u.write => u.data = u.want /\ (u.ok <=> u.want # Eof)
  BY <1>5, Zenon DEF WantOf
<1>9. u.kind = r.kind
  BY Zenon
<1> HIDE DEF u
<1>10. /\ used' \in Seq(Result) /\ DOMAIN used' = 1 .. Len(used) + 1 /\ used'[Len(used) + 1] = u
       /\ \A x \in 1 .. Len(used) : x \in DOMAIN used /\ used'[x] = used[x]
       /\ Len(used) \in Nat
  BY <1>1, <1>3, <1>7
<1>11. dev' \in [by : {"none", "vcpu", "tick"}, count : Nat, did_work : BOOLEAN]
       /\ (dev'.did_work <=> (dev.did_work \/ r.kind # "bad"))
  <2>1. dev \in [by : {"none", "vcpu", "tick"}, count : Nat, did_work : BOOLEAN]
    BY Zenon DEF BlkInv, BlkTypes
  <2> DEFINE w == dev.did_work \/ r.kind # "bad"
  <2>2. w \in BOOLEAN /\ dev' = [dev EXCEPT !.count = dev.count + 1, !.did_work = w]
    BY <1>3, Zenon
  <2> HIDE DEF w
  <2>3. /\ dev' \in [by : {"none", "vcpu", "tick"}, count : Nat, did_work : BOOLEAN]
        /\ dev'.did_work = w
    <3>1. dev' = [by |-> dev.by, count |-> dev.count + 1, did_work |-> w]
      BY <2>1, <2>2, Zenon
    <3>2. dev.by \in {"none", "vcpu", "tick"} /\ dev.count + 1 \in Nat
      BY <2>1
    <3> QED  BY <2>2, <3>1, <3>2
  <2> QED  BY <2>3, Zenon DEF w
<1>12. BlkTypes'
  BY <1>1, <1>2, <1>3, <1>4, <1>10, <1>11, EffectImage, SMTT(30) DEF BlkInv, BlkTypes
<1>13. ReadsSeeWrites'
  BY <1>8, <1>10 DEF BlkInv, ReadsSeeWrites
<1>14. WorkAnnounced'
  <2>1. CASE r.kind = "bad"
    <3>1. (\E x \in DOMAIN used' : used'[x].kind # "bad") => \E x \in DOMAIN used : used[x].kind # "bad"
      BY <1>9, <1>10, <2>1
    <3> QED  BY <1>3, <1>11, <3>1, Zenon DEF BlkInv, WorkAnnounced
  <2>2. CASE r.kind # "bad"
    BY <1>11, <2>2, Zenon DEF WorkAnnounced
  <2> QED  BY <2>1, <2>2, Zenon
<1> QED  BY <1>5, <1>12, <1>13, <1>14, Zenon DEF BlkInv

\* Every step keeps the invariant of the block device.
LEMMA BlkStep == BlkInv /\ [Next]_vars => BlkInv'
<1> SUFFICES ASSUME BlkInv, [Next]_vars PROVE BlkInv'
  BY Zenon
<1>0. BlkTypes
  BY Zenon  DEF BlkInv
<1>1. CASE DriverReset
  <2>1. /\ avail' = <<>> /\ used' = <<>> /\ model_disk' = disk /\ UNCHANGED <<disk, dev>>
        /\ DOMAIN interrupt_status' = {blk}
    BY <1>0, <1>1, BlkStatus, Zenon DEF DriverReset
  <2>2. BlkTypes'
    BY <1>0, <2>1 DEF BlkTypes
  <2>3. \E h : Stages(avail', disk', model_disk', h)
    BY <1>0, <2>1, NoneImages DEF BlkTypes
  <2> QED  BY <2>1, <2>2, <2>3 DEF BlkInv, ReadsSeeWrites, WorkAnnounced
<1>2. CASE DriverQueue \/ DriverOk
  <2>1. BlkStill /\ UNCHANGED <<dev, mode, irq_pc, interrupt_status>>
    <3>1. CASE DriverQueue  BY <1>0, <3>1, BlkStatus, Zenon DEF DriverQueue, BlkStill
    <3>2. CASE DriverOk  BY <1>0, <3>2, BlkStatus DEF DriverOk, BlkStill
    <3> QED  BY <1>2, <3>1, <3>2, Zenon
  <2> QED  BY <1>0, <2>1, BlkAside, Zenon DEF BlkTypes, BlkInv, BlkStill, WorkAnnounced
<1>3. CASE \/ \E slot \in Slots, sector \in Sectors, val \in Vals, kind \in Kinds :
                Submit(slot, TRUE, sector, val, kind)
           \/ \E slot \in Slots, sector \in Sectors, kind \in Kinds :
                Submit(slot, FALSE, sector, 0, kind)
  BY <1>3, BlkSubmit, BlkAssumption, Zenon
<1>4. CASE KickEnter \/ TickEnter
  <2>1. BlkStill /\ UNCHANGED <<mode, irq_pc, interrupt_status>> /\ dev = NoCall
        /\ dev' \in [by : {"vcpu", "tick"}, count : {0}, did_work : {FALSE}]
    BY <1>4, Zenon DEF KickEnter, TickEnter, BlkStill, tVars, drvVars, LockFree, NoCall
  <2>2. dev.did_work = FALSE
    BY <2>1, Zenon DEF NoCall
  <2>3. WorkAnnounced'
    BY <2>1, <2>2, Zenon DEF BlkInv, BlkStill, WorkAnnounced
  <2>4. dev' \in [by : {"none", "vcpu", "tick"}, count : Nat, did_work : BOOLEAN]
    <3>1. CASE dev' = [by |-> "vcpu", count |-> 0, did_work |-> FALSE]  BY <3>1, Zenon
    <3>2. CASE dev' = [by |-> "tick", count |-> 0, did_work |-> FALSE]  BY <3>2, Zenon
    <3> QED  BY <1>4, <3>1, <3>2, Zenon DEF KickEnter, TickEnter, NoCall
  <2> QED  BY <1>0, <2>1, <2>3, <2>4, BlkAside, Zenon DEF BlkTypes
<1>5. CASE PollUsed
  <2>1. /\ mode' = "firmware" /\ used # <<>> /\ used' = Tail(used)
        /\ UNCHANGED <<interrupt_status, avail, disk, dev, model_disk>>
    BY <1>5, Zenon DEF PollUsed, tVars, drvVars
  <2>2. BlkTypes'
    BY <1>0, <2>1, BlkSeen, SMTT(30) DEF BlkTypes
  <2>3. ReadsSeeWrites'
    BY <2>1, BlkSeen DEF BlkInv, ReadsSeeWrites
  <2> QED  BY <2>1, <2>2, <2>3, Zenon DEF BlkInv, WorkAnnounced
<1>6. CASE IrqRead \/ IrqAck
  <2>1. BlkStill /\ UNCHANGED <<dev, mode>> /\ irq_pc' \in {"ack", "drain"}
        /\ DOMAIN interrupt_status' = {blk}
    BY <1>0, <1>6, BlkStatus, Zenon DEF IrqRead, IrqAck, BlkStill
  <2> QED  BY <1>0, <2>1, BlkAside, Zenon DEF BlkTypes, BlkInv, BlkStill, WorkAnnounced
<1>7. CASE IrqDrain
  <2>1. UNCHANGED <<interrupt_status, avail, disk, dev, model_disk, mode>> /\ irq_pc = "drain"
    BY <1>7 DEF IrqDrain, tVars
  <2>2. CASE used # <<>>
    <3>1. used' = Tail(used) /\ irq_pc' = irq_pc
      BY <1>7, <2>2, Zenon DEF IrqDrain
    <3>2. BlkTypes'
      BY <1>0, <2>1, <2>2, <3>1, BlkSeen, SMTT(30) DEF BlkTypes
    <3>3. ReadsSeeWrites'
      BY <2>2, <3>1, BlkSeen DEF BlkInv, ReadsSeeWrites
    <3> QED  BY <2>1, <3>1, <3>2, <3>3, Zenon DEF BlkInv, WorkAnnounced
  <2>3. CASE used = <<>>
    <3>1. UNCHANGED used
      BY <1>7, <2>3, Zenon DEF IrqDrain
    <3>2. DOMAIN used' = {}
      BY <2>3, <3>1
    <3> QED  BY <1>0, <2>1, <3>1, <3>2, BlkAside, Zenon DEF BlkStill, BlkTypes, WorkAnnounced
  <2> QED  BY <2>2, <2>3, Zenon
<1>8. CASE BlkRequest
  BY <1>8, BlkServes
<1>9. CASE KickLeave
  <2>1. BlkStill /\ UNCHANGED <<mode, irq_pc>> /\ dev' = NoCall /\ dev.did_work \in BOOLEAN
        /\ T!WriteQueueNotify(blk, 0, dev.did_work)
    BY <1>0, <1>9 DEF KickLeave, BlkStill, drvVars, BlkTypes
  <2>2. DOMAIN interrupt_status' = {blk}
        /\ (interrupt_status'[blk] = IF dev.did_work THEN 1 ELSE interrupt_status[blk])
    BY <1>0, <2>1, BlkStatus
  <2> QED  BY <1>0, <2>1, <2>2, BlkAside, Zenon DEF BlkTypes, BlkInv, BlkStill, NoCall, WorkAnnounced
<1>10. CASE TickLeave
  <2>1. BlkStill /\ UNCHANGED <<mode, irq_pc>> /\ dev' = NoCall /\ dev.did_work \in BOOLEAN
        /\ T!TickDevice(dev.did_work)
    BY <1>0, <1>10, Zenon DEF TickLeave, BlkStill, drvVars, BlkTypes
  <2>2. next_dev = blk
    BY <2>1 DEF T!TickDevice, T!Dev, blk
  <2>3. DOMAIN interrupt_status' = {blk}
        /\ (interrupt_status'[blk] = IF dev.did_work THEN 1 ELSE interrupt_status[blk])
    BY <1>0, <2>1, <2>2, BlkStatus
  <2> QED  BY <1>0, <2>1, <2>3, BlkAside, Zenon DEF BlkTypes, BlkInv, BlkStill, NoCall, WorkAnnounced
<1>11. CASE TickSkip
  <2>1. BlkStill /\ UNCHANGED <<mode, irq_pc, dev>> /\ T!TickDevice(FALSE) /\ next_dev = blk
    BY <1>11, Zenon DEF TickSkip, BlkStill, drvVars
  <2>2. DOMAIN interrupt_status' = {blk} /\ interrupt_status'[blk] = interrupt_status[blk]
    BY <1>0, <2>1, BlkStatus, Zenon
  <2>3. WorkAnnounced'
    BY <2>1, <2>2, Zenon DEF BlkInv, BlkStill, WorkAnnounced
  <2>4. dev' \in [by : {"none", "vcpu", "tick"}, count : Nat, did_work : BOOLEAN]
    BY <1>0, <2>1, Zenon DEF BlkTypes
  <2> QED  BY <2>1, <2>2, <2>3, <2>4, BlkAside, Zenon
<1>12. CASE TickOther
  <2>1. BlkStill /\ UNCHANGED <<mode, irq_pc, dev, interrupt_status>>
    BY <1>0, <1>12, BlkStatus DEF TickOther, BlkStill, drvVars
  <2> QED  BY <1>0, <2>1, BlkAside, Zenon DEF BlkTypes, BlkInv, BlkStill, WorkAnnounced
<1>13. CASE UNCHANGED vars
  <2>1. BlkStill /\ UNCHANGED <<mode, irq_pc, dev, interrupt_status>>
    BY <1>13, Zenon DEF vars, tVars, drvVars, BlkStill
  <2> QED  BY <1>0, <2>1, BlkAside, Zenon DEF BlkTypes, BlkInv, BlkStill, WorkAnnounced
<1> QED
  BY <1>1, <1>2, <1>3, <1>4, <1>5, <1>6, <1>7, <1>8, <1>9, <1>10, <1>11, <1>12, <1>13, Zenon
  DEF Next, Irq, Call, TickThread

\* For every number of slots, sectors and contents and every batch limit: a read
\* that succeeds returns what the requests submitted before it left in its sector,
\* through resets, failing writes and writes that grow the image.
THEOREM ReadsAlwaysSeeWrites == Spec => []ReadsSeeWrites
<1>1. BlkInv => ReadsSeeWrites
  BY Zenon DEF BlkInv
<1> QED  BY BlkStart, BlkStep, <1>1, PTL DEF Spec

\* A completion that counts as work and that the operating system has not seen is
\* always covered: by interrupt_status, by the call in progress or by a handler that
\* has yet to look at the ring.
THEOREM WorkAlwaysAnnounced == Spec => []WorkAnnounced
<1>1. BlkInv => WorkAnnounced
  BY Zenon DEF BlkInv
<1> QED  BY BlkStart, BlkStep, <1>1, PTL DEF Spec

-----------------------------------------------------------------------------
(***************************************************************************)
(* PartTable: the partition opened is the first system partition of the    *)
(* table.                                                                  *)
(***************************************************************************)

\* Of a table that fits 32 bits and the disk: before an entry is looked at the
\* whole table is in the buffer, no entry passed over is a system partition,
\* and once the scan is over the volume is the right one.
TableFits == header.count * header.size < Wrap /\ header.count * header.size =< TableUnits

PartType ==
  /\ table \in [PartEntry -> PartTypes] /\ header \in Headers
  /\ part_i \in Nat /\ buffer \in Nat
  /\ part_pc \in {"read_headers", "read_table", "scan", "open_fat32", "opened", "error"}

PartInv ==
  /\ PartType
  /\ part_pc \in {"read_headers", "read_table", "scan"} => number = 1 /\ range \in {0, TableUnits}
  /\ part_pc \in {"read_headers", "read_table"} => part_i = 0
  /\ part_pc = "scan" =>
       /\ part_i =< header.count
       /\ TableFits => header.count * header.size =< buffer /\ \A n \in Esps : part_i =< n
  /\ part_pc \in {"open_fat32", "opened"} /\ TableFits => PartitionFound
  /\ part_pc = "opened" => bpb \in Geometry /\ bpb.sectors_per_cluster # 0

\* The entries below count lie in the table, each with all of its units.
LEMMA EntryInside ==
  ASSUME NEW n \in Nat, NEW c \in Nat, NEW s \in Nat, n < c, s # 0
  PROVE  n * s \in Nat /\ c * s \in Nat /\ n * s + s =< c * s /\ n * s < c * s
<1>1. n * s \in Nat /\ c * s \in Nat
  BY SMT
<1>2. PICK d \in Nat : c = n + 1 + d
  <2>1. c = n + 1 + (c - n - 1) /\ c - n - 1 \in Nat
    BY SMT
  <2> QED BY <2>1, Zenon
<1>3. d * s \in Nat
  BY SMT
<1>4. (n + 1 + d) * s = n * s + s + d * s
  BY SMT
<1> QED BY <1>1, <1>2, <1>3, <1>4

\* A number below the modulus is its own remainder.
LEMMA SmallMod ==
  ASSUME NEW a \in Nat, NEW w \in Nat, a < w
  PROVE  a % w = a
BY SMT

\* Rounding up to whole sectors loses nothing.
LEMMA RoundUp ==
  ASSUME NEW a \in Nat, NEW p \in Nat \ {0}
  PROVE  /\ ((a + p - 1) \div p) * p \in Nat
         /\ a =< ((a + p - 1) \div p) * p
<1>1. PICK b \in Nat : b = a + p - 1
  <2>1. a + p - 1 \in Nat
    BY SMT
  <2> QED BY <2>1, Zenon
<1>2. b \div p \in Nat /\ b % p \in 0 .. p - 1 /\ b = p * (b \div p) + (b % p)
  BY <1>1, SMT
<1>3. PICK q \in Nat : q = b \div p
  BY <1>2, Zenon
<1>4. q * p \in Nat /\ q * p = p * q
  BY SMT
<1>5. a =< q * p
  BY <1>1, <1>2, <1>3, <1>4, SMT
<1> QED BY <1>1, <1>3, <1>4, <1>5, Zenon

\* The invariant holds before the table is read.
LEMMA PartStart == PartInit => PartInv
BY PartTableAssumption DEF PartInit, PartInv, PartType

\* What is known of a header.
LEMMA HeaderIs ==
  ASSUME PartType
  PROVE  /\ header.count \in Nat /\ header.size \in Nat /\ header.size # 0
         /\ header.count * header.size \in Nat
<1>1. header.count \in Counts /\ header.size \in EntrySizes
  BY Zenon DEF PartType, Headers
<1>2. header.count \in Nat /\ header.size \in Nat \ {0}
  BY <1>1, PartTableAssumption, Zenon
<1> QED BY <1>2

\* Of a table that fits, the entry looked at is the one the disk holds.
LEMMA EntryHeld ==
  ASSUME PartType, TableFits, header.count * header.size =< buffer,
         NEW n \in Nat, n < header.count
  PROVE  /\ n * header.size \in PartEntry
         /\ EntryAt(n) = {[type |-> table[n * header.size], first |-> n * header.size]}
         /\ n \in Esps <=> table[n * header.size] = "esp"
<1>1. PICK c \in Nat, s \in Nat : c = header.count /\ s = header.size
  BY HeaderIs, Zenon
<1>2. s # 0 /\ n < c
  BY <1>1, HeaderIs, Zenon
<1>3. PICK u \in Nat : u = n * s
  BY SMT
<1>4. u < c * s /\ c * s \in Nat
  BY <1>2, <1>3, EntryInside
<1>5. c * s < Wrap /\ c * s =< TableUnits /\ c * s =< buffer
  BY <1>1, Zenon DEF TableFits
<1>6. u < Wrap /\ u < TableUnits /\ u < buffer
  BY <1>4, <1>5, PartTableAssumption DEF PartType
<1>7. u % Wrap = u
  BY <1>6, SmallMod, PartTableAssumption
<1>8. EntryAt(n) = {[type |-> table[u], first |-> u]}
  BY <1>1, <1>3, <1>6, <1>7, Zenon DEF EntryAt
<1>9. u \in PartEntry
  BY <1>6, PartTableAssumption DEF PartEntry
<1>10. n \in 0 .. header.count - 1
  BY <1>1, <1>2
<1>11. n \in Esps <=> table[u] = "esp"
  BY <1>1, <1>3, <1>6, <1>10 DEF Esps
<1> QED BY <1>1, <1>3, <1>8, <1>9, <1>11, Zenon

\* Every step of reading the table keeps the invariant.
LEMMA PartSteps == PartInv /\ [PartNext]_partVars => PartInv'
<1> SUFFICES ASSUME PartInv, [PartNext]_partVars PROVE PartInv'
  BY Zenon
<1>0. PartType
  BY Zenon DEF PartInv
<1>f. CASE Fail /\ UNCHANGED partDisk
  BY <1>f, Zenon DEF PartInv, PartType, Fail, partDisk
<1>1. CASE ReadHeaders
  <2>1. CASE header.good /\ part_pc' = "read_table" /\ UNCHANGED <<part_i, buffer, range, number, bpb>>
    BY <1>1, <2>1 DEF ReadHeaders, PartInv, PartType, partDisk
  <2> QED BY <1>f, <1>1, <2>1 DEF ReadHeaders
<1>2. CASE ReadTable
  <2> DEFINE bytes == (header.count * header.size) % Wrap
  <2>1. CASE /\ buffer' = ((bytes + PerSector - 1) \div PerSector) * PerSector
             /\ part_pc' = "scan" /\ UNCHANGED <<part_i, range, number, bpb>>
    <3>1. UNCHANGED <<table, header, part_i, range, number, bpb>> /\ part_pc = "read_table"
      BY <1>2, <2>1, Zenon DEF ReadTable, partDisk
    <3>2. bytes \in Nat
      BY HeaderIs, PartTableAssumption, <1>0, SMT
    <3>3. buffer' \in Nat /\ bytes =< buffer'
      <4> HIDE DEF bytes
      <4> QED BY <2>1, <3>2, RoundUp, PartTableAssumption
    <3>4. TableFits => bytes = header.count * header.size
      BY <1>0, HeaderIs, SmallMod, PartTableAssumption DEF TableFits
    <3>5. part_i = 0 /\ number = 1 /\ range \in {0, TableUnits}
      BY <3>1, Zenon DEF PartInv
    <3>6. PartType'
      BY <1>0, <2>1, <3>1, <3>3 DEF PartType
    <3>7. TableFits' = TableFits /\ Esps' = Esps
      BY <3>1, Zenon DEF TableFits, Esps
    <3>8. \A n \in Esps : 0 =< n
      BY <1>0, HeaderIs DEF Esps
    <3>9. TableFits => header.count * header.size =< buffer'
      BY <3>3, <3>4, Zenon
    <3>10. 0 =< header.count
      BY <1>0, HeaderIs
    <3> HIDE DEF bytes
    <3> QED BY <2>1, <3>1, <3>5, <3>6, <3>7, <3>8, <3>9, <3>10 DEF PartInv
  <2> QED BY <1>f, <1>2, <2>1 DEF ReadTable
<1>3. CASE ScanEntry
  <2>1. UNCHANGED <<table, header, buffer, bpb>> /\ part_pc = "scan"
    BY <1>3, Zenon DEF ScanEntry, partDisk
  <2>2. TableFits' = TableFits /\ Esps' = Esps
    BY <2>1, Zenon DEF TableFits, Esps
  <2>3. part_i \in Nat /\ part_i =< header.count /\ header.count \in Nat
        /\ number = 1 /\ range \in {0, TableUnits}
    BY <1>0, <2>1, HeaderIs DEF PartInv, PartType
  <2>4. TableFits => header.count * header.size =< buffer /\ \A n \in Esps : part_i =< n
    BY <2>1, Zenon DEF PartInv
  <2>5. CASE part_i >= header.count /\ part_pc' = "open_fat32" /\ UNCHANGED <<part_i, range, number>>
    <3>1. TableFits => Esps = {}
      BY <2>3, <2>4, <2>5 DEF Esps
    <3>2. TableFits => PartitionFound'
      BY <2>2, <2>3, <2>5, <3>1 DEF PartitionFound
    <3>3. PartType'
      BY <1>0, <2>1, <2>5 DEF PartType
    <3> QED BY <2>2, <2>5, <3>2, <3>3 DEF PartInv
  <2>6. CASE part_i < header.count
    <3>1. PICK e \in EntryAt(part_i) :
             IF e.type = "esp"
             THEN /\ range' = e.first /\ number' = part_i + 1
                  /\ part_pc' = "open_fat32" /\ UNCHANGED part_i
             ELSE part_i' = part_i + 1 /\ UNCHANGED <<part_pc, range, number>>
      BY <1>3, <2>3, <2>6 DEF ScanEntry
    <3>2. TableFits => /\ e.type = table[part_i * header.size] /\ e.first = part_i * header.size
                       /\ part_i \in Esps <=> e.type = "esp"
      BY <1>0, <2>3, <2>4, <2>6, <3>1, EntryHeld, SMTT(30)
    <3>3. CASE e.type = "esp"
      <4>1. TableFits => part_i \in Esps /\ range' = part_i * header.size /\ number' = part_i + 1
        BY <3>1, <3>2, <3>3
      <4>2. TableFits => PartitionFound'
        BY <2>1, <2>2, <2>4, <4>1 DEF PartitionFound
      <4>3. PartType'
        BY <1>0, <2>1, <3>1, <3>3, SMTT(30) DEF PartType
      <4> QED BY <2>2, <3>1, <3>3, <4>2, <4>3 DEF PartInv
    <3>4. CASE e.type # "esp"
      <4>1. part_i' = part_i + 1 /\ part_pc' = "scan" /\ range' = range /\ number' = number
        BY <2>1, <3>1, <3>4
      <4>2. PartType'
        BY <1>0, <2>1, <4>1 DEF PartType
      <4>3. ASSUME TableFits, NEW n \in Esps PROVE part_i + 1 =< n
        <5>1. part_i =< n /\ n # part_i
          BY <2>4, <3>2, <3>4, <4>3, Zenon
        <5>2. n \in Nat
          BY <2>3 DEF Esps
        <5> QED BY <2>3, <5>1, <5>2
      <4>4. part_i + 1 =< header.count
        BY <2>3, <2>6
      <4> QED BY <2>1, <2>2, <2>3, <2>4, <4>1, <4>2, <4>3, <4>4, SMTT(30) DEF PartInv
    <3> QED BY <3>3, <3>4, Zenon
  <2> QED BY <1>3, <2>5, <2>6 DEF ScanEntry
<1>4. CASE open_fat32
  <2>1. CASE \E g \in Geometries :
                /\ g.bytes_per_sector = 512 /\ g.sectors_per_cluster # 0
                /\ bpb' = g /\ part_pc' = "opened"
                /\ UNCHANGED <<part_i, buffer, range, number>>
    <3>1. UNCHANGED <<table, header, part_i, buffer, range, number>> /\ part_pc = "open_fat32"
          /\ part_pc' = "opened"
      BY <1>4, <2>1 DEF open_fat32, partDisk
    <3>2. bpb' \in Geometry /\ bpb'.sectors_per_cluster # 0
      BY <2>1, PartTableAssumption
    <3>3. TableFits' = TableFits /\ PartitionFound' = PartitionFound
      BY <3>1, Zenon DEF TableFits, PartitionFound, Esps
    <3>4. PartType'
      BY <1>0, <3>1 DEF PartType
    <3> QED BY <3>1, <3>2, <3>3, <3>4 DEF PartInv
  <2> QED BY <1>f, <1>4, <2>1, Zenon DEF open_fat32
<1>5. CASE UNCHANGED partVars
  BY <1>5, Zenon DEF partVars, partDisk, PartInv, PartType, TableFits, PartitionFound, Esps
<1> QED BY <1>1, <1>2, <1>3, <1>4, <1>5 DEF PartNext, PartStopped

\* Quotient and remainder by a sector's FAT entries tell clusters apart.
LEMMA EntryTells ==
  ASSUME NEW a \in Nat, NEW b \in Nat, NEW p \in Nat \ {0},
         a \div p = b \div p, a % p = b % p
  PROVE  a = b
<1>1. a = p * (a \div p) + (a % p) /\ b = p * (b \div p) + (b % p)
  BY SMT
<1> QED BY <1>1, Zenon

\* A cluster the FAT has an entry for has it in one of the FAT's sectors.
LEMMA EntryCovered ==
  ASSUME NEW c \in Nat, NEW p \in Nat \ {0}, NEW f \in Nat, c < f * p
  PROVE  c \div p \in Nat /\ c \div p < f
<1>1. PICK q \in Nat, r \in 0 .. p - 1 : q = c \div p /\ c = p * q + r
  <2>1. c \div p \in Nat /\ c % p \in 0 .. p - 1 /\ c = p * (c \div p) + (c % p)
    BY SMT
  <2> QED BY <2>1, Zenon
<1>2. CASE f =< q
  <2>1. PICK d \in Nat : q = f + d
    <3>1. q - f \in Nat /\ q = f + (q - f)
      BY <1>2
    <3> QED BY <3>1, Zenon
  <2>2. p * (f + d) = f * p + p * d /\ p * d \in Nat /\ f * p \in Nat
    BY SMT
  <2>3. c = f * p + p * d + r
    BY <1>1, <2>1, <2>2, Zenon
  <2> QED BY <2>2, <2>3
<1> QED BY <1>1, <1>2

\* Clusters, and their FAT entries, are apart from each other and each in its area.
LEMMA Placed ==
  ASSUME bpb \in Geometry, bpb.sectors_per_cluster # 0
  PROVE  PlacesApart
<1>1. PICK spc \in Nat : spc = bpb.sectors_per_cluster /\ spc # 0
  BY DEF Geometry
<1>2. PICK start \in Nat : start = data_start_lba
  <2>1. bpb.reserved_sectors \in Nat /\ bpb.num_fats \in Nat /\ bpb.fat_size \in Nat
    BY DEF Geometry
  <2>2. bpb.num_fats * bpb.fat_size \in Nat
    BY <2>1
  <2>3. data_start_lba \in Nat
    BY <2>1, <2>2 DEF data_start_lba
  <2> QED BY <2>3, Zenon
<1>3. ASSUME NEW c \in Nat, 2 =< c
      PROVE  /\ (c - 2) * spc \in Nat
             /\ ClusterSectors(c) = start + (c - 2) * spc .. start + (c - 2) * spc + spc - 1
  <2>1. c - 2 \in Nat
    BY <1>3
  <2>2. (c - 2) * spc \in Nat
    BY <2>1
  <2> QED BY <1>1, <1>2, <2>2, Zenon DEF ClusterSectors, cluster_to_lba
<1>4. ASSUME NEW c \in Nat, NEW d \in Nat, 2 =< c, c < d
      PROVE  ClusterSectors(c) \cap ClusterSectors(d) = {}
  <2>1. c - 2 \in Nat /\ d - 2 \in Nat /\ c - 2 < d - 2 /\ 2 =< d
    BY <1>4
  <2>2. PICK x \in Nat, y \in Nat : x = (c - 2) * spc /\ y = (d - 2) * spc
    BY <2>1
  <2>3. x + spc =< y
    BY <1>1, <2>1, <2>2, EntryInside
  <2>4. ClusterSectors(c) = start + x .. start + x + spc - 1
    BY <1>3, <1>4, <2>2, Zenon
  <2>5. ClusterSectors(d) = start + y .. start + y + spc - 1
    BY <1>3, <2>1, <2>2, Zenon
  <2>6. (start + x .. start + x + spc - 1) \cap (start + y .. start + y + spc - 1) = {}
    BY <2>3
  <2> QED BY <2>4, <2>5, <2>6, Zenon
<1>5. PICK f \in Nat, res \in Nat : f = bpb.fat_size /\ res = bpb.reserved_sectors
  BY DEF Geometry
<1>6. ASSUME NEW c \in Covered
      PROVE  c \in Nat /\ 2 =< c /\ c < f * FatPerSector
  BY <1>5, <1>6, PartTableAssumption DEF Covered
<1>7. ASSUME NEW c \in Covered
      PROVE  /\ \A s \in ClusterSectors(c) : s >= data_start_lba
             /\ \A d \in Covered \ {c} :
                  ClusterSectors(c) \cap ClusterSectors(d) = {} /\ FatEntry(c) # FatEntry(d)
             /\ FatEntry(c)[1] \in bpb.reserved_sectors .. bpb.reserved_sectors + bpb.fat_size - 1
  <2>1. c \in Nat /\ 2 =< c /\ c < f * FatPerSector
    BY <1>6, Zenon
  <2>2. \A s \in ClusterSectors(c) : s >= data_start_lba
    <3>1. PICK x \in Nat : x = (c - 2) * spc
      BY <1>3, <2>1, Zenon
    <3>2. ClusterSectors(c) = start + x .. start + x + spc - 1
      BY <1>3, <2>1, <3>1, Zenon
    <3> QED BY <1>2, <3>2
  <2>3. c \div FatPerSector \in Nat /\ c \div FatPerSector < f
    BY <2>1, EntryCovered, PartTableAssumption, Zenon
  <2>4. FatEntry(c)[1] \in bpb.reserved_sectors .. bpb.reserved_sectors + bpb.fat_size - 1
    BY <1>5, <2>3 DEF FatEntry
  <2>5. ASSUME NEW d \in Covered \ {c}
        PROVE  ClusterSectors(c) \cap ClusterSectors(d) = {} /\ FatEntry(c) # FatEntry(d)
    <3>1. d \in Nat /\ 2 =< d /\ d < f * FatPerSector /\ d # c
      BY <1>6, Zenon
    <3>2. c < d \/ d < c
      BY <2>1, <3>1
    <3>3. ClusterSectors(c) \cap ClusterSectors(d) = {}
      BY <1>4, <2>1, <3>1, <3>2
    <3>4. d \div FatPerSector \in Nat
      BY <3>1, EntryCovered, PartTableAssumption, Zenon
    <3>5. CASE FatEntry(c) = FatEntry(d)
      <4>1. c \div FatPerSector = d \div FatPerSector /\ c % FatPerSector = d % FatPerSector
        BY <1>5, <2>3, <3>4, <3>5, SMTT(30) DEF FatEntry
      <4> QED BY <2>1, <3>1, <4>1, EntryTells, PartTableAssumption, Zenon
    <3> QED BY <3>3, <3>5, Zenon
  <2> QED BY <2>2, <2>4, <2>5, Zenon
<1>8. data_start_lba \in ClusterSectors(2)
  <2>1. (2 - 2) * spc = 0
    BY SMT
  <2> QED BY <1>1, <1>2, <1>3, <2>1
<1> QED BY <1>7, <1>8, Zenon DEF PlacesApart

\* The volume opened is at the first system partition of a table that fits 32 bits,
\* under that one's number, and clusters and FAT entries of an accepted boot sector
\* have places of their own (load_part_table and open_fat32): for tables and volumes of
\* every size.
THEOREM VolumeAlwaysFound == PartSpec => []VolumeFound
<1>1. PartInv => VolumeFound
  BY Placed, Zenon DEF PartInv, VolumeFound, TableFits
<1> QED BY <1>1, PartStart, PartSteps, PTL DEF PartSpec
=============================================================================
