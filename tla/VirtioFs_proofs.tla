-------------------------- MODULE VirtioFs_proofs ---------------------------
(***************************************************************************)
(* The shared folder: the tables of the server, the chains of its device   *)
(* and the listing of a folder. For any names, chains, replies and         *)
(* listings.                                                               *)
(***************************************************************************)
EXTENDS SharedFolder, FsDevice, FolderListing, Integers, TLAPS

-----------------------------------------------------------------------------
(***************************************************************************)
(* Sequences: the facts used below, here rather than from a library so     *)
(* that no proof carries more than these.                                  *)
(***************************************************************************)

\* The length and the domain of a sequence.
LEMMA LenIs ==
  ASSUME NEW T, NEW q \in Seq(T)
  PROVE  Len(q) \in Nat /\ q \in [1 .. Len(q) -> T] /\ DOMAIN q = 1 .. Len(q)
OBVIOUS

\* The elements of a sequence.
LEMMA ElementIs ==
  ASSUME NEW T, NEW q \in Seq(T), NEW i \in 1 .. Len(q)
  PROVE  q[i] \in T
OBVIOUS

\* The empty sequence, and those that are not.
LEMMA EmptyIs ==
  ASSUME NEW T
  PROVE  <<>> \in Seq(T) /\ Len(<<>>) = 0 /\ \A q \in Seq(T) : q # <<>> => Len(q) \in Nat \ {0}
OBVIOUS

\* Two sequences of one length with the same elements are equal.
LEMMA SeqsEqual ==
  ASSUME NEW T, NEW q \in Seq(T), NEW r \in Seq(T), Len(q) = Len(r),
         \A i \in 1 .. Len(q) : q[i] = r[i]
  PROVE  q = r
OBVIOUS

\* What a sequence with one more element holds.
LEMMA AppendIs ==
  ASSUME NEW T, NEW q \in Seq(T), NEW x \in T
  PROVE  /\ Append(q, x) \in Seq(T) /\ Len(Append(q, x)) = Len(q) + 1
         /\ \A i \in 1 .. Len(q) : Append(q, x)[i] = q[i]
         /\ Append(q, x)[Len(q) + 1] = x
OBVIOUS

\* What a concatenation holds.
LEMMA ConcatIs ==
  ASSUME NEW T, NEW q \in Seq(T), NEW r \in Seq(T)
  PROVE  /\ q \o r \in Seq(T) /\ Len(q \o r) = Len(q) + Len(r)
         /\ \A i \in 1 .. Len(q) + Len(r) :
              (q \o r)[i] = IF i <= Len(q) THEN q[i] ELSE r[i - Len(q)]
OBVIOUS

\* What a part of a sequence holds.
LEMMA SubSeqIs ==
  ASSUME NEW T, NEW q, NEW m \in Int, NEW n \in Int, \A i \in m .. n : q[i] \in T
  PROVE  /\ SubSeq(q, m, n) \in Seq(T)
         /\ Len(SubSeq(q, m, n)) = IF m <= n THEN n - m + 1 ELSE 0
         /\ \A i \in 1 .. n - m + 1 : SubSeq(q, m, n)[i] = q[m + i - 1]
OBVIOUS

-----------------------------------------------------------------------------
(***************************************************************************)
(* SharedFolder, for any names, any number of objects, ids, handles and    *)
(* mounts: the server's tables and the guest's agree, though forgets       *)
(* travel on a queue of their own.                                         *)
(***************************************************************************)

USE SharedFolderAssumption DEF FUSE_ROOT_ID, Ids, Handles

\* The tables are functions, and what counts ids and handles is ahead of all of
\* them: an id not handed out yet stands for no path.
Tables ==
  /\ inodes \in [Ids -> Paths \cup {NoPath}] /\ next_inode \in Nat
  /\ DOMAIN open_files = Handles /\ next_fh \in Nat
  /\ \A n \in Ids : n >= next_inode => inodes[n] = NoPath
  /\ holds \cup forgets \cup orphans \subseteq (Ids \cap (2 .. next_inode - 1))
  /\ files \subseteq 1 .. next_fh - 1 /\ files \subseteq Handles

\* A forget on its way is of an id some guest can still forget, once.
FolderInv == Tables /\ TablesMatchGuest /\ forgets \cap orphans = {}

\* The mark of an unused id is not a path of the folder.
LEMMA NoPathIsNone == NoPath \notin Paths
<1>1. NoPath # <<>> /\ NoPath[1] \notin Names /\ DOMAIN NoPath = 1 .. 1
  BY DEF NoPath, SharedFolderAssumption
<1>2. 1 .. 1 # 1 .. 2
  OBVIOUS
<1> QED  BY <1>1, <1>2 DEF Paths

\* The tables hold the root alone at the start.
LEMMA InitFacts == FolderInit => FolderInv
<1> HAVE FolderInit
<1>1. Tables
  BY DEF FolderInit, Tables, Paths
<1>2. <<>> \in Paths
  BY Zenon DEF Paths
<1>3. TablesMatchGuest /\ forgets \cap orphans = {}
  BY <1>2, NoPathIsNone DEF FolderInit, TablesMatchGuest
<1> QED  BY <1>1, <1>3, Zenon DEF FolderInv

\* A new id is one that no table knew, and nothing else of the table changes.
LEMMA NewIdFacts ==
  ASSUME FolderInv, NEW p \in Paths, NEW o, NewId(p, o)
  PROVE  /\ inodes' \in [Ids -> Paths \cup {NoPath}]
         /\ next_inode' = next_inode + 1
         /\ \A n \in Ids : inodes'[n] = IF n = next_inode THEN p ELSE inodes[n]
         /\ next_inode \in Ids /\ next_inode >= 2 /\ p # NoPath
         /\ next_inode \notin holds \cup forgets \cup orphans
<1>1. inodes \in [Ids -> Paths \cup {NoPath}] /\ next_inode \in Ids /\ p # NoPath
  BY NoPathIsNone, Zenon DEF FolderInv, Tables, NewId
<1>2. inodes[1] # NoPath
  BY Zenon DEF FolderInv, TablesMatchGuest
<1>3. next_inode >= 2
  BY <1>1, <1>2 DEF FolderInv, Tables
<1>4. next_inode \notin holds \cup forgets \cup orphans
  BY <1>1 DEF FolderInv, Tables
<1> QED  BY <1>1, <1>3, <1>4, Zenon DEF NewId

\* lookup, make_node, make_directory and create: an id is told to the guest, or
\* stays in the table for nobody.
LEMMA ToldKeeps ==
  ASSUME FolderInv, NEW p \in Paths, NEW o, NewId(p, o),
         \/ holds' = holds \cup {next_inode} /\ UNCHANGED orphans
         \/ orphans' = orphans \cup {next_inode} /\ UNCHANGED holds,
         UNCHANGED forgets,
         UNCHANGED <<open_files, next_fh, files>>
           \/ \E q : q # 0 /\ Opened(q)
  PROVE  FolderInv'
<1>1. /\ inodes' \in [Ids -> Paths \cup {NoPath}]
      /\ next_inode' = next_inode + 1
      /\ \A n \in Ids : inodes'[n] = IF n = next_inode THEN p ELSE inodes[n]
      /\ next_inode \in Ids /\ next_inode >= 2 /\ p # NoPath
      /\ next_inode \notin holds \cup forgets \cup orphans
  BY NewIdFacts, Zenon
<1>2. /\ DOMAIN open_files' = Handles
      /\ next_fh' \in Nat /\ files' \subseteq 1 .. next_fh' - 1 /\ files' \subseteq Handles
      /\ \A h \in files' : open_files'[h] # 0
  <2>1. CASE UNCHANGED <<open_files, next_fh, files>>
    BY <2>1 DEF FolderInv, Tables, TablesMatchGuest
  <2>2. ASSUME NEW q, q # 0, Opened(q)
        PROVE  /\ DOMAIN open_files' = Handles
               /\ next_fh' \in Nat /\ files' \subseteq 1 .. next_fh' - 1
               /\ files' \subseteq Handles /\ \A h \in files' : open_files'[h] # 0
    <3>1. /\ DOMAIN open_files = Handles /\ next_fh \in Nat
          /\ files \subseteq 1 .. next_fh - 1 /\ files \subseteq Handles
          /\ \A h \in files : open_files[h] # 0
      BY Zenon DEF FolderInv, Tables, TablesMatchGuest
    <3> QED  BY <2>2, <3>1 DEF Opened
  <2> QED  BY <2>1, <2>2, Zenon
<1>3. Tables'
  <2>1. \A n \in Ids : n >= next_inode' => inodes'[n] = NoPath
    BY <1>1 DEF FolderInv, Tables
  <2>2. (holds \cup forgets \cup orphans)' \subseteq (Ids \cap (2 .. next_inode' - 1))
    <3>1. holds \cup forgets \cup orphans \subseteq (Ids \cap (2 .. next_inode - 1))
      BY Zenon DEF FolderInv, Tables
    <3>2. \A n \in (holds \cup forgets \cup orphans)' :
            n = next_inode \/ n \in holds \cup forgets \cup orphans
      BY Zenon
    <3> QED  BY <1>1, <3>1, <3>2
  <2>3. next_inode' \in Nat /\ inodes' \in [Ids -> Paths \cup {NoPath}]
    BY <1>1
  <2> QED  BY <1>2, <2>1, <2>2, <2>3, Zenon DEF Tables
<1>4. {n \in Ids : inodes'[n] # NoPath} = {n \in Ids : inodes[n] # NoPath} \cup {next_inode}
  BY <1>1, Zenon
<1>5. TablesMatchGuest' /\ (forgets \cap orphans = {})'
  BY <1>1, <1>2, <1>4 DEF FolderInv, TablesMatchGuest
<1> QED  BY <1>3, <1>5 DEF FolderInv

\* Serving forgets keeps the tables of server and guest matched.
LEMMA ForgottenKeeps ==
  ASSUME FolderInv, NEW S \in SUBSET forgets, Forgotten(S)
  PROVE  FolderInv'
<1>1. S \cap (holds \cup orphans \cup {1}) = {}
  BY DEF FolderInv, Tables, TablesMatchGuest
<1>2. Tables'
  BY Zenon DEF Forgotten, FolderInv, Tables
<1>3. {n \in Ids : inodes'[n] # NoPath} = {n \in Ids : inodes[n] # NoPath} \ S
  BY Zenon DEF Forgotten
<1>4. TablesMatchGuest' /\ (forgets \cap orphans = {})'
  BY <1>1, <1>3, Zenon DEF Forgotten, FolderInv, TablesMatchGuest
<1> QED  BY <1>2, <1>4, Zenon DEF FolderInv

\* What the tables are made of; a step that leaves these alone keeps them.
tableVars == <<inodes, next_inode, open_files, next_fh, holds, forgets, orphans, files>>

\* A step that touches none of the tables keeps them matched.
LEMMA UnchangedKeeps == FolderInv /\ UNCHANGED tableVars => FolderInv'
BY DEF FolderInv, Tables, TablesMatchGuest, tableVars

\* Every request keeps them matched.
LEMMA StepKeeps == FolderInv /\ [FolderNext]_folderVars => FolderInv'
<1> SUFFICES ASSUME FolderInv, [FolderNext]_folderVars PROVE FolderInv'
  BY Zenon
<1>1. ASSUME NEW n \in Ids, NEW name \in Names, Lookup(n, name) PROVE FolderInv'
  BY <1>1, ToldKeeps DEF Lookup, MayMake, Told
<1>2. ASSUME NEW n \in Ids, NEW name \in Names, NEW dir \in BOOLEAN, NEW opens \in BOOLEAN,
             NEW good \in BOOLEAN, Make(n, name, dir, opens, good)
      PROVE  FolderInv'
  <2>1. PICK o \in Objects :
          /\ NewId(Child(n, name), o)
          /\ IF good /\ opens THEN Opened(o) ELSE UNCHANGED <<open_files, next_fh, files>>
    BY <1>2 DEF Make
  <2>2. o # 0 /\ Child(n, name) \in Paths
    BY <1>2, SMTT(30) DEF Make, MayMake, Objects
  <2> QED  BY <1>2, <2>1, <2>2, ToldKeeps DEF Make, Told
<1>3. ASSUME NEW n \in Ids, Open(n) PROVE FolderInv'
  <2>1. /\ next_fh \in Handles /\ Resolve(n) # 0
        /\ open_files' = [open_files EXCEPT ![next_fh] = Resolve(n)]
        /\ next_fh' = next_fh + 1 /\ files' = files \cup {next_fh}
        /\ UNCHANGED <<inodes, next_inode, holds, forgets, orphans>>
    BY <1>3, SMTT(30) DEF Open, Opened
  <2> QED  BY <2>1 DEF FolderInv, Tables, TablesMatchGuest
<1>4. ASSUME NEW h \in Handles, Release(h) PROVE FolderInv'
  BY <1>4, SMTT(30) DEF Release, FolderInv, Tables, TablesMatchGuest
<1>5. ASSUME NEW n \in Ids, SendForget(n) PROVE FolderInv'
  BY <1>5 DEF SendForget, serverVars, FolderInv, Tables, TablesMatchGuest
<1>6. ASSUME NEW n \in Ids, Forget(n) PROVE FolderInv'
  BY <1>6, ForgottenKeeps, Zenon DEF Forget
<1>7. ASSUME NEW S \in SUBSET forgets, BatchForget(S) PROVE FolderInv'
  BY <1>7, ForgottenKeeps, SMTT(30) DEF BatchForget
<1>8. ASSUME Remount PROVE FolderInv'
  BY <1>8 DEF Remount, serverVars, FolderInv, Tables, TablesMatchGuest
<1>9. ASSUME NEW n \in Ids, NEW name \in Names, RemoveEntry(n, name) PROVE FolderInv'
  BY <1>9, UnchangedKeeps DEF RemoveEntry, serverVars, guestVars, tableVars
<1>10. ASSUME NEW n \in Ids, NEW name \in Names, NEW newdir \in Ids, NEW newname \in Names,
              Rename(n, name, newdir, newname)
       PROVE  FolderInv'
  BY <1>10, UnchangedKeeps, ZenonT(30) DEF Rename, serverVars, guestVars, tableVars
<1>11. ASSUME NEW n \in Ids, OpenDir(n) PROVE FolderInv'
  BY <1>11 DEF OpenDir, guestVars, FolderInv, Tables, TablesMatchGuest
<1>12. CASE UNCHANGED folderVars
  BY <1>12, UnchangedKeeps, Zenon DEF folderVars, serverVars, guestVars, tableVars
<1> QED
  BY <1>1, <1>2, <1>3, <1>4, <1>5, <1>6, <1>7, <1>8, <1>9, <1>10, <1>11, <1>12, ZenonT(30)
  DEF FolderNext, MakeNode, MakeDirectory, Create

\* In any behaviour, with any number of objects, ids, handles and mounts, the ids
\* the server knows are the root, those the guest holds, those it has asked to be
\* forgotten and those nobody will forget, and every handle of the guest is open.
THEOREM TablesStayMatched == FolderSpec => []TablesMatchGuest
<1>1. FolderInv => TablesMatchGuest
  BY Zenon DEF FolderInv
<1> QED  BY InitFacts, StepKeeps, <1>1, PTL DEF FolderSpec

-----------------------------------------------------------------------------
(***************************************************************************)
(* SharedFolder: what an id resolves to while its object is not moved.     *)
(***************************************************************************)

\* A path is a sequence of names.
LEMMA PathsAreSeqs == ASSUME NEW p \in Paths PROVE p \in Seq(Names)
<1>1. <<>> \in Seq(Names)
  OBVIOUS
<1>2. \A n \in Nat : \A f \in [1 .. n -> Names] : f \in Seq(Names)
  OBVIOUS
<1>3. 1 \in Nat /\ 2 \in Nat
  BY Zenon
<1> QED  BY <1>1, <1>2, <1>3, Zenon DEF Paths

\* Where something below new comes from, when old is moved to new
From(old, new, q) == old \o SubSeq(q, Len(new) + 1, Len(q))

\* What it is for one path to start with another.
LEMMA PrefixIs ==
  ASSUME NEW s \in Seq(Names), NEW t \in Seq(Names)
  PROVE  StartsWith(t, s) <=> Len(s) <= Len(t) /\ \A i \in 1 .. Len(s) : t[i] = s[i]
<1>1. Len(s) \in Nat /\ Len(t) \in Nat
  OBVIOUS
<1> DEFINE a == SubSeq(s, 1, Len(s))
           b == SubSeq(t, 1, Len(s))
<1>2. a \in Seq(Names) /\ Len(a) = Len(s) /\ \A i \in 1 .. Len(s) : a[i] = s[i]
  BY <1>1
<1>3. CASE Len(s) <= Len(t)
  <2>1. b \in Seq(Names) /\ Len(b) = Len(s) /\ \A i \in 1 .. Len(s) : b[i] = t[i]
    BY <1>1, <1>3
  <2> HIDE DEF a, b
  <2>2. a = b <=> \A i \in 1 .. Len(s) : t[i] = s[i]
    <3>1. ASSUME \A i \in 1 .. Len(s) : t[i] = s[i] PROVE a = b
      <4>1. Len(a) = Len(b) /\ \A i \in 1 .. Len(a) : a[i] = b[i]
        BY <1>2, <2>1, <3>1
      <4>2. a \in Seq(Names) /\ b \in Seq(Names)
        BY <1>2, <2>1
      <4> QED  BY <4>1, <4>2, SeqsEqual, Zenon
    <3> QED  BY <1>2, <2>1, <3>1, Zenon
  <2> QED  BY <1>3, <2>2 DEF StartsWith, a, b
<1> QED  BY <1>3, Zenon DEF StartsWith

IsFrom(f, old, new, q) ==
  /\ f \in Seq(Names) /\ Len(f) = Len(old) + (Len(q) - Len(new))
  /\ \A i \in 1 .. Len(old) : f[i] = old[i]
  /\ \A i \in 1 .. Len(q) - Len(new) : f[Len(old) + i] = q[Len(new) + i]
  /\ Len(q) >= Len(new) /\ \A i \in 1 .. Len(new) : q[i] = new[i]

\* A path under the new name of a folder, as it was under the old one.
LEMMA FromIs ==
  ASSUME NEW old \in Seq(Names), NEW new \in Seq(Names), NEW q \in Seq(Names), StartsWith(q, new)
  PROVE  IsFrom(From(old, new, q), old, new, q)
<1>1. Len(old) \in Nat /\ Len(new) \in Nat /\ Len(q) \in Nat
  OBVIOUS
<1>2. Len(new) <= Len(q) /\ \A i \in 1 .. Len(new) : q[i] = new[i]
  BY PrefixIs, Zenon
<1> DEFINE s == SubSeq(q, Len(new) + 1, Len(q))
           n == Len(q) - Len(new)
           f == old \o s
<1>3. s \in Seq(Names) /\ Len(s) = n /\ \A i \in 1 .. n : s[i] = q[Len(new) + i]
  BY <1>1, <1>2
<1>4. n \in Nat
  BY <1>1, <1>2
<1> HIDE DEF s, n
<1>5. /\ f \in Seq(Names) /\ Len(f) = Len(old) + Len(s)
      /\ \A i \in 1 .. Len(old) + Len(s) : f[i] = IF i <= Len(old) THEN old[i] ELSE s[i - Len(old)]
  <2>1. s \in Seq(Names)
    BY <1>3, Zenon
  <2> QED  BY <2>1, ConcatIs
<1> HIDE DEF f
<1>6. \A i \in 1 .. Len(old) : f[i] = old[i]
  BY <1>1, <1>3, <1>4, <1>5
<1>7. ASSUME NEW i \in 1 .. n PROVE f[Len(old) + i] = q[Len(new) + i]
  <2>1. Len(old) + i \in 1 .. Len(old) + n /\ ~(Len(old) + i <= Len(old)) /\ (Len(old) + i) - Len(old) = i
    BY <1>1, <1>4
  <2>2. f[Len(old) + i] = s[i]
    BY <1>3, <1>5, <2>1
  <2> QED  BY <1>3, <2>2, Zenon
<1>8. f = From(old, new, q)
  BY Zenon DEF f, s, From
<1>9. Len(f) = Len(old) + n
  BY <1>3, <1>5, Zenon
<1>10. Len(q) >= Len(new)
  BY <1>1, <1>2, Zenon
<1> QED  BY <1>2, <1>5, <1>6, <1>7, <1>8, <1>9, <1>10, Zenon DEF n, IsFrom

\* What is moved comes from below the old path, and from a place of its own.
LEMMA FromApart ==
  ASSUME NEW old \in Seq(Names), NEW new \in Seq(Names), NEW q \in Seq(Names), NEW r \in Seq(Names),
         StartsWith(q, new), StartsWith(r, new)
  PROVE  /\ StartsWith(From(old, new, q), old)
         /\ From(old, new, q) = From(old, new, r) => q = r
<1> DEFINE f == From(old, new, q)
           g == From(old, new, r)
<1>0. IsFrom(f, old, new, q) /\ IsFrom(g, old, new, r)
  BY FromIs, Zenon
<1> HIDE DEF f, g
<1>1. /\ f \in Seq(Names) /\ Len(f) = Len(old) + (Len(q) - Len(new))
      /\ \A i \in 1 .. Len(old) : f[i] = old[i]
      /\ \A i \in 1 .. Len(q) - Len(new) : f[Len(old) + i] = q[Len(new) + i]
      /\ Len(q) >= Len(new) /\ \A i \in 1 .. Len(new) : q[i] = new[i]
  BY <1>0, Zenon DEF IsFrom
<1>2. /\ g \in Seq(Names) /\ Len(g) = Len(old) + (Len(r) - Len(new))
      /\ \A i \in 1 .. Len(old) : g[i] = old[i]
      /\ \A i \in 1 .. Len(r) - Len(new) : g[Len(old) + i] = r[Len(new) + i]
      /\ Len(r) >= Len(new) /\ \A i \in 1 .. Len(new) : r[i] = new[i]
  BY <1>0, Zenon DEF IsFrom
<1>3. Len(old) \in Nat /\ Len(new) \in Nat /\ Len(q) \in Nat /\ Len(r) \in Nat
  OBVIOUS
<1>4. StartsWith(f, old)
  <2>1. Len(old) <= Len(f)
    BY <1>1, <1>3
  <2>2. f \in Seq(Names) /\ \A i \in 1 .. Len(old) : f[i] = old[i]
    BY <1>1, Zenon
  <2> QED  BY <2>1, <2>2, PrefixIs
<1>5. ASSUME f = g PROVE q = r
  <2>1. Len(q) = Len(r)
    <3>1. Len(old) + (Len(q) - Len(new)) = Len(old) + (Len(r) - Len(new))
      BY <1>1, <1>2, <1>5
    <3> QED  BY <1>3, <3>1, SMTT(30)
  <2>2. ASSUME NEW i \in 1 .. Len(q) PROVE q[i] = r[i]
    <3>1. CASE i \in 1 .. Len(new)
      BY <1>1, <1>2, <3>1
    <3>2. CASE i \notin 1 .. Len(new)
      <4>1. /\ i - Len(new) \in 1 .. Len(q) - Len(new) /\ Len(new) + (i - Len(new)) = i
            /\ i - Len(new) \in 1 .. Len(r) - Len(new)
        BY <1>3, <2>1, <3>2
      <4>2. f[Len(old) + (i - Len(new))] = q[i] /\ g[Len(old) + (i - Len(new))] = r[i]
        BY <1>1, <1>2, <4>1, Zenon
      <4> QED  BY <1>5, <4>2, Zenon
    <3> QED  BY <3>1, <3>2, SMTT(30)
  <2> QED  BY <2>1, <2>2, SeqsEqual, Zenon
<1> QED  BY <1>4, <1>5, Zenon DEF f, g

\* Objects are numbered as they are made, and each is in one place.
TreeInv ==
  /\ made \in Nat /\ DOMAIN tree = Paths
  /\ \A p \in Paths : tree[p] \in Nat /\ tree[p] <= made
  /\ \A p, q \in Paths : tree[p] # 0 /\ tree[p] = tree[q] => p = q

\* What an id of the guest stands for is nowhere but at the id's path until it is
\* moved.
KnownInv ==
  /\ DOMAIN known = Ids /\ known[1] = 1
  /\ \A n \in holds \cup {1} : known[n] \in Nat /\ known[n] # 0 /\ known[n] <= made
  /\ \A n \in holds \cup {1} : known[n] \notin moved =>
       \A p \in Paths : tree[p] = known[n] => inodes[n] = p

\* The tree and what is known of it agree at the start.
LEMMA KnownStart == FolderInit => TreeInv /\ KnownInv
<1> SUFFICES ASSUME FolderInit PROVE TreeInv /\ KnownInv
  BY Zenon
<1>1. /\ tree = [p \in Paths |-> IF p = <<>> THEN 1 ELSE 0] /\ made = 1 /\ holds = {}
      /\ known = [n \in Ids |-> IF n = 1 THEN 1 ELSE 0]
      /\ inodes = [n \in Ids |-> IF n = 1 THEN <<>> ELSE NoPath]
  BY Zenon DEF FolderInit
<1>2. TreeInv
  BY <1>1 DEF TreeInv
<1>3. 1 \in Ids /\ known[1] = 1 /\ inodes[1] = <<>> /\ DOMAIN known = Ids
  BY <1>1
<1>4. \A p \in Paths : tree[p] = 1 => p = <<>>
  BY <1>1
<1>5. KnownInv
  BY <1>1, <1>3, <1>4 DEF KnownInv
<1> QED  BY <1>2, <1>5, Zenon

\* lookup and the makers: a new id for what is at its path
LEMMA KnownNewId ==
  ASSUME FolderInv, TreeInv, KnownInv, NEW p \in Paths, NEW o, NewId(p, o), o # 0,
         \/ tree' = tree /\ made' = made /\ o = tree[p]
         \/ tree' = [tree EXCEPT ![p] = made + 1] /\ made' = made + 1 /\ o = made + 1,
         holds' \subseteq holds \cup {next_inode}, moved' = moved
  PROVE  TreeInv' /\ KnownInv'
<1>1. /\ \A n \in Ids : inodes'[n] = IF n = next_inode THEN p ELSE inodes[n]
      /\ next_inode \in Ids /\ next_inode >= 2 /\ next_inode \notin holds
  BY NewIdFacts, Zenon
<1>2. known' = [known EXCEPT ![next_inode] = o]
  BY Zenon DEF NewId
<1>3. /\ made \in Nat /\ DOMAIN tree = Paths
      /\ \A q \in Paths : tree[q] \in Nat /\ tree[q] <= made
      /\ \A q, r \in Paths : tree[q] # 0 /\ tree[q] = tree[r] => q = r
  BY SMTT(30) DEF TreeInv
<1>4. /\ TreeInv' /\ tree'[p] = o /\ made' \in Nat /\ made' >= made /\ o \in Nat /\ o <= made'
      /\ \A q \in Paths : q # p => tree'[q] = tree[q]
      /\ \A q \in Paths : tree'[q] # tree[q] => tree'[q] > made
  <2>1. CASE tree' = tree /\ made' = made /\ o = tree[p]
    BY <1>3, <2>1, SMTT(30) DEF TreeInv
  <2>2. CASE tree' = [tree EXCEPT ![p] = made + 1] /\ made' = made + 1 /\ o = made + 1
    <3>1. /\ tree'[p] = made + 1 /\ DOMAIN tree' = Paths
          /\ \A q \in Paths : q # p => tree'[q] = tree[q]
      BY <1>3, <2>2, Zenon
    <3>2. \A q \in Paths : tree'[q] = (IF q = p THEN made + 1 ELSE tree[q])
      BY <3>1, Zenon
    <3>3. \A q \in Paths : tree'[q] \in Nat /\ tree'[q] <= made'
      BY <1>3, <2>2, <3>2
    <3>4. \A q \in Paths : tree[q] # made + 1
      BY <1>3
    <3>5. \A q, r \in Paths : tree'[q] # 0 /\ tree'[q] = tree'[r] => q = r
      BY <1>3, <3>2, <3>4
    <3>6. made + 1 \in Nat /\ made + 1 >= made /\ made + 1 > made /\ made + 1 <= made + 1
      BY <1>3, SMTT(30)
    <3>7. TreeInv'
      BY <2>2, <3>1, <3>3, <3>5, <3>6 DEF TreeInv
    <3> QED  BY <2>2, <3>1, <3>2, <3>6, <3>7
  <2> QED  BY <2>1, <2>2, SMTT(30)
<1>5. /\ DOMAIN known = Ids /\ known[1] = 1
      /\ \A n \in holds \cup {1} : known[n] \in Nat /\ known[n] # 0 /\ known[n] <= made
      /\ \A n \in holds \cup {1} : known[n] \notin moved =>
           \A q \in Paths : tree[q] = known[n] => inodes[n] = q
  BY Zenon DEF KnownInv
<1>6. holds \cup {1} \subseteq Ids
  BY SMTT(30) DEF FolderInv, Tables
<1>7. /\ DOMAIN known' = Ids /\ known'[next_inode] = o /\ inodes'[next_inode] = p
      /\ \A n \in holds \cup {1} : known'[n] = known[n] /\ inodes'[n] = inodes[n]
  BY <1>1, <1>2, <1>5, <1>6
<1>8. \A n \in holds' \cup {1} : n = next_inode \/ n \in holds \cup {1}
  BY Zenon
<1>9. \A n \in holds' \cup {1} : known'[n] \in Nat /\ known'[n] # 0 /\ known'[n] <= made'
  <2>1. \A x \in Nat : x <= made => x <= made'
    BY <1>3, <1>4
  <2> QED  BY <1>4, <1>5, <1>7, <1>8, <2>1, ZenonT(30)
<1>10. ASSUME NEW n \in holds' \cup {1}, known'[n] \notin moved,
              NEW q \in Paths, tree'[q] = known'[n]
       PROVE  inodes'[n] = q
  <2>1. CASE n = next_inode
    <3>1. tree'[q] = tree'[p] /\ tree'[p] # 0
      BY <1>4, <1>7, <1>10, <2>1, SMTT(30)
    <3>2. q = p
      BY <1>4, <3>1 DEF TreeInv
    <3> QED  BY <1>7, <2>1, <3>2, SMTT(30)
  <2>2. CASE n \in holds \cup {1}
    <3>1. known'[n] = known[n] /\ inodes'[n] = inodes[n] /\ known[n] \in Nat /\ known[n] <= made
      BY <1>5, <1>7, <2>2, ZenonT(30)
    <3>2. ~(known[n] > made)
      BY <1>3, <3>1, SMTT(30)
    <3>3. tree[q] = known[n]
      BY <1>4, <1>10, <3>1, <3>2
    <3> QED  BY <1>5, <1>10, <2>2, <3>1, <3>3, ZenonT(30)
  <2> QED  BY <1>8, <2>1, <2>2, SMTT(30)
<1>11. KnownInv'
  <2>1. known'[1] = 1
    BY <1>5, <1>7, ZenonT(30)
  <2> QED  BY <1>7, <1>9, <1>10, <2>1, ZenonT(30) DEF KnownInv
<1> QED  BY <1>4, <1>11

\* Steps that add nothing to the tree and move nothing
LEMMA KnownLess ==
  ASSUME TreeInv, KnownInv, made' = made, moved' = moved, DOMAIN tree' = Paths,
         \A p \in Paths : tree'[p] \in {0, tree[p]},
         DOMAIN known' = Ids, holds' \subseteq holds,
         \A n \in holds' \cup {1} : known'[n] = known[n] /\ inodes'[n] = inodes[n]
  PROVE  TreeInv' /\ KnownInv'
<1>1. TreeInv'
  <2>1. /\ made \in Nat
        /\ \A p \in Paths : tree[p] \in Nat /\ tree[p] <= made
        /\ \A p, q \in Paths : tree[p] # 0 /\ tree[p] = tree[q] => p = q
    BY DEF TreeInv
  <2>2. \A p \in Paths : tree'[p] \in Nat /\ tree'[p] <= made
    BY <2>1, SMTT(30)
  <2>3. \A p, q \in Paths : tree'[p] # 0 /\ tree'[p] = tree'[q] => p = q
    BY <2>1, SMTT(30)
  <2> QED  BY <2>1, <2>2, <2>3, ZenonT(30) DEF TreeInv
<1>2. KnownInv'
  <2>1. /\ \A n \in holds \cup {1} : known[n] \in Nat /\ known[n] # 0 /\ known[n] <= made
        /\ \A n \in holds \cup {1} : known[n] \notin moved =>
             \A p \in Paths : tree[p] = known[n] => inodes[n] = p
    BY Zenon  DEF KnownInv
  <2>2. \A n \in holds' \cup {1} : n \in holds \cup {1}
    BY SMTT(30)
  <2>3. \A n \in holds' \cup {1} : known'[n] \in Nat /\ known'[n] # 0 /\ known'[n] <= made
    BY <2>1, <2>2, SMTT(30)
  <2>4. \A n \in holds' \cup {1} : known'[n] \notin moved =>
          \A p \in Paths : tree'[p] = known'[n] => inodes'[n] = p
    BY <2>1, <2>2, SMTT(30)
  <2>5. known'[1] = 1
    BY DEF KnownInv
  <2> QED  BY <2>3, <2>4, <2>5 DEF KnownInv
<1> QED  BY <1>1, <1>2, ZenonT(30)

\* rename: all that ends up below the new path was below the old one, and is
\* now moved.
LEMMA KnownRename ==
  ASSUME TreeInv, KnownInv, NEW n \in Ids, NEW name \in Names, NEW newdir \in Ids,
         NEW newname \in Names, Rename(n, name, newdir, newname)
  PROVE  TreeInv' /\ KnownInv'
<1> DEFINE old == Child(n, name)
           new == Child(newdir, newname)
           from(q) == From(old, new, q)
<1>1. old \in Paths /\ new \in Paths
  BY Zenon DEF Rename, MayMake
<1>2. /\ tree' = [q \in Paths |-> IF q \in Below(new) THEN At(from(q))
                                 ELSE IF q \in Below(old) THEN 0 ELSE tree[q]]
      /\ moved' = moved \cup {tree[q] : q \in Below(old)}
      /\ made' = made /\ known' = known /\ holds' = holds /\ inodes' = inodes
  BY Zenon DEF Rename, From, serverVars, guestVars
<1> HIDE DEF old, new
<1>3. /\ made \in Nat
      /\ \A q \in Paths : tree[q] \in Nat /\ tree[q] <= made
      /\ \A q, r \in Paths : tree[q] # 0 /\ tree[q] = tree[r] => q = r
  BY DEF TreeInv
\* Where the object at q came from
<1> DEFINE src(q) == IF q \in Below(new) THEN from(q) ELSE q
<1>4. old \in Seq(Names) /\ new \in Seq(Names)
  BY <1>1, PathsAreSeqs, SMTT(30)
<1>5. ASSUME NEW q \in Paths, tree'[q] # 0
      PROVE  /\ src(q) \in Paths /\ tree'[q] = tree[src(q)]
             /\ q \in Below(new) => src(q) \in Below(old)
             /\ q \notin Below(new) => src(q) \notin Below(old)
  <2>1. tree'[q] = IF q \in Below(new) THEN At(from(q))
                   ELSE IF q \in Below(old) THEN 0 ELSE tree[q]
    BY <1>2, ZenonT(30)
  <2>2. CASE q \in Below(new)
    <3>1. tree'[q] = At(from(q)) /\ src(q) = from(q)
      BY <2>1, <2>2, ZenonT(30)
    <3>2. from(q) \in Paths /\ At(from(q)) = tree[from(q)]
      BY <1>5, <3>1, Zenon DEF At
    <3>3. StartsWith(from(q), old)
      <4>1. q \in Seq(Names) /\ StartsWith(q, new)
        BY <2>2, PathsAreSeqs DEF Below
      <4> QED  BY <1>4, <4>1, FromApart
    <3> HIDE DEF from, src
    <3>4. from(q) \in Below(old)
      BY <3>2, <3>3 DEF Below
    <3> QED  BY <2>2, <3>1, <3>2, <3>4, Zenon
  <2>3. CASE q \notin Below(new)
    BY <1>5, <2>1, <2>3, ZenonT(30)
  <2> QED  BY <2>2, <2>3, Zenon
<1>6. TreeInv'
  <2>1. DOMAIN tree' = Paths
    BY <1>2, Zenon
  <2>2. ASSUME NEW q \in Paths PROVE tree'[q] \in Nat /\ tree'[q] <= made
    <3>1. CASE tree'[q] = 0
      BY <1>3, <3>1, SMTT(30)
    <3>2. CASE tree'[q] # 0
      <4>1. src(q) \in Paths /\ tree'[q] = tree[src(q)]
        BY <1>5, <3>2, Zenon
      <4> HIDE DEF src
      <4> QED  BY <1>3, <4>1
    <3> QED  BY <3>1, <3>2, SMTT(30)
  <2>3. ASSUME NEW q \in Paths, NEW r \in Paths, tree'[q] # 0, tree'[q] = tree'[r]
        PROVE  q = r
    <3>1. /\ src(q) \in Paths /\ tree'[q] = tree[src(q)]
          /\ q \in Below(new) => src(q) \in Below(old)
          /\ q \notin Below(new) => src(q) \notin Below(old)
      BY <1>5, <2>3, ZenonT(30)
    <3>2. /\ src(r) \in Paths /\ tree'[r] = tree[src(r)]
          /\ r \in Below(new) => src(r) \in Below(old)
          /\ r \notin Below(new) => src(r) \notin Below(old)
      BY <1>5, <2>3, Zenon
    <3>3. src(q) = src(r) /\ (q \in Below(new) <=> r \in Below(new))
      <4> HIDE DEF src
      <4> QED  BY <1>3, <2>3, <3>1, <3>2, Zenon
    <3>4. CASE q \in Below(new)
      <4>1. From(old, new, q) = From(old, new, r)
        BY <3>3, <3>4, SMTT(30)
      <4>2. /\ q \in Seq(Names) /\ StartsWith(q, new)
            /\ r \in Seq(Names) /\ StartsWith(r, new)
        BY <3>3, <3>4, PathsAreSeqs, SMTT(30) DEF Below
      <4> QED  BY <1>4, <4>1, <4>2, FromApart, SMTT(30)
    <3>5. CASE q \notin Below(new)
      BY <3>3, <3>5
    <3> QED  BY <3>4, <3>5
  <2> QED  BY <1>2, <1>3, <2>1, <2>2, <2>3, Zenon DEF TreeInv
<1>7. KnownInv'
  <2>1. /\ DOMAIN known = Ids /\ known[1] = 1
        /\ \A m \in holds \cup {1} : known[m] \in Nat /\ known[m] # 0 /\ known[m] <= made
        /\ \A m \in holds \cup {1} : known[m] \notin moved =>
             \A q \in Paths : tree[q] = known[m] => inodes[m] = q
    BY ZenonT(30) DEF KnownInv
  <2>2. ASSUME NEW m \in holds \cup {1}, known[m] \notin moved', NEW q \in Paths, tree'[q] = known[m]
        PROVE  inodes[m] = q
    <3>1. /\ src(q) \in Paths /\ tree'[q] = tree[src(q)]
          /\ q \in Below(new) => src(q) \in Below(old)
      BY <1>5, <2>1, <2>2, ZenonT(30)
    <3>2. q \notin Below(new)
      <4> HIDE DEF src
      <4> QED  BY <1>2, <2>2, <3>1, SMTT(30)
    <3>3. tree[q] = known[m]
      BY <2>2, <3>1, <3>2
    <3> QED  BY <1>2, <2>1, <2>2, <3>3, ZenonT(30)
  <2> QED  BY <1>2, <2>1, <2>2, ZenonT(30) DEF KnownInv
<1> QED  BY <1>6, <1>7, SMTT(30)

\* Every step keeps the path of an id leading to its object unless it was moved.
LEMMA KnownStep ==
  FolderInv /\ TreeInv /\ KnownInv /\ [FolderNext]_folderVars => TreeInv' /\ KnownInv'
<1> SUFFICES ASSUME FolderInv, TreeInv, KnownInv, [FolderNext]_folderVars
             PROVE  TreeInv' /\ KnownInv'
  OBVIOUS
<1>1. ASSUME NEW n \in Ids, NEW name \in Names, Lookup(n, name) PROVE TreeInv' /\ KnownInv'
  <2> DEFINE p == Child(n, name)
  <2>1. p \in Paths /\ At(p) # 0 /\ NewId(p, At(p))
        /\ holds' \subseteq holds \cup {next_inode} /\ moved' = moved
        /\ tree' = tree /\ made' = made
    BY <1>1 DEF Lookup, MayMake, Told, hostVars
  <2> HIDE DEF p
  <2>2. At(p) = tree[p]
    BY <2>1 DEF At
  <2> QED  BY <2>1, <2>2, KnownNewId, SMTT(30)
<1>2. ASSUME NEW n \in Ids, NEW name \in Names, NEW dir \in BOOLEAN, NEW opens \in BOOLEAN,
             NEW good \in BOOLEAN, Make(n, name, dir, opens, good)
      PROVE  TreeInv' /\ KnownInv'
  <2> DEFINE p == Child(n, name)
  <2>1. PICK o \in Objects : Placed(p, o, dir) /\ NewId(p, o)
    BY <1>2 DEF Make
  <2>2. p \in Paths /\ moved' = moved /\ holds' \subseteq holds \cup {next_inode}
    BY <1>2, Zenon DEF Make, MayMake, Told
  <2> HIDE DEF p
  <2>3. o # 0
    BY DEF Objects
  <2>4. \/ tree' = tree /\ made' = made /\ o = tree[p]
        \/ tree' = [tree EXCEPT ![p] = made + 1] /\ made' = made + 1 /\ o = made + 1
    BY <2>1, <2>2 DEF Placed, At, hostVars
  <2> QED  BY <2>1, <2>2, <2>3, <2>4, KnownNewId, SMTT(30)
<1>3. /\ DOMAIN tree = Paths /\ DOMAIN known = Ids
      /\ \A p \in Paths : tree[p] \in {0, tree[p]}
  BY Zenon DEF TreeInv, KnownInv
<1>4. CASE UNCHANGED <<tree, made, inodes, holds, known, moved>>
  BY <1>3, <1>4, KnownLess, SMTT(30)
<1>5. ASSUME NEW n \in Ids, SendForget(n) PROVE TreeInv' /\ KnownInv'
  <2>1. /\ known' = [known EXCEPT ![n] = 0] /\ holds' = holds \ {n} /\ n # 1
        /\ UNCHANGED <<tree, made, inodes, moved>>
    BY <1>5 DEF SendForget, hostVars, serverVars, FolderInv, Tables
  <2>2. holds \cup {1} \subseteq Ids
    BY DEF FolderInv, Tables
  <2>3. DOMAIN known' = Ids /\ \A m \in holds' \cup {1} : known'[m] = known[m]
    BY <1>3, <2>1, <2>2, SMTT(30)
  <2> QED  BY <1>3, <2>1, <2>3, KnownLess, SMTT(30)
<1>6. ASSUME NEW S \in SUBSET forgets, Forgotten(S) PROVE TreeInv' /\ KnownInv'
  <2>1. /\ inodes' = [m \in Ids |-> IF m \in S THEN NoPath ELSE inodes[m]]
        /\ UNCHANGED <<tree, made, holds, known, moved>>
    BY <1>6 DEF Forgotten, hostVars
  <2>2. holds \cup {1} \subseteq Ids /\ S \cap (holds \cup {1}) = {}
    BY DEF FolderInv, Tables, TablesMatchGuest
  <2>3. \A m \in holds \cup {1} : inodes'[m] = inodes[m]
    BY <2>1, <2>2
  <2> QED  BY <1>3, <2>1, <2>3, KnownLess, SMTT(30)
<1>7. ASSUME Remount PROVE TreeInv' /\ KnownInv'
  <2>1. /\ known' = [m \in Ids |-> IF m = 1 THEN 1 ELSE 0] /\ holds' = {}
        /\ UNCHANGED <<tree, made, inodes, moved>>
    BY <1>7 DEF Remount, hostVars, serverVars
  <2>2. DOMAIN known' = Ids /\ known'[1] = 1
    BY <2>1
  <2>3. known[1] = 1
    BY DEF KnownInv
  <2> QED  BY <1>3, <2>1, <2>2, <2>3, KnownLess
<1>8. ASSUME NEW n \in Ids, NEW name \in Names, RemoveEntry(n, name) PROVE TreeInv' /\ KnownInv'
  <2>1. /\ tree' = [tree EXCEPT ![Child(n, name)] = 0]
        /\ UNCHANGED <<made, inodes, holds, known, moved>>
    BY <1>8, Zenon DEF RemoveEntry, serverVars, guestVars
  <2>2. DOMAIN tree' = Paths /\ \A p \in Paths : tree'[p] \in {0, tree[p]}
    BY <1>3, <2>1, Zenon
  <2> QED  BY <1>3, <2>1, <2>2, KnownLess
<1>9. ASSUME NEW n \in Ids, NEW name \in Names, NEW newdir \in Ids, NEW newname \in Names,
             Rename(n, name, newdir, newname)
      PROVE  TreeInv' /\ KnownInv'
  BY <1>9, KnownRename, Zenon
<1>10. ASSUME NEW n \in Ids, Open(n) \/ OpenDir(n) PROVE TreeInv' /\ KnownInv'
  BY <1>4, <1>10 DEF Open, OpenDir, hostVars, guestVars
<1>11. ASSUME NEW h \in Handles, Release(h) PROVE TreeInv' /\ KnownInv'
  BY <1>4, <1>11, Zenon DEF Release, hostVars
<1>12. CASE UNCHANGED folderVars
  BY <1>4, <1>12, Zenon DEF folderVars, hostVars, serverVars, guestVars
<1>13. ASSUME NEW n \in Ids, Forget(n) PROVE TreeInv' /\ KnownInv'
  BY <1>6, <1>13 DEF Forget
<1>14. ASSUME NEW S \in SUBSET forgets, BatchForget(S) PROVE TreeInv' /\ KnownInv'
  BY <1>6, <1>14 DEF BatchForget
<1> QED
  BY <1>1, <1>2, <1>5, <1>7, <1>8, <1>9, <1>10, <1>11, <1>12, <1>13, <1>14, Zenon
  DEF FolderNext, MakeNode, MakeDirectory, Create

\* From the invariants: an id whose object was not moved resolves to it.
LEMMA KnownResolves == FolderInv /\ TreeInv /\ KnownInv => UnmovedResolve
<1> SUFFICES ASSUME FolderInv, TreeInv, KnownInv, NEW n \in holds \cup {1},
                    known[n] \notin moved, NEW p \in Paths, tree[p] = known[n]
             PROVE  Resolve(n) = known[n]
  BY Zenon  DEF UnmovedResolve
<1>1. inodes[n] = p
  BY Zenon DEF KnownInv
<1> QED  BY <1>1 DEF Resolve, At

\* An id of the guest resolves to the object the guest knows by it for as long as
\* that object is neither moved nor removed, whatever is looked up, made, renamed,
\* removed and forgotten around it (add_inode, forget, rename of shared_folder).
THEOREM UnmovedAlwaysResolve == FolderSpec => []UnmovedResolve
<1>1. FolderInit => FolderInv /\ TreeInv /\ KnownInv
  BY InitFacts, KnownStart, Zenon
<1>2. FolderInv /\ TreeInv /\ KnownInv /\ [FolderNext]_folderVars
        => FolderInv' /\ TreeInv' /\ KnownInv'
  BY StepKeeps, KnownStep, Zenon
<1> QED  BY <1>1, <1>2, KnownResolves, PTL DEF FolderSpec

HIDE SharedFolderAssumption DEF FUSE_ROOT_ID, Ids, Handles

-----------------------------------------------------------------------------
(***************************************************************************)
(* FsDevice: requests are gathered whole and replies scattered in order.   *)
(* The invariant follows both through the chain, one descriptor at a time. *)
(***************************************************************************)

FsType ==
  /\ queue_sel \in {0, 1} /\ avail \in Seq(Chains) /\ popped \in 0 .. Len(avail)
  /\ pc \in {"pop", "collect", "dispatch", "reply", "retire"}
  /\ request \in Seq(Nat \X Nat) /\ reply \in 0 .. MaxReply /\ written \in 0 .. MaxReply
  /\ used \in Seq(0 .. MaxReply) /\ Len(used) = IF pc = "pop" THEN popped ELSE popped - 1
  /\ pc # "pop" => popped > 0
  /\ pc \in {"collect", "reply"} => desc \in 1 .. Len(chain)

\* What the device wrote lies in the writable descriptors.
Within(c, m) ==
  /\ m \in [DOMAIN c -> Seq(Nat)]
  /\ \A k \in DOMAIN c : Len(m[k]) =< c[k].len /\ (~c[k].write => m[k] = <<>>)

\* The reply is being written: descriptors up to the present one are full, the
\* others empty.
Halfway(c, m) ==
  /\ written < reply
  /\ \A k \in DOMAIN c : k >= desc => m[k] = <<>>
  /\ \A k \in DOMAIN c : k < desc /\ c[k].write => Len(m[k]) = c[k].len

\* A chain's reply, and what it was owed
Paid(c, m, owed) ==
  \E n \in 0 .. MaxReply : Scattered(m, n) /\ (n = owed \/ (n < owed /\ Full(c, m)))

FsMem ==
  /\ DOMAIN mem = DOMAIN avail
  /\ \A c \in DOMAIN avail :
       /\ Within(avail[c], mem[c])
       /\ c =< Len(used) => Paid(avail[c], mem[c], used[c])
       /\ c > popped \/ (c = popped /\ pc \in {"collect", "dispatch"}) =>
            \A k \in DOMAIN avail[c] : mem[c][k] = <<>>
       /\ c = popped /\ pc \in {"reply", "retire"} => Scattered(mem[c], written)
       /\ c = popped /\ pc = "reply" => Halfway(avail[c], mem[c])
       /\ c = popped /\ pc = "retire" =>
            written = reply \/ (written < reply /\ Full(avail[c], mem[c]))

FsInv ==
  /\ FsType /\ FsMem
  /\ pc = "collect" => /\ \A k \in 1 .. desc - 1 : ~chain[k].write
                       /\ Gathered(request, chain, {k \in Readable(chain) : k < desc})
  /\ pc = "dispatch" => Gathered(request, chain, Readable(chain))

ChainType(c) ==
  /\ Len(c) \in Nat /\ Len(c) > 0 /\ DOMAIN c = 1 .. Len(c)
  /\ \A k \in DOMAIN c : c[k].len \in Nat /\ c[k].write \in BOOLEAN
  /\ \A k, j \in DOMAIN c : k < j /\ c[k].write => c[j].write

\* A chain has descriptors, and the writable ones come last.
LEMMA ChainIs ==
  ASSUME NEW c \in Chains
  PROVE  ChainType(c)
<1>1. c \in Seq([len : Nat, write : BOOLEAN]) /\ Len(c) > 0
      /\ \A k, j \in DOMAIN c : k < j /\ c[k].write => c[j].write
  BY FsDeviceAssumption, Zenon
<1>2. Len(c) \in Nat /\ DOMAIN c = 1 .. Len(c)
  BY <1>1, LenIs, Zenon
<1>3. ASSUME NEW k \in DOMAIN c PROVE c[k].len \in Nat /\ c[k].write \in BOOLEAN
  <2>1. c[k] \in [len : Nat, write : BOOLEAN]
    BY <1>1, <1>2, ElementIs, Zenon
  <2> QED BY <2>1, Zenon
<1> QED BY <1>1, <1>2, <1>3, Zenon DEF ChainType

\* What is in the avail ring are chains.
LEMMA AvailIs ==
  ASSUME FsType
  PROVE  /\ Len(avail) \in Nat /\ DOMAIN avail = 1 .. Len(avail)
         /\ \A c \in DOMAIN avail : avail[c] \in Chains /\ ChainType(avail[c])
<1>1. avail \in Seq(Chains)
  BY Zenon DEF FsType
<1>2. Len(avail) \in Nat /\ DOMAIN avail = 1 .. Len(avail)
  BY <1>1, LenIs, Zenon
<1>3. \A c \in DOMAIN avail : avail[c] \in Chains
  BY <1>1, <1>2, ElementIs, Zenon
<1> QED BY <1>2, <1>3, ChainIs, Zenon

\* Nothing is written: no cell of a reply.
LEMMA NothingScattered ==
  ASSUME NEW m, \A k \in DOMAIN m : m[k] = <<>>
  PROVE  Scattered(m, 0)
<1>1. \A k \in DOMAIN m : DOMAIN m[k] = {}
  OBVIOUS
<1> QED BY <1>1 DEF Scattered

\* The cells of one more descriptor go behind those of the earlier ones.
LEMMA GatherMore ==
  ASSUME NEW s \in Seq(Nat \X Nat), NEW c, NEW ds \in SUBSET Nat, NEW d \in Nat,
         \A k \in ds : k < d /\ c[k].len \in Nat, c[d].len \in Nat, Gathered(s, c, ds)
  PROVE  /\ s \o [k \in 1 .. c[d].len |-> <<d, k>>] \in Seq(Nat \X Nat)
         /\ Gathered(s \o [k \in 1 .. c[d].len |-> <<d, k>>], c, ds \cup {d})
<1> DEFINE n == c[d].len
           t == [k \in 1 .. n |-> <<d, k>>]
           u == s \o t
           m == Len(s)
<1>1. n \in Nat /\ m \in Nat /\ DOMAIN s = 1 .. m
  BY LenIs, Zenon
<1>2. t \in Seq(Nat \X Nat) /\ Len(t) = n /\ \A k \in 1 .. n : t[k] = <<d, k>>
  <2> HIDE DEF n
  <2>1. \A k \in 1 .. n : <<d, k>> \in Nat \X Nat
    BY <1>1
  <2>2. t \in [1 .. n -> Nat \X Nat]
    BY <2>1, Zenon
  <2>3. t \in Seq(Nat \X Nat)
    BY <1>1, <2>2
  <2>4. Len(t) = n
    BY <1>1, <2>2, <2>3
  <2> QED BY <2>3, <2>4, Zenon
<1> HIDE DEF n, t
<1>3. /\ u \in Seq(Nat \X Nat) /\ Len(u) = m + n
      /\ (\A k \in 1 .. m : u[k] = s[k]) /\ (\A k \in m + 1 .. m + n : u[k] = <<d, k - m>>)
  <2>1. /\ u \in Seq(Nat \X Nat) /\ Len(u) = Len(s) + Len(t)
        /\ \A k \in 1 .. Len(s) + Len(t) : u[k] = IF k =< Len(s) THEN s[k] ELSE t[k - Len(s)]
    BY <1>2, ConcatIs, Zenon
  <2> HIDE DEF u, m
  <2>2. /\ Len(u) = m + n
        /\ \A k \in 1 .. m + n : u[k] = IF k =< m THEN s[k] ELSE t[k - m]
    BY <1>2, <2>1, Zenon DEF m
  <2>3. \A k \in 1 .. m : k \in 1 .. m + n /\ k =< m
    BY <1>1
  <2>4. \A k \in m + 1 .. m + n : k \in 1 .. m + n /\ ~(k =< m) /\ k - m \in 1 .. n
    BY <1>1
  <2>5. \A k \in m + 1 .. m + n : u[k] = t[k - m]
    BY <2>2, <2>4, Zenon
  <2>6. \A k \in m + 1 .. m + n : u[k] = <<d, k - m>>
    BY <1>2, <2>4, <2>5
  <2> QED BY <2>1, <2>2, <2>3, <2>6, Zenon
<1>4. DOMAIN u = 1 .. m + n
  BY <1>3, LenIs, Zenon
<1>5. \A i \in 1 .. m + n : i \in 1 .. m \/ i \in m + 1 .. m + n
  BY <1>1
<1>6. \A i \in 1 .. m : i \in 1 .. m + n
  BY <1>1
<1> HIDE DEF u, m
<1>7. ASSUME NEW i \in 1 .. m PROVE \E k \in ds : \E j \in 1 .. c[k].len : u[i] = <<k, j>>
  <2>1. i \in DOMAIN s
    BY <1>1, Zenon
  <2>2. \E k \in ds : \E j \in 1 .. c[k].len : s[i] = <<k, j>>
    BY <2>1, Zenon DEF Gathered
  <2>3. u[i] = s[i]
    BY <1>3, Zenon
  <2> QED BY <2>2, <2>3, Zenon
<1>8. ASSUME NEW i \in m + 1 .. m + n PROVE u[i] = <<d, i - m>> /\ i - m \in 1 .. n
  <2>1. u[i] = <<d, i - m>>
    BY <1>3, Zenon
  <2>2. i - m \in 1 .. n
    BY <1>1
  <2> QED BY <2>1, <2>2, Zenon
<1>9. ASSUME NEW i \in DOMAIN u
      PROVE  \E k \in ds \cup {d} : \E j \in 1 .. c[k].len : u[i] = <<k, j>>
  <2>1. CASE i \in 1 .. m
    BY <1>7, <2>1, Zenon
  <2>2. CASE i \in m + 1 .. m + n
    BY <1>8, <2>2, Zenon DEF n
  <2> QED BY <1>4, <1>5, <2>1, <2>2, Zenon
<1>10. ASSUME NEW k \in ds, NEW j \in 1 .. c[k].len PROVE \E i \in DOMAIN u : u[i] = <<k, j>>
  <2>1. PICK i \in 1 .. m : s[i] = <<k, j>>
    BY <1>1, Zenon DEF Gathered
  <2> QED BY <1>3, <1>4, <1>6, <2>1, Zenon
<1>11. ASSUME NEW j \in 1 .. n PROVE \E i \in DOMAIN u : u[i] = <<d, j>>
  <2>1. PICK i \in m + 1 .. m + n : i = m + j
    <3>1. m + j \in m + 1 .. m + n
      BY <1>1
    <3> QED BY <3>1, Zenon
  <2>2. i \in 1 .. m + n /\ i - m = j
    BY <1>1, <2>1
  <2>3. u[i] = <<d, j>>
    BY <1>8, <2>2, Zenon
  <2>4. i \in DOMAIN u
    BY <1>4, <2>2, Zenon
  <2> QED BY <2>3, <2>4, Zenon
<1>12. ASSUME NEW i \in DOMAIN u, NEW j \in DOMAIN u, i < j
       PROVE  u[i][1] < u[j][1] \/ (u[i][1] = u[j][1] /\ u[i][2] < u[j][2])
  <2>1. i \in 1 .. m + n /\ j \in 1 .. m + n
    BY <1>4, Zenon
  <2>2. CASE j \in 1 .. m
    <3>1. i \in 1 .. m
      BY <1>1, <1>12, <2>1, <2>2
    <3>2. s[i][1] < s[j][1] \/ (s[i][1] = s[j][1] /\ s[i][2] < s[j][2])
      BY <1>1, <1>12, <2>2, <3>1, Zenon DEF Gathered
    <3> QED BY <1>3, <2>2, <3>1, <3>2, Zenon
  <2>3. CASE i \in 1 .. m /\ j \in m + 1 .. m + n
    <3>1. PICK k \in ds : u[i][1] = k
      BY <1>7, <2>3
    <3>2. u[j][1] = d
      BY <1>8, <2>3
    <3> QED BY <3>1, <3>2, Zenon
  <2>4. CASE i \in m + 1 .. m + n /\ j \in m + 1 .. m + n
    <3>1. u[i] = <<d, i - m>> /\ u[j] = <<d, j - m>>
      BY <1>8, <2>4, Zenon
    <3>2. i - m < j - m
      BY <1>1, <1>12, <2>4
    <3> QED BY <3>1, <3>2
  <2>5. i \in m + 1 .. m + n => ~(j \in 1 .. m)
    BY <1>1, <1>12
  <2> QED BY <1>5, <2>1, <2>2, <2>3, <2>4, <2>5, Zenon
<1>13. Gathered(u, c, ds \cup {d})
  BY <1>9, <1>10, <1>11, <1>12 DEF Gathered, n
<1> QED BY <1>3, <1>13, Zenon DEF u, t, n

\* n more cells go into descriptor d, with nothing from there on yet.
LEMMA ScatterMore ==
  ASSUME NEW D \in SUBSET Nat, NEW m \in [D -> Seq(Nat)], NEW r \in [D -> Seq(Nat)],
         NEW d \in D, NEW w \in Nat, NEW n \in Nat,
         Scattered(m, w), \A k \in D : k >= d => m[k] = <<>>,
         Len(r[d]) = n, \A k \in 1 .. n : r[d][k] = w + k, \A k \in D \ {d} : r[k] = m[k]
  PROVE  Scattered(r, w + n)
<1>1. DOMAIN r[d] = 1 .. n /\ \A k \in 1 .. n : r[d][k] = w + k
  <2>1. r[d] \in Seq(Nat)
    BY Zenon
  <2> QED BY <2>1, LenIs, Zenon
<1>2. DOMAIN r = D /\ DOMAIN m = D /\ \A k \in D : k # d => r[k] = m[k]
  BY Zenon
<1>3. ASSUME NEW k \in D, k # d, DOMAIN m[k] # {}
      PROVE  k < d
  <2>1. k >= d => DOMAIN m[k] = {}
    OBVIOUS
  <2> QED BY <1>3, <2>1
<1>4. ASSUME NEW k \in D, NEW j \in DOMAIN r[k]
      PROVE  \/ k = d /\ j \in 1 .. n /\ r[k][j] = w + j
             \/ k < d /\ r[k] = m[k] /\ j \in DOMAIN m[k] /\ r[k][j] \in 1 .. w
  <2>1. CASE k = d
    BY <1>1, <1>2, <2>1, Zenon
  <2>2. CASE k # d
    <3>1. r[k] = m[k] /\ j \in DOMAIN m[k]
      BY <1>2, <2>2, Zenon
    <3>2. k < d
      BY <1>3, <2>2, <3>1, Zenon
    <3>3. m[k][j] \in 1 .. w
      BY <1>2, <3>1, Zenon DEF Scattered
    <3> QED BY <3>1, <3>2, <3>3, Zenon
  <2> QED BY <2>1, <2>2, Zenon
<1>5. ASSUME NEW k \in D, NEW j \in DOMAIN r[k] PROVE r[k][j] \in 1 .. w + n
  <2>1. (\E i \in 1 .. n : r[k][j] = w + i) \/ r[k][j] \in 1 .. w
    BY <1>4, Zenon
  <2>2. (\A i \in 1 .. n : w + i \in 1 .. w + n) /\ \A i \in 1 .. w : i \in 1 .. w + n
    OBVIOUS
  <2> QED BY <2>1, <2>2, Zenon
<1>6. ASSUME NEW v \in 1 .. w + n PROVE \E k \in D : \E j \in DOMAIN r[k] : r[k][j] = v
  <2>1. CASE v \in 1 .. w
    <3>1. PICK k \in D : \E j \in DOMAIN m[k] : m[k][j] = v
      BY <1>2, <2>1, Zenon DEF Scattered
    <3>2. m[d] = <<>>
      OBVIOUS
    <3>3. k # d
      BY <3>1, <3>2
    <3> QED BY <1>2, <3>1, <3>3
  <2>2. CASE v \notin 1 .. w
    <3>1. PICK j \in 1 .. n : w + j = v
      <4>1. v - w \in 1 .. n /\ w + (v - w) = v
        BY <2>2
      <4> QED BY <4>1, Zenon
    <3> QED BY <1>1, <1>2, <3>1, Zenon
  <2> QED BY <2>1, <2>2, Zenon
<1>7. ASSUME NEW k \in D, NEW l \in D, NEW j \in DOMAIN r[k], NEW h \in DOMAIN r[l],
             k < l \/ (k = l /\ j < h)
      PROVE  r[k][j] < r[l][h]
  <2>1. CASE k = d
    <3>0. l = d \/ l < d
      BY <1>4, Zenon
    <3>1. l = d /\ j < h
      <4>1. ~(d < l)
        BY <3>0
      <4> QED BY <1>7, <2>1, <4>1, Zenon
    <3>2. r[k][j] = w + j /\ r[l][h] = w + h /\ j \in Nat /\ h \in Nat
      <4>1. ~(d < d) /\ \A i \in 1 .. n : i \in Nat
        OBVIOUS
      <4>2. r[k][j] = w + j /\ j \in Nat
        BY <1>4, <2>1, <4>1, Zenon
      <4>3. r[l][h] = w + h /\ h \in Nat
        BY <1>4, <3>1, <4>1, Zenon
      <4> QED BY <4>2, <4>3, Zenon
    <3> QED BY <3>1, <3>2
  <2>2. CASE k # d /\ l = d
    <3>1. r[k][j] \in 1 .. w /\ r[l][h] = w + h /\ h \in 1 .. n
      BY <1>4, <2>2
    <3> QED BY <3>1
  <2>3. CASE k # d /\ l # d
    <3>1. r[k] = m[k] /\ j \in DOMAIN m[k] /\ r[l] = m[l] /\ h \in DOMAIN m[l]
      BY <1>4, <2>3, Zenon
    <3>2. m[k][j] < m[l][h]
      BY <1>2, <1>7, <3>1, Zenon DEF Scattered
    <3> QED BY <3>1, <3>2, Zenon
  <2> QED BY <2>1, <2>2, <2>3, Zenon
<1>8. Scattered(r, w + n)
  BY <1>2, <1>5, <1>6, <1>7, Zenon DEF Scattered
<1> QED BY <1>8, Zenon

\* The invariant holds at the start.
LEMMA FsStart ==
  ASSUME FsInit
  PROVE  FsInv
<1>1. avail \in Seq(Chains)
  <2>1. PICK n \in 0 .. MaxPosted : avail \in [1 .. n -> Chains]
    BY Zenon DEF FsInit
  <2>2. n \in Nat
    BY FsDeviceAssumption
  <2> QED BY <2>1, <2>2
<1>2. Len(avail) \in Nat /\ DOMAIN avail = 1 .. Len(avail)
  BY <1>1, LenIs, Zenon
<1>3. queue_sel \in {0, 1} /\ popped = 0 /\ pc = "pop" /\ reply = 0 /\ written = 0
      /\ request = <<>> /\ used = <<>>
  BY Zenon DEF FsInit
<1>4. request \in Seq(Nat \X Nat) /\ used \in Seq(0 .. MaxReply) /\ Len(used) = 0
  BY <1>3
<1>5. FsType
  BY <1>1, <1>2, <1>3, <1>4, FsDeviceAssumption DEF FsType
<1>6. DOMAIN mem = DOMAIN avail
      /\ \A c \in DOMAIN avail : mem[c] = [k \in DOMAIN avail[c] |-> <<>>]
  BY Zenon DEF FsInit
<1>7. ASSUME NEW c \in DOMAIN avail
      PROVE  Within(avail[c], mem[c]) /\ (\A k \in DOMAIN avail[c] : mem[c][k] = <<>>) /\ c > 0
  <2>1. ChainType(avail[c])
    BY <1>5, AvailIs, Zenon
  <2>2. mem[c] = [k \in DOMAIN avail[c] |-> <<>>]
    BY <1>6, Zenon
  <2>3. <<>> \in Seq(Nat) /\ Len(<<>>) = 0
    OBVIOUS
  <2>4. mem[c] \in [DOMAIN avail[c] -> Seq(Nat)]
    BY <2>2, <2>3, Zenon
  <2>5. \A k \in DOMAIN avail[c] : mem[c][k] = <<>>
    BY <2>2, Zenon
  <2>6. \A k \in DOMAIN avail[c] : Len(mem[c][k]) =< avail[c][k].len
    BY <2>1, <2>3, <2>5 DEF ChainType
  <2> QED BY <1>2, <2>4, <2>5, <2>6 DEF Within
<1>8. ASSUME NEW c \in DOMAIN avail PROVE ~(c =< Len(used)) /\ c # popped
  BY <1>2, <1>3, <1>4
<1>9. FsMem
  BY <1>6, <1>7, <1>8, Zenon DEF FsMem
<1> QED BY <1>3, <1>5, <1>9, Zenon DEF FsInv

\* What every step of a tick keeps
LEMMA FsKept ==
  ASSUME FsInv
  PROVE  /\ Len(avail) \in Nat /\ DOMAIN avail = 1 .. Len(avail)
         /\ popped \in Nat /\ popped =< Len(avail)
         /\ pc # "pop" => popped \in DOMAIN avail /\ chain = avail[popped] /\ ChainType(chain)
<1>1. FsType
  BY Zenon DEF FsInv
<1>2. /\ Len(avail) \in Nat /\ DOMAIN avail = 1 .. Len(avail)
      /\ \A c \in DOMAIN avail : ChainType(avail[c])
  BY <1>1, AvailIs, Zenon
<1>3. popped \in 0 .. Len(avail) /\ (pc # "pop" => popped > 0)
  BY <1>1, Zenon DEF FsType
<1>4. popped \in Nat /\ popped =< Len(avail) /\ (pc # "pop" => popped \in 1 .. Len(avail))
  BY <1>2, <1>3
<1> QED BY <1>2, <1>4, Zenon DEF chain

\* Popping a chain keeps it.
LEMMA FsPops ==
  ASSUME FsInv, PopAvail
  PROVE  FsInv'
<1>1. FsType /\ FsMem /\ UNCHANGED <<queue_sel, avail, reply, written, mem, used>>
      /\ pc = "pop" /\ pc' = "collect" /\ popped' = popped + 1 /\ desc' = 1 /\ request' = <<>>
      /\ popped < Len(avail)
  BY Zenon DEF FsInv, PopAvail
<1>2. Len(avail) \in Nat /\ DOMAIN avail = 1 .. Len(avail) /\ popped \in Nat
  BY FsKept, Zenon
<1>3. popped' \in 0 .. Len(avail) /\ popped' \in DOMAIN avail /\ popped' > 0 /\ popped' - 1 = popped
  BY <1>1, <1>2
<1>4. Len(used) = popped
  BY <1>1, Zenon DEF FsType
<1>5. ChainType(chain')
  BY <1>1, <1>3, AvailIs, Zenon DEF chain
<1>6. desc' \in 1 .. Len(chain')
  BY <1>1, <1>5 DEF ChainType
<1>7. request' \in Seq(Nat \X Nat)
  BY <1>1
<1>8. FsType'
  BY <1>1, <1>3, <1>4, <1>6, <1>7, Zenon DEF FsType
<1>9. ASSUME NEW c \in DOMAIN avail
      PROVE  c > popped' \/ c = popped' => c > popped
  BY <1>1, <1>2
<1>10. FsMem'
  BY <1>1, <1>9, Zenon DEF FsMem
<1>11. {k \in Readable(chain)' : k < desc'} = {}
  <2>1. \A k \in DOMAIN chain' : ~(k < 1)
    BY <1>5 DEF ChainType
  <2> QED BY <1>1, <2>1, Zenon DEF Readable
<1>12. Gathered(request', chain', {})
  BY <1>1 DEF Gathered
<1>13. \A k \in 1 .. desc' - 1 : FALSE
  BY <1>1
<1>14. Gathered(request, chain, {k \in Readable(chain) : k < desc})'
  BY <1>11, <1>12, Zenon
<1> QED BY <1>1, <1>8, <1>10, <1>13, <1>14, Zenon DEF FsInv

\* collect_readable keeps it, one descriptor at a time.
LEMMA FsCollects ==
  ASSUME FsInv, collect_readable
  PROVE  FsInv'
<1>1. FsType /\ FsMem /\ UNCHANGED <<queue_sel, avail, popped, reply, written, mem, used>>
      /\ pc = "collect" /\ pc' \in {"collect", "dispatch"} /\ chain' = chain
      /\ (\A k \in 1 .. desc - 1 : ~chain[k].write)
      /\ Gathered(request, chain, {k \in Readable(chain) : k < desc})
      /\ desc \in 1 .. Len(chain) /\ request \in Seq(Nat \X Nat)
  <2>1. FsType /\ FsMem /\ pc = "collect" /\ UNCHANGED <<queue_sel, avail, popped, reply, written, mem, used>>
    BY Zenon DEF FsInv, collect_readable
  <2>2. pc' \in {"collect", "dispatch"}
    BY <2>1, Zenon DEF collect_readable
  <2>3. desc \in 1 .. Len(chain) /\ request \in Seq(Nat \X Nat)
    BY <2>1, Zenon DEF FsType
  <2>4. (\A k \in 1 .. desc - 1 : ~chain[k].write)
        /\ Gathered(request, chain, {k \in Readable(chain) : k < desc})
    BY <2>1, Zenon DEF FsInv
  <2> QED BY <2>1, <2>2, <2>3, <2>4, Zenon DEF chain
<1>2. FsMem'
  BY <1>1, ZenonT(30) DEF FsMem
<1>3. ChainType(chain) /\ Len(chain) \in Nat /\ DOMAIN chain = 1 .. Len(chain) /\ desc \in Nat
  <2>1. ChainType(chain)
    BY <1>1, FsKept, Zenon
  <2>2. Len(chain) \in Nat /\ DOMAIN chain = 1 .. Len(chain) /\ desc \in 1 .. Len(chain)
    BY <1>1, <2>1, Zenon DEF ChainType
  <2>3. desc \in Nat
    BY <2>2
  <2> QED BY <2>1, <2>2, <2>3, Zenon
<1>4. Len(used') = popped' - 1 /\ popped' > 0
  BY <1>1, Zenon DEF FsType
<1> DEFINE ds == {k \in Readable(chain) : k < desc}
<1>5. CASE chain[desc].write
  <2>1. pc' = "dispatch" /\ desc' = desc /\ request' = request
    BY <1>5, Zenon DEF collect_readable
  <2>2. FsType'
    BY <1>1, <1>4, <2>1, Zenon DEF FsType
  <2>3. ASSUME NEW k \in Readable(chain) PROVE k < desc
    <3>1. k \in DOMAIN chain /\ ~chain[k].write /\ desc \in DOMAIN chain
      BY <1>1, <1>3, Zenon DEF Readable
    <3>2. ~(desc < k) /\ k # desc
      BY <1>3, <1>5, <3>1, Zenon DEF ChainType
    <3> QED BY <1>3, <3>1, <3>2
  <2>4. ds = Readable(chain)
    BY <2>3, Zenon
  <2>5. Gathered(request', chain', Readable(chain)')
    BY <1>1, <2>1, <2>4, Zenon DEF Readable
  <2> QED BY <1>2, <2>1, <2>2, <2>5, Zenon DEF FsInv
<1>6. CASE ~chain[desc].write
  <2>1. request' = request \o [k \in 1 .. chain[desc].len |-> <<desc, k>>]
    BY <1>6, Zenon DEF collect_readable
  <2>2. ds \in SUBSET Nat /\ (\A k \in ds : k < desc /\ chain[k].len \in Nat) /\ chain[desc].len \in Nat
    BY <1>1, <1>3 DEF ChainType, Readable
  <2>3. request' \in Seq(Nat \X Nat) /\ Gathered(request', chain, ds \cup {desc})
    BY <1>1, <1>3, <2>1, <2>2, GatherMore, Zenon
  <2>4. ds \cup {desc} = {k \in Readable(chain) : k < desc + 1}
    <3>1. \A k \in DOMAIN chain : k < desc + 1 <=> k < desc \/ k = desc
      BY <1>3
    <3>2. desc \in DOMAIN chain
      BY <1>1, <1>3, Zenon
    <3> QED BY <1>6, <3>1, <3>2, Zenon DEF Readable
  <2>5. CASE desc = Len(chain)
    <3>1. pc' = "dispatch" /\ desc' = desc
      BY <1>6, <2>5, Zenon DEF collect_readable
    <3>2. FsType'
      BY <1>1, <1>4, <2>3, <3>1, Zenon DEF FsType
    <3>3. \A k \in DOMAIN chain : k < desc + 1
      BY <1>3, <2>5
    <3>4. ds \cup {desc} = Readable(chain)
      BY <2>4, <3>3, Zenon DEF Readable
    <3>5. Gathered(request', chain', Readable(chain)')
      BY <1>1, <2>3, <3>4, Zenon DEF Readable
    <3> QED BY <1>2, <3>1, <3>2, <3>5, Zenon DEF FsInv
  <2>6. CASE desc # Len(chain)
    <3>1. pc' = "collect" /\ desc' = desc + 1
      BY <1>1, <1>6, <2>6, Zenon DEF collect_readable
    <3>2. desc' \in 1 .. Len(chain') /\ (\A k \in 1 .. desc' - 1 : k \in 1 .. desc - 1 \/ k = desc)
      <4>1. desc \in 1 .. Len(chain) /\ Len(chain) \in Nat
        BY <1>1, <1>3, Zenon
      <4>2. desc + 1 \in 1 .. Len(chain) /\ (\A k \in 1 .. (desc + 1) - 1 : k \in 1 .. desc - 1 \/ k = desc)
        BY <2>6, <4>1
      <4> QED BY <1>1, <3>1, <4>2, Zenon
    <3>3. FsType'
      BY <1>1, <1>4, <2>3, <3>1, <3>2, Zenon DEF FsType
    <3>4. \A k \in 1 .. desc' - 1 : ~chain'[k].write
      BY <1>1, <1>6, <3>2, Zenon
    <3>5. Readable(chain)' = Readable(chain)
      BY <1>1, Zenon DEF Readable
    <3>6. ds' = {k \in Readable(chain) : k < desc + 1}
      BY <3>1, <3>5, Zenon
    <3>7. Gathered(request', chain, ds')
      BY <2>3, <2>4, <3>6, Zenon
    <3>8. Gathered(request, chain, {k \in Readable(chain) : k < desc})'
      BY <1>1, <3>7, Zenon
    <3> QED BY <1>2, <3>1, <3>3, <3>4, <3>8, Zenon DEF FsInv
  <2> QED BY <2>5, <2>6, Zenon
<1> QED BY <1>5, <1>6, Zenon

\* Handing the request to the server keeps it.
LEMMA FsDispatches ==
  ASSUME FsInv, Dispatch
  PROVE  FsInv'
<1>1. FsType /\ FsMem /\ UNCHANGED <<queue_sel, avail, popped, request, mem, used>>
      /\ pc = "dispatch" /\ desc' = 1 /\ written' = 0 /\ chain' = chain
  BY Zenon DEF FsInv, Dispatch, chain
<1>2. (pc' = "retire" /\ reply' = 0) \/ (pc' = "reply" /\ reply' \in 1 .. MaxReply)
  BY Zenon DEF Dispatch
<1>3. ChainType(chain) /\ popped \in DOMAIN avail
  BY <1>1, FsKept, Zenon
<1>4. desc' \in 1 .. Len(chain')
  BY <1>1, <1>3 DEF ChainType
<1>5. reply' \in 0 .. MaxReply /\ written' \in 0 .. MaxReply
      /\ (pc' = "retire" => written' = reply') /\ (pc' = "reply" => written' < reply')
  BY <1>1, <1>2, FsDeviceAssumption
<1>6. Len(used') = popped' - 1 /\ popped' > 0 /\ pc' \in {"reply", "retire"}
  BY <1>1, <1>2, Zenon DEF FsType
<1>7. FsType'
  <2>1. /\ queue_sel' \in {0, 1} /\ avail' \in Seq(Chains) /\ popped' \in 0 .. Len(avail')
        /\ request' \in Seq(Nat \X Nat) /\ used' \in Seq(0 .. MaxReply)
    BY <1>1, Zenon DEF FsType
  <2>2. pc' \in {"pop", "collect", "dispatch", "reply", "retire"} /\ pc' # "pop"
    <3>1. CASE pc' = "reply"
      BY <3>1, Zenon
    <3>2. CASE pc' = "retire"
      BY <3>2, Zenon
    <3> QED BY <1>6, <3>1, <3>2, Zenon
  <2> QED BY <1>4, <1>5, <1>6, <2>1, <2>2, Zenon DEF FsType
<1>8. \A k \in DOMAIN chain : mem[popped][k] = <<>> /\ ~(k < 1)
  <2>1. \A k \in 1 .. Len(chain) : ~(k < 1)
    BY <1>3 DEF ChainType
  <2>2. \A k \in DOMAIN avail[popped] : mem[popped][k] = <<>>
    BY <1>1, <1>3, Zenon DEF FsMem
  <2>3. DOMAIN chain = 1 .. Len(chain)
    BY <1>3, Zenon DEF ChainType
  <2> QED BY <2>1, <2>2, <2>3, Zenon DEF chain
<1>9. Scattered(mem[popped], 0)
  <2>1. DOMAIN mem[popped] = DOMAIN chain
    BY <1>1, <1>3, Zenon DEF FsMem, Within, chain
  <2> QED BY <1>8, <2>1, NothingScattered
<1>10. pc' = "reply" => Halfway(avail[popped], mem[popped])'
  BY <1>1, <1>5, <1>8 DEF Halfway, chain
<1>11. FsMem'
  BY <1>1, <1>5, <1>6, <1>9, <1>10, Zenon DEF FsMem
<1> QED BY <1>6, <1>7, <1>11, Zenon DEF FsInv

\* Pushing the chain to the used ring keeps it.
LEMMA FsRetires ==
  ASSUME FsInv, PushUsed
  PROVE  FsInv'
<1>1. FsType /\ FsMem /\ UNCHANGED <<queue_sel, avail, popped, desc, request, reply, written, mem>>
      /\ pc = "retire" /\ used' = Append(used, reply) /\ pc' = "pop"
  BY Zenon DEF FsInv, PushUsed
<1>2. used \in Seq(0 .. MaxReply) /\ Len(used) = popped - 1 /\ reply \in 0 .. MaxReply
      /\ written \in 0 .. MaxReply
  BY <1>1, Zenon DEF FsType
<1>3. popped \in DOMAIN avail /\ popped \in Nat /\ Len(avail) \in Nat /\ DOMAIN avail = 1 .. Len(avail)
  BY <1>1, FsKept, Zenon
<1>4. /\ used' \in Seq(0 .. MaxReply) /\ Len(used') = Len(used) + 1 /\ used'[Len(used) + 1] = reply
      /\ \A c \in 1 .. Len(used) : used'[c] = used[c]
  BY <1>1, <1>2, AppendIs
<1>5. Len(used') = popped /\ Len(used) + 1 = popped
  BY <1>2, <1>3, <1>4
<1>6. FsType'
  BY <1>1, <1>4, <1>5, Zenon DEF FsType
<1>7. Paid(avail[popped], mem[popped], used'[popped])
  <2>1. Scattered(mem[popped], written)
        /\ (written = reply \/ (written < reply /\ Full(avail[popped], mem[popped])))
    BY <1>1, <1>3, Zenon DEF FsMem
  <2>2. used'[popped] = reply
    BY <1>4, <1>5, Zenon
  <2> QED BY <1>2, <2>1, <2>2 DEF Paid
<1>8. ASSUME NEW c \in DOMAIN avail, c =< Len(used')
      PROVE  Paid(avail[c], mem[c], used'[c])
  <2>1. CASE c = popped
    BY <1>7, <2>1, Zenon
  <2>2. CASE c # popped
    <3>1. c \in 1 .. Len(used) /\ c =< Len(used)
      BY <1>2, <1>3, <1>5, <1>8, <2>2, SMTT(30)
    <3>2. Paid(avail[c], mem[c], used[c])
      <4>1. \A b \in DOMAIN avail : b =< Len(used) => Paid(avail[b], mem[b], used[b])
        BY <1>1, Zenon DEF FsMem
      <4> QED BY <3>1, <4>1, Zenon
    <3> QED BY <1>4, <3>1, <3>2, Zenon
  <2> QED BY <2>1, <2>2, Zenon
<1>9. FsMem'
  <2>1. \A c \in DOMAIN avail : c =< Len(used') => Paid(avail[c], mem[c], used'[c])
    BY <1>8
  <2>2. DOMAIN mem = DOMAIN avail /\ \A c \in DOMAIN avail :
           Within(avail[c], mem[c]) /\ (c > popped => \A k \in DOMAIN avail[c] : mem[c][k] = <<>>)
    BY <1>1, Zenon DEF FsMem
  <2> QED BY <1>1, <2>1, <2>2, Zenon DEF FsMem, Within
<1> QED BY <1>1, <1>6, <1>9, Zenon DEF FsInv

\* What is written to a descriptor fits it, and fills it unless the reply ends there.
LEMMA RoomIs ==
  ASSUME ChainType(chain), desc \in DOMAIN chain, reply \in Nat, written \in Nat, written < reply
  PROVE  /\ Room \in Nat /\ Room =< chain[desc].len /\ written + Room =< reply
         /\ ~chain[desc].write => Room = 0
         /\ chain[desc].write /\ written + Room < reply => Room = chain[desc].len
<1>1. chain[desc].len \in Nat
  BY Zenon DEF ChainType
<1>2. CASE ~chain[desc].write
  <2>1. Room = 0
    BY <1>2, Zenon DEF Room
  <2> QED BY <1>1, <1>2, <2>1
<1>3. CASE chain[desc].write /\ reply - written < chain[desc].len
  <2>1. Room = reply - written
    BY <1>3, Zenon DEF Room
  <2> QED BY <1>1, <1>3, <2>1
<1>4. CASE chain[desc].write /\ ~(reply - written < chain[desc].len)
  <2>1. Room = chain[desc].len
    BY <1>4, Zenon DEF Room
  <2> QED BY <1>1, <1>4, <2>1
<1> QED BY <1>2, <1>3, <1>4, Zenon

\* write_out_reply keeps it, one descriptor at a time.
LEMMA FsWrites ==
  ASSUME FsInv, write_out_reply
  PROVE  FsInv'
<1> DEFINE m == mem[popped]
           piece == [k \in 1 .. Room |-> written + k]
           r == [m EXCEPT ![desc] = piece]
           D == DOMAIN chain
<1>1. FsType /\ FsMem /\ UNCHANGED <<queue_sel, avail, popped, request, reply, used>>
      /\ pc = "reply" /\ written' = written + Room /\ chain' = chain
  BY Zenon  DEF FsInv, write_out_reply, chain
<1>2. popped \in DOMAIN avail /\ chain = avail[popped] /\ ChainType(chain) /\ DOMAIN mem = DOMAIN avail
  BY <1>1, FsKept, Zenon DEF FsMem
<1>3. Len(chain) \in Nat /\ D = 1 .. Len(chain)
  BY <1>2, Zenon DEF ChainType
<1>4. desc \in D /\ desc \in Nat /\ reply \in 0 .. MaxReply /\ written \in 0 .. MaxReply
  <2>1. desc \in 1 .. Len(chain) /\ reply \in 0 .. MaxReply /\ written \in 0 .. MaxReply
    BY <1>1, Zenon DEF FsType
  <2> QED BY <1>3, <2>1
<1>5. reply \in Nat /\ written \in Nat
  BY <1>4, FsDeviceAssumption
<1>6. Within(chain, m) /\ Scattered(m, written) /\ Halfway(chain, m)
  BY <1>1, <1>2, Zenon DEF FsMem
<1>7. /\ written < reply /\ m \in [D -> Seq(Nat)]
      /\ \A k \in D : k >= desc => m[k] = <<>>
      /\ \A k \in D : k < desc /\ chain[k].write => Len(m[k]) = chain[k].len
      /\ \A k \in D : Len(m[k]) =< chain[k].len /\ (~chain[k].write => m[k] = <<>>)
  BY <1>6, Zenon DEF Within, Halfway
<1>8. /\ Room \in Nat /\ Room =< chain[desc].len /\ written + Room =< reply
      /\ ~chain[desc].write => Room = 0
      /\ chain[desc].write /\ written + Room < reply => Room = chain[desc].len
  BY <1>2, <1>4, <1>5, <1>7, RoomIs, Zenon
<1>9. /\ r \in [D -> Seq(Nat)] /\ Len(r[desc]) = Room
      /\ (\A k \in D \ {desc} : r[k] = m[k]) /\ Scattered(r, written + Room)
  <2>1. D \in SUBSET Nat
    BY <1>3
  <2>2. piece \in Seq(Nat) /\ Len(piece) = Room /\ \A k \in 1 .. Room : piece[k] = written + k
    <3> DEFINE n == Room
               w == written
               q == [k \in 1 .. n |-> w + k]
    <3>1. n \in Nat /\ w \in Nat
      BY <1>5, <1>8, Zenon
    <3> HIDE DEF n, w
    <3>2. q \in [1 .. n -> Nat]
      BY <3>1
    <3>3. q \in Seq(Nat)
      BY <3>1, <3>2
    <3>4. Len(q) = n
      BY <3>1, <3>2, <3>3
    <3> QED BY <3>3, <3>4, Zenon DEF n, w
  <2>3. Room \in Nat /\ desc \in D /\ written \in Nat /\ m \in [D -> Seq(Nat)] /\ Scattered(m, written)
        /\ \A k \in D : k >= desc => m[k] = <<>>
    BY <1>4, <1>5, <1>6, <1>7, <1>8, Zenon
  <2> HIDE DEF m, D, piece
  <2>4. r \in [D -> Seq(Nat)] /\ r[desc] = piece /\ \A k \in D \ {desc} : r[k] = m[k]
    BY <2>2, <2>3
  <2> HIDE DEF r
  <2>5. Len(r[desc]) = Room /\ \A k \in 1 .. Room : r[desc][k] = written + k
    BY <2>2, <2>4, Zenon
  <2> QED BY <2>1, <2>3, <2>4, <2>5, ScatterMore, Zenon
<1>10. DOMAIN mem' = DOMAIN avail /\ mem'[popped] = r
       /\ \A c \in DOMAIN avail : c # popped => mem'[c] = mem[c]
  <2>1. mem' = [mem EXCEPT ![popped] = r]
    BY Zenon DEF write_out_reply
  <2> HIDE DEF r
  <2> QED BY <1>2, <2>1, Zenon
<1> HIDE DEF r, m
<1>11. Within(chain, r)
  <2>1. ASSUME NEW k \in D PROVE Len(r[k]) =< chain[k].len /\ (~chain[k].write => r[k] = <<>>)
    <3>1. CASE k = desc
      <4>1. r[desc] \in Seq(Nat)
        BY <1>4, <1>9, Zenon
      <4>2. Room = 0 => r[desc] = <<>>
        BY <1>9, <4>1, EmptyIs, Zenon
      <4> QED BY <1>8, <1>9, <3>1, <4>2, Zenon
    <3>2. CASE k # desc
      BY <1>7, <1>9, <3>2, Zenon
    <3> QED BY <3>1, <3>2, Zenon
  <2> QED BY <1>9, <2>1, Zenon DEF Within
<1>12. written' \in 0 .. MaxReply /\ written' =< reply /\ written' \in Nat
  BY <1>1, <1>4, <1>5, <1>8, FsDeviceAssumption
<1>13. ASSUME NEW k \in D, k =< desc, chain[k].write, written' < reply
       PROVE  Len(r[k]) = chain[k].len
  <2>1. CASE k = desc
    BY <1>1, <1>8, <1>9, <1>13, <2>1, Zenon
  <2>2. CASE k # desc
    <3>1. k < desc /\ k \in D \ {desc}
      BY <1>3, <1>4, <1>13, <2>2
    <3> QED BY <1>7, <1>9, <1>13, <3>1, Zenon
  <2> QED BY <2>1, <2>2, Zenon
<1>14. ASSUME NEW c \in DOMAIN avail, c # popped
       PROVE  /\ Within(avail[c], mem'[c])
              /\ c =< Len(used) => Paid(avail[c], mem'[c], used[c])
              /\ c > popped => \A k \in DOMAIN avail[c] : mem'[c][k] = <<>>
  BY <1>1, <1>10, <1>14, Zenon DEF FsMem
<1>15. Len(used) = popped - 1 /\ popped > 0 /\ popped \in Nat /\ ~(popped =< Len(used)) /\ ~(popped > popped)
  <2>1. Len(used) = popped - 1 /\ popped > 0
    BY <1>1, Zenon DEF FsType
  <2>2. popped \in Nat
    BY FsKept, Zenon
  <2> QED BY <2>1, <2>2
<1>16. CASE written' >= reply \/ desc = Len(chain)
  <2>1. pc' = "retire" /\ desc' = desc
    BY <1>16, Zenon DEF write_out_reply
  <2>2. FsType'
    BY <1>1, <1>12, <1>15, <2>1, Zenon DEF FsType
  <2>3. written' = reply \/ (written' < reply /\ Full(chain, r))
    <3>1. CASE written' >= reply
      BY <1>5, <1>12, <3>1
    <3>2. CASE written' < reply
      <4>1. desc = Len(chain)
        BY <1>5, <1>12, <1>16, <3>2
      <4>2. \A k \in D : k =< desc
        BY <1>3, <4>1
      <4> QED BY <1>13, <3>2, <4>2, Zenon DEF Full
    <3> QED BY <1>5, <1>12, <3>1, <3>2
  <2>4. FsMem'
    BY <1>1, <1>2, <1>9, <1>10, <1>11, <1>14, <1>15, <2>1, <2>3, Zenon DEF FsMem
  <2> QED BY <2>1, <2>2, <2>4, Zenon DEF FsInv
<1>17. CASE ~(written' >= reply \/ desc = Len(chain))
  <2>1. pc' = "reply" /\ desc' = desc + 1
    BY <1>1, <1>17, Zenon DEF write_out_reply
  <2>2. desc + 1 \in 1 .. Len(chain)
    <3>1. desc \in 1 .. Len(chain) /\ Len(chain) \in Nat /\ desc # Len(chain)
      BY <1>3, <1>4, <1>17, Zenon
    <3> QED BY <3>1
  <2>3. FsType'
    BY <1>1, <1>12, <1>15, <2>1, <2>2, Zenon DEF FsType
  <2>4. written' < reply
    BY <1>5, <1>12, <1>17
  <2>5. ASSUME NEW k \in D, k >= desc + 1 PROVE r[k] = <<>>
    <3>1. k >= desc /\ k \in D \ {desc}
      BY <1>3, <1>4, <2>5
    <3> QED BY <1>7, <1>9, <3>1, Zenon
  <2>6. ASSUME NEW k \in D, k < desc + 1, chain[k].write PROVE Len(r[k]) = chain[k].len
    <3>1. k =< desc
      BY <1>3, <1>4, <2>6
    <3> QED BY <1>13, <2>4, <2>6, <3>1, Zenon
  <2>7. Halfway(chain, mem[popped])'
    <3>1. (\A k \in DOMAIN chain : k >= desc' => mem'[popped][k] = <<>>)
          /\ \A k \in DOMAIN chain : k < desc' /\ chain[k].write => Len(mem'[popped][k]) = chain[k].len
      BY <1>10, <2>1, <2>5, <2>6
    <3> QED BY <1>1, <2>4, <3>1, Zenon DEF Halfway
  <2>8. FsMem'
    BY <1>1, <1>2, <1>9, <1>10, <1>11, <1>14, <1>15, <2>1, <2>7, Zenon DEF FsMem
  <2> QED BY <2>1, <2>3, <2>8, Zenon DEF FsInv
<1> QED BY <1>16, <1>17, Zenon

\* Every step of the device keeps the invariant.
LEMMA FsSteps ==
  FsInv /\ [FsNext]_fsVars => FsInv'
<1> SUFFICES ASSUME FsInv, [FsNext]_fsVars PROVE FsInv'
  BY Zenon
<1>1. CASE UNCHANGED fsVars
  <2>1. UNCHANGED <<queue_sel, avail, popped, pc, desc, request, reply, written, mem, used>> /\ chain' = chain
    BY <1>1, Zenon DEF fsVars, chain
  <2>2. FsType'
    <3>1. FsType
      BY Zenon DEF FsInv
    <3> QED BY <2>1, <3>1, Zenon DEF FsType
  <2>3. FsMem'
    <3>1. FsMem
      BY Zenon DEF FsInv
    <3>2. \A c \in DOMAIN avail : Halfway(avail[c], mem[c])' = Halfway(avail[c], mem[c])
      BY <2>1, Zenon DEF Halfway
    <3> QED BY <2>1, <3>1, <3>2, Zenon DEF FsMem
  <2>4. Readable(chain)' = Readable(chain)
    BY <2>1, Zenon DEF Readable
  <2> QED BY <2>1, <2>2, <2>3, <2>4, Zenon DEF FsInv
<1>2. CASE Return
  BY <1>1, <1>2 DEF Return
<1> QED
  BY <1>1, <1>2, FsPops, FsCollects, FsDispatches, FsWrites, FsRetires, Zenon DEF FsNext

\* From the invariant: requests are whole and replies in order.
LEMMA FsCarries ==
  ASSUME FsInv
  PROVE  ChainsCarried
<1>1. FsType /\ FsMem /\ (pc = "dispatch" => Gathered(request, chain, Readable(chain)))
  BY Zenon DEF FsInv
<1>2. ASSUME NEW c \in DOMAIN avail
      PROVE  \E n \in 0 .. MaxReply :
               /\ Scattered(mem[c], n)
               /\ c =< Len(used) => n = used[c] \/ (n < used[c] /\ Full(avail[c], mem[c]))
               /\ c > popped => n = 0
  <2>1. popped \in Nat /\ c \in Nat /\ written \in 0 .. MaxReply /\ 0 \in 0 .. MaxReply
    BY <1>1, FsKept, FsDeviceAssumption DEF FsType
  <2>2. Len(used) = IF pc = "pop" THEN popped ELSE popped - 1
    BY <1>1, Zenon DEF FsType
  <2>3. CASE c =< Len(used)
    <3>1. ~(c > popped)
      BY <2>1, <2>2, <2>3
    <3> QED BY <1>1, <2>3, <3>1, Zenon DEF FsMem, Paid
  <2>4. CASE ~(c =< Len(used)) /\ c = popped /\ pc \in {"reply", "retire"}
    <3>1. Scattered(mem[c], written) /\ ~(c > popped)
      <4>1. Scattered(mem[c], written)
        BY <1>1, <2>4, Zenon DEF FsMem
      <4>2. ~(c > popped)
        BY <2>1, <2>4
      <4> QED BY <4>1, <4>2, Zenon
    <3> QED BY <2>1, <2>4, <3>1
  <2>5. CASE ~(c =< Len(used)) /\ ~(c = popped /\ pc \in {"reply", "retire"})
    <3>1. c > popped \/ (c = popped /\ pc \in {"collect", "dispatch"})
      <4>1. pc \in {"pop", "collect", "dispatch", "reply", "retire"}
        BY <1>1 DEF FsType
      <4> QED BY <2>1, <2>2, <2>5, <4>1
    <3>2. \A k \in DOMAIN mem[c] : mem[c][k] = <<>>
      BY <1>1, <3>1, Zenon DEF FsMem, Within
    <3>3. Scattered(mem[c], 0)
      BY <3>2, NothingScattered, Zenon
    <3> QED BY <2>1, <2>5, <3>3, Zenon
  <2> QED BY <2>3, <2>4, <2>5, Zenon
<1> QED BY <1>1, <1>2, Zenon DEF ChainsCarried, FsMem, Within

\* tick() of the shared folder's device: every request is dispatched with all of
\* its chain's readable bytes in order, and every retired chain holds its reply from
\* the first byte on, as far as its writable descriptors have room, and nothing of
\* another's.
THEOREM ChainsAlwaysCarried == FsSpec => []ChainsCarried
<1>1. FsInit => FsInv
  BY FsStart, Zenon
<1>2. FsInv => ChainsCarried
  BY FsCarries, Zenon
<1> QED BY <1>1, <1>2, FsSteps, PTL DEF FsSpec

-----------------------------------------------------------------------------
(***************************************************************************)
(* FolderListing: a listing names every entry that was there throughout,   *)
(* once. The invariant relates what was listed to the place the next reply *)
(* starts from.                                                            *)
(***************************************************************************)

ListType ==
  /\ hostdir \in Seq(DirEntries) /\ entries \in Seq(DirEntries)
  /\ out \in Seq(DirEntries) /\ listed \in Seq(DirEntries) /\ ends \in Seq(Nat)
  /\ pos \in Nat \ {0} /\ offset \in Nat /\ max_size \in Nat
  /\ list_pc \in {"ask", "fill", "done", "EIO"} /\ shifted \in BOOLEAN

\* The reply so far: records without gaps
Packed ==
  /\ Len(ends) = Len(out) /\ Filled =< max_size /\ max_size \in MaxSizes
  /\ \A k \in 1 .. Len(out) : ends[k] = PaddedLen(out[k]) + (IF k = 1 THEN 0 ELSE ends[k - 1])

\* As long as nothing was changed in front: what was received is the beginning of
\* the directory; what the request collected is too, and reaches as far; the reply
\* holds what comes between the offset and the entry looked at.
InStep ==
  /\ list_pc # "EIO" /\ offset =< Len(hostdir)
  /\ Len(listed) = offset /\ \A k \in 1 .. offset : listed[k] = hostdir[k]
  /\ list_pc = "fill" =>
       /\ offset =< Len(entries) /\ Len(entries) =< Len(hostdir)
       /\ \A k \in 1 .. Len(entries) : entries[k] = hostdir[k]
       /\ pos =< Len(entries) + 1
       /\ IF pos =< offset THEN out = <<>>
          ELSE /\ Len(out) = pos - 1 - offset
               /\ \A k \in 1 .. Len(out) : out[k] = hostdir[offset + k]
       /\ stayed \subseteq Range(entries)
  /\ list_pc = "done" => stayed \subseteq Range(listed)

ListInv ==
  /\ ListType /\ stayed \subseteq Range(hostdir)
  /\ list_pc = "fill" => Packed
  /\ ~shifted => InStep

Narrowed(s, k) == SubSeq(s, 1, k - 1) \o SubSeq(s, k + 1, Len(s))
Widened(s, k, e) == SubSeq(s, 1, k - 1) \o <<e>> \o SubSeq(s, k, Len(s))

\* A removal moves what comes after it down and leaves the rest alone.
LEMMA Removed ==
  ASSUME NEW S, NEW s \in Seq(S), NEW k \in 1 .. Len(s)
  PROVE  /\ Narrowed(s, k) \in Seq(S) /\ Len(Narrowed(s, k)) = Len(s) - 1
         /\ \A j \in 1 .. Len(s) - 1 : Narrowed(s, k)[j] = IF j < k THEN s[j] ELSE s[j + 1]
<1> DEFINE n == Len(s)
           u == SubSeq(s, 1, k - 1)
           v == SubSeq(s, k + 1, n)
<1>1. n \in Nat /\ k \in 1 .. n
  BY LenIs, Zenon
<1>2. /\ u \in Seq(S) /\ Len(u) = k - 1 /\ \A j \in 1 .. k - 1 : u[j] = s[j]
  <2>1. \A j \in 1 .. k - 1 : j \in 1 .. n
    BY <1>1
  <2>2. u = [j \in 1 .. k - 1 |-> s[1 + j - 1]] /\ Len(u) = k - 1 /\ u \in Seq(S)
    BY <1>1, <2>1, SubSeqIs
  <2> QED BY <2>2
<1>3. /\ v \in Seq(S) /\ Len(v) = n - k /\ \A j \in 1 .. n - k : v[j] = s[k + j]
  <2>1. k + 1 \in 1 .. n + 1 /\ n \in k .. n
    BY <1>1
  <2>2. v \in Seq(S) /\ Len(v) = n - k
    BY <1>1, <2>1, SubSeqIs
  <2>3. ASSUME NEW j \in 1 .. n - k PROVE v[j] = s[k + j]
    <3>1. k + 1 + j - 1 = k + j
      BY <1>1
    <3>2. v[j] = s[k + 1 + j - 1]
      BY <1>1, <2>1, SubSeqIs
    <3> QED BY <3>1, <3>2, Zenon
  <2> QED BY <2>2, <2>3, Zenon
<1> HIDE DEF u, v, n
<1>4. /\ u \o v \in Seq(S) /\ Len(u \o v) = Len(u) + Len(v)
      /\ \A j \in 1 .. Len(u) + Len(v) : (u \o v)[j] = IF j =< Len(u) THEN u[j] ELSE v[j - Len(u)]
  BY <1>2, <1>3, ConcatIs, Zenon
<1>5. Len(u \o v) = n - 1
  BY <1>1, <1>2, <1>3, <1>4
<1>6. ASSUME NEW j \in 1 .. n - 1
      PROVE  (u \o v)[j] = IF j < k THEN s[j] ELSE s[j + 1]
  <2>1. (u \o v)[j] = IF j =< k - 1 THEN u[j] ELSE v[j - (k - 1)]
    <3>1. Len(u) = k - 1 /\ Len(u) + Len(v) = n - 1
      BY <1>1, <1>2, <1>3
    <3> QED BY <1>4, <3>1, Zenon
  <2>2. CASE j < k
    BY <1>1, <1>2, <2>1, <2>2
  <2>3. CASE ~(j < k)
    <3>1. j - (k - 1) \in 1 .. n - k /\ k + (j - (k - 1)) = j + 1 /\ ~(j =< k - 1)
      BY <1>1, <2>3
    <3>2. v[j - (k - 1)] = s[k + (j - (k - 1))]
      BY <1>3, <3>1, Zenon
    <3> QED BY <2>1, <2>3, <3>1, <3>2, Zenon
  <2> QED BY <2>2, <2>3, Zenon
<1>7. Narrowed(s, k) = u \o v
  BY Zenon DEF Narrowed, u, v, n
<1> QED BY <1>4, <1>5, <1>6, <1>7, Zenon DEF n

\* An addition moves what comes after it up.
GrownAt(r, s, k, e) ==
  /\ Len(r) = Len(s) + 1
  /\ \A j \in 1 .. Len(s) + 1 : r[j] = IF j < k THEN s[j] ELSE IF j = k THEN e ELSE s[j - 1]

\* Inserting an entry moves those from its place on up by one.
LEMMA Inserted ==
  ASSUME NEW S, NEW s \in Seq(S), NEW k \in 1 .. Len(s) + 1, NEW e \in S
  PROVE  Widened(s, k, e) \in Seq(S) /\ GrownAt(Widened(s, k, e), s, k, e)
<1> DEFINE n == Len(s)
           u == SubSeq(s, 1, k - 1)
           v == SubSeq(s, k, n)
           w == u \o <<e>>
<1>1. n \in Nat /\ k \in 1 .. n + 1
  BY LenIs, Zenon
<1>2. /\ u \in Seq(S) /\ Len(u) = k - 1 /\ \A j \in 1 .. k - 1 : u[j] = s[j]
  <2>1. \A j \in 1 .. k - 1 : j \in 1 .. n
    BY <1>1
  <2>2. u = [j \in 1 .. k - 1 |-> s[1 + j - 1]] /\ Len(u) = k - 1 /\ u \in Seq(S)
    BY <1>1, <2>1, SubSeqIs
  <2> QED BY <2>2
<1>3. /\ v \in Seq(S) /\ Len(v) = n - k + 1 /\ \A j \in 1 .. n - k + 1 : v[j] = s[k + j - 1]
  <2>1. n \in k - 1 .. n
    BY <1>1
  <2>2. v \in Seq(S) /\ Len(v) = n - k + 1
    BY <1>1, <2>1, SubSeqIs
  <2>3. ASSUME NEW j \in 1 .. n - k + 1 PROVE v[j] = s[k + j - 1]
    BY <1>1, <2>1, SubSeqIs
  <2> QED BY <2>2, <2>3, Zenon
<1> HIDE DEF u, v, n
<1>4. <<e>> \in Seq(S) /\ Len(<<e>>) = 1 /\ <<e>>[1] = e
  OBVIOUS
<1>5. w \in Seq(S) /\ Len(w) = k /\ (\A j \in 1 .. k - 1 : w[j] = s[j]) /\ w[k] = e
  <2>1. /\ w \in Seq(S) /\ Len(w) = Len(u) + Len(<<e>>)
        /\ \A j \in 1 .. Len(u) + Len(<<e>>) : w[j] = IF j =< Len(u) THEN u[j] ELSE <<e>>[j - Len(u)]
    BY <1>2, <1>4, ConcatIs, Zenon
  <2> HIDE DEF w
  <2>2. Len(w) = k
    BY <1>1, <1>2, <1>4, <2>1, SMTT(30)
  <2>3. \A j \in 1 .. k : w[j] = IF j =< k - 1 THEN u[j] ELSE <<e>>[j - (k - 1)]
    BY <1>1, <1>2, <1>4, <2>1, SMTT(30)
  <2>4. k \in 1 .. k /\ k - (k - 1) = 1 /\ ~(k =< k - 1)
    BY <1>1
  <2>5. w[k] = e
    BY <1>4, <2>3, <2>4, Zenon
  <2>6. \A j \in 1 .. k - 1 : w[j] = s[j]
    BY <1>1, <1>2, <2>3
  <2> QED BY <2>1, <2>2, <2>5, <2>6, Zenon
<1> HIDE DEF w
<1>6. /\ w \o v \in Seq(S) /\ Len(w \o v) = Len(w) + Len(v)
      /\ \A j \in 1 .. Len(w) + Len(v) : (w \o v)[j] = IF j =< Len(w) THEN w[j] ELSE v[j - Len(w)]
  BY <1>3, <1>5, ConcatIs, Zenon
<1>7. Len(w \o v) = n + 1
  BY <1>1, <1>3, <1>5, <1>6
<1>8. ASSUME NEW j \in 1 .. n + 1
      PROVE  (w \o v)[j] = IF j < k THEN s[j] ELSE IF j = k THEN e ELSE s[j - 1]
  <2>1. (w \o v)[j] = IF j =< k THEN w[j] ELSE v[j - k]
    <3>1. Len(w) = k /\ j \in 1 .. Len(w) + Len(v)
      BY <1>1, <1>3, <1>5
    <3> QED BY <1>6, <3>1, Zenon
  <2>2. CASE j < k
    BY <1>1, <1>5, <2>1, <2>2
  <2>3. CASE j = k
    BY <1>1, <1>5, <2>1, <2>3
  <2>4. CASE j > k
    <3>1. j - k \in 1 .. n - k + 1 /\ k + (j - k) - 1 = j - 1 /\ ~(j =< k) /\ ~(j < k) /\ j # k
      BY <1>1, <2>4
    <3>2. v[j - k] = s[k + (j - k) - 1]
      BY <1>3, <3>1, Zenon
    <3>3. v[j - k] = s[j - 1]
      BY <3>1, <3>2, Zenon
    <3> QED BY <2>1, <3>1, <3>3, Zenon
  <2>5. j < k \/ j = k \/ j > k
    BY <1>1
  <2> QED BY <2>2, <2>3, <2>4, <2>5, Zenon
<1>9. Widened(s, k, e) = w \o v
  BY Zenon DEF Widened, w, u, v, n
<1>10. GrownAt(w \o v, s, k, e)
  BY <1>7, <1>8, Zenon DEF GrownAt, n
<1> QED BY <1>6, <1>9, <1>10, Zenon

\* A record has a length, and fits an empty reply.
LEMMA PaddedIs ==
  ASSUME NEW e \in DirEntries
  PROVE  /\ PaddedLen(e) \in Nat
         /\ \A m \in MaxSizes : m \in Nat /\ PaddedLen(e) =< m
<1>1. NameLens[e] \in Nat
  BY ListingAssumption, ElementIs, LenIs, Zenon DEF DirEntries
<1> DEFINE l == NameLens[e]
<1>2. l \in Nat
  BY <1>1, Zenon
<1> HIDE DEF l
<1>3. (24 + l + 7) \div 8 \in Nat
  BY <1>2, SMT
<1>4. ((24 + l + 7) \div 8) * 8 \in Nat
  BY <1>3
<1>5. PaddedLen(e) \in Nat
  BY <1>4, Zenon DEF PaddedLen, l
<1>6. \A m \in MaxSizes : m \in Nat /\ PaddedLen(e) =< m
  BY ListingAssumption, Zenon
<1> QED BY <1>5, <1>6, Zenon

\* The invariant holds before the first request.
LEMMA ListStart == ListInit => ListInv
<1> SUFFICES ASSUME ListInit PROVE ListInv
  BY Zenon
<1>1. PICK n \in 0 .. Len(NameLens) : hostdir = [k \in 1 .. n |-> k]
  BY Zenon DEF ListInit
<1>2. Len(NameLens) \in Nat /\ DirEntries = 1 .. Len(NameLens)
  BY ListingAssumption, LenIs, Zenon DEF DirEntries
<1>3. hostdir \in Seq(DirEntries)
  <2>1. n \in Nat /\ hostdir \in [1 .. n -> DirEntries]
    BY <1>1, <1>2
  <2> QED BY <2>1
<1>4. /\ list_pc = "ask" /\ entries = <<>> /\ max_size = 0 /\ pos = 1 /\ out = <<>> /\ ends = <<>>
      /\ offset = 0 /\ listed = <<>> /\ stayed = Range(hostdir) /\ shifted = FALSE
  BY Zenon DEF ListInit
<1>5. ListType
  <2>1. entries \in Seq(DirEntries) /\ out \in Seq(DirEntries) /\ listed \in Seq(DirEntries) /\ ends \in Seq(Nat)
    BY <1>4
  <2>2. /\ pos \in Nat \ {0} /\ offset \in Nat /\ max_size \in Nat
        /\ list_pc \in {"ask", "fill", "done", "EIO"}
    <3>1. pos = 1 /\ offset = 0 /\ max_size = 0 /\ list_pc = "ask"
      BY <1>4, Zenon
    <3> QED BY <3>1
  <2>3. shifted \in BOOLEAN
    BY <1>4, Zenon
  <2> QED BY <1>3, <2>1, <2>2, <2>3, Zenon DEF ListType
<1>6. Len(listed) = 0
  BY <1>4, Zenon
<1>7. Len(hostdir) \in Nat
  BY <1>3, LenIs, Zenon
<1>8. InStep
  BY <1>4, <1>6, <1>7 DEF InStep
<1> QED BY <1>4, <1>5, <1>8, Zenon DEF ListInv

\* Reading the directory for a request keeps it.
LEMMA ListCollects ==
  ASSUME ListInv, NEW m \in MaxSizes, CollectEntries(m)
  PROVE  ListInv'
<1>1. /\ list_pc = "ask" /\ list_pc' = "fill"
      /\ entries' = hostdir /\ max_size' = m /\ pos' = 1 /\ out' = <<>> /\ ends' = <<>>
      /\ UNCHANGED <<hostdir, offset, listed, stayed, shifted>> /\ ListType
      /\ stayed \subseteq Range(hostdir)
  BY Zenon DEF CollectEntries, ListInv
<1>2. m \in Nat
  BY ListingAssumption, Zenon
<1>3. ListType'
  BY <1>1, <1>2 DEF ListType
<1>4. Len(out') = 0 /\ Len(ends') = 0 /\ Len(hostdir) \in Nat /\ offset \in Nat
  BY <1>1, LenIs, Zenon DEF ListType
<1>5. Packed'
  BY <1>1, <1>2, <1>4, SMTT(30) DEF Packed, Filled
<1>6. ASSUME ~shifted PROVE InStep'
  <2>1. InStep
    BY <1>6, Zenon DEF ListInv
  <2> QED BY <1>1, <1>4, <2>1 DEF InStep
<1> QED BY <1>1, <1>3, <1>5, <1>6, Zenon DEF ListInv

\* The reply is taken.
LEMMA ListReplied ==
  ASSUME ListInv, list_pc = "fill", Replied,
         UNCHANGED <<hostdir, entries, max_size, stayed, shifted>>,
         ~shifted => pos > offset /\ (out = <<>> => pos = Len(entries) + 1)
  PROVE  ListInv'
<1>1. /\ list_pc' = IF out = <<>> THEN "done" ELSE "ask"
      /\ listed' = listed \o out
      /\ offset' = IF out = <<>> THEN offset ELSE pos - 1
      /\ UNCHANGED <<pos, out, ends>> /\ ListType /\ stayed \subseteq Range(hostdir)
  BY Zenon DEF Replied, ListInv
<1>2. /\ listed \in Seq(DirEntries) /\ out \in Seq(DirEntries)
      /\ pos \in Nat /\ pos # 0 /\ offset \in Nat /\ Len(hostdir) \in Nat /\ Len(entries) \in Nat
      /\ Len(listed) \in Nat /\ Len(out) \in Nat
  BY <1>1, LenIs, Zenon DEF ListType
<1>3. /\ listed' \in Seq(DirEntries) /\ Len(listed') = Len(listed) + Len(out)
      /\ \A k \in 1 .. Len(listed) + Len(out) :
           listed'[k] = IF k =< Len(listed) THEN listed[k] ELSE out[k - Len(listed)]
  BY <1>1, <1>2, ConcatIs
<1>4. offset' \in Nat /\ list_pc' \in {"ask", "done"}
  BY <1>1, <1>2
<1>5. ListType'
  BY <1>1, <1>3, <1>4, Zenon DEF ListType
<1>6. ASSUME ~shifted PROVE InStep'
  <2>1. /\ offset =< Len(hostdir) /\ Len(listed) = offset /\ \A k \in 1 .. offset : listed[k] = hostdir[k]
        /\ offset =< Len(entries) /\ Len(entries) =< Len(hostdir)
        /\ \A k \in 1 .. Len(entries) : entries[k] = hostdir[k]
        /\ pos =< Len(entries) + 1 /\ pos > offset
        /\ Len(out) = pos - 1 - offset /\ \A k \in 1 .. Len(out) : out[k] = hostdir[offset + k]
        /\ stayed \subseteq Range(entries)
    BY <1>2, <1>6 DEF ListInv, InStep
  <2>2. out = <<>> <=> Len(out) = 0
    BY <1>2, EmptyIs, Zenon
  <2>3. offset' = pos - 1
    BY <1>1, <1>2, <2>1, <2>2, SMTT(30)
  <2>4. Len(listed') = pos - 1
    BY <1>2, <1>3, <2>1
  <2>5. ASSUME NEW k \in 1 .. pos - 1 PROVE listed'[k] = hostdir[k]
    <3>0. k \in 1 .. Len(listed) + Len(out)
      BY <1>2, <2>1, SMTT(30)
    <3>1. CASE k =< offset
      <4>1. k \in 1 .. offset
        BY <1>2, <3>1
      <4> QED BY <1>3, <2>1, <3>0, <3>1, <4>1, Zenon
    <3>2. CASE ~(k =< offset)
      <4>1. k - offset \in 1 .. Len(out) /\ offset + (k - offset) = k
        BY <1>2, <2>1, <3>2
      <4>2. out[k - offset] = hostdir[offset + (k - offset)]
        BY <2>1, <4>1, Zenon
      <4>3. listed'[k] = out[k - offset]
        BY <1>3, <2>1, <3>0, <3>2, Zenon
      <4> QED BY <4>1, <4>2, <4>3, Zenon
    <3> QED BY <3>1, <3>2, Zenon
  <2>6. offset' =< Len(hostdir)
    BY <1>2, <2>1, <2>3
  <2>7. ASSUME list_pc' = "done" PROVE stayed' \subseteq Range(listed')
    <3>1. out = <<>> /\ pos = Len(entries) + 1
      BY <1>1, <1>6, <2>7, SMTT(30)
    <3>2. pos - 1 = Len(entries) /\ DOMAIN entries = 1 .. Len(entries) /\ DOMAIN listed' = 1 .. Len(listed')
      BY <1>1, <1>2, <1>3, <3>1, LenIs DEF ListType
    <3>3. \A k \in 1 .. Len(entries) : listed'[k] = entries[k]
      BY <2>1, <2>5, <3>2, Zenon
    <3>4. Range(entries) \subseteq Range(listed')
      BY <2>4, <3>2, <3>3, Zenon DEF Range
    <3> QED BY <2>1, <3>4, Zenon
  <2> QED BY <1>4, <2>3, <2>4, <2>5, <2>6, <2>7 DEF InStep
<1> QED BY <1>1, <1>4, <1>5, <1>6, Zenon DEF ListInv

\* What a sequence of numbers with one more holds.
LEMMA OneMore ==
  ASSUME NEW s \in Seq(Nat), NEW x \in Nat
  PROVE  /\ Append(s, x) \in Seq(Nat) /\ Append(s, x) # <<>> /\ Len(Append(s, x)) = Len(s) + 1
         /\ (\A k \in 1 .. Len(s) : Append(s, x)[k] = s[k]) /\ Append(s, x)[Len(s) + 1] = x
BY AppendIs

GoneOn(p, o, n, l) == n + 1 = p - 1 - o /\ ~(p =< o) /\ p =< l + 1

\* The place after a record is added.
LEMMA NextPlace ==
  ASSUME NEW p \in Nat, NEW o \in Nat, NEW n \in Nat, NEW l \in Nat,
         n = p - 1 - o, ~(p < o + 1), p =< l
  PROVE  GoneOn(p + 1, o, n, l)
BY DEF GoneOn

\* The last place of a sequence one longer, or one before it.
LEMMA LastOrBefore ==
  ASSUME NEW n \in Nat, NEW k \in 1 .. n + 1
  PROVE  k =< n \/ k = n + 1
OBVIOUS

\* One more record
LEMMA ListAdds ==
  ASSUME ListInv, list_pc = "fill", pos =< Len(entries), ~(pos < offset + 1),
         ~(Filled + PaddedLen(entries[pos]) > max_size),
         out' = Append(out, entries[pos]), pos' = pos + 1,
         ends' = Append(ends, Filled + PaddedLen(entries[pos])),
         UNCHANGED <<hostdir, list_pc, entries, max_size, offset, listed, stayed, shifted>>
  PROVE  ListInv'
<1> DEFINE e == entries[pos]
           end == Filled + PaddedLen(e)
           n == Len(out)
<1>1. ListType /\ Packed /\ stayed \subseteq Range(hostdir)
  BY Zenon DEF ListInv
<1>2. /\ out \in Seq(DirEntries) /\ ends \in Seq(Nat) /\ entries \in Seq(DirEntries)
      /\ pos \in Nat /\ pos # 0 /\ offset \in Nat /\ max_size \in Nat
      /\ Len(entries) \in Nat /\ n \in Nat /\ Len(ends) = n /\ Len(hostdir) \in Nat
  BY <1>1, LenIs, Zenon DEF ListType, Packed
<1>3. e \in DirEntries /\ PaddedLen(e) \in Nat
  <2>1. pos \in 1 .. Len(entries)
    BY <1>2
  <2> QED BY <1>2, <2>1, ElementIs, PaddedIs, Zenon
<1>4. Filled = (IF n = 0 THEN 0 ELSE ends[n]) /\ Filled \in Nat
  <2>1. ends = <<>> <=> n = 0
    BY <1>2, EmptyIs, Zenon
  <2>2. n # 0 => n \in 1 .. Len(ends)
    BY <1>2
  <2>3. n # 0 => ends[n] \in Nat
    BY <1>2, <2>2, ElementIs
  <2> QED BY <1>2, <2>1, <2>3, Zenon DEF Filled
<1>5. end \in Nat /\ end =< max_size
  BY <1>2, <1>3, <1>4, SMTT(30)
<1> HIDE DEF e, end
<1>6. /\ out' \in Seq(DirEntries) /\ Len(out') = n + 1
      /\ (\A k \in 1 .. n : out'[k] = out[k]) /\ out'[n + 1] = e
  <2>1. out' = Append(out, e)
    BY Zenon DEF e
  <2> QED BY <1>2, <1>3, <2>1, AppendIs
<1>7. /\ ends' \in Seq(Nat) /\ Len(ends') = n + 1 /\ ends' # <<>>
      /\ (\A k \in 1 .. n : ends'[k] = ends[k]) /\ ends'[n + 1] = end
  <2>1. ends' = Append(ends, end)
    BY Zenon DEF e, end
  <2>2. /\ Append(ends, end) \in Seq(Nat) /\ Append(ends, end) # <<>> /\ Len(Append(ends, end)) = Len(ends) + 1
        /\ (\A k \in 1 .. Len(ends) : Append(ends, end)[k] = ends[k]) /\ Append(ends, end)[Len(ends) + 1] = end
    <3>1. ends \in Seq(Nat) /\ end \in Nat
      BY <1>2, <1>5, Zenon
    <3> QED BY <3>1, OneMore, Zenon
  <2> QED BY <1>2, <2>1, <2>2, SMTT(30)
<1>8. ListType'
  <2>1. pos' \in Nat \ {0}
    BY <1>2
  <2> QED BY <1>1, <1>6, <1>7, <2>1, Zenon DEF ListType
<1>9. Filled' = end
  BY <1>7, Zenon DEF Filled
<1> HIDE DEF n
<1>10. ASSUME NEW k \in 1 .. n + 1
       PROVE  ends'[k] = PaddedLen(out'[k]) + (IF k = 1 THEN 0 ELSE ends'[k - 1])
  <2>1. CASE k =< n
    <3>1. k \in 1 .. n /\ (k # 1 => k - 1 \in 1 .. n)
      BY <1>2, <2>1, SMTT(30)
    <3>2. ends[k] = PaddedLen(out[k]) + (IF k = 1 THEN 0 ELSE ends[k - 1])
      BY <1>1, <3>1, SMTT(30) DEF Packed, n
    <3>3. ends'[k] = ends[k] /\ out'[k] = out[k] /\ (k # 1 => ends'[k - 1] = ends[k - 1])
      BY <1>6, <1>7, <3>1
    <3>4. (IF k = 1 THEN 0 ELSE ends'[k - 1]) = (IF k = 1 THEN 0 ELSE ends[k - 1])
      BY <3>3, Zenon
    <3> QED BY <3>2, <3>3, <3>4, Zenon
  <2>2. CASE k = n + 1
    <3>1. ends'[k] = end /\ out'[k] = e
      BY <1>6, <1>7, <2>2, Zenon
    <3>2. (IF k = 1 THEN 0 ELSE ends'[k - 1]) = Filled
      <4>1. CASE n = 0
        BY <1>4, <2>2, <4>1
      <4>2. CASE n # 0
        <5>1. k - 1 = n /\ k # 1 /\ n \in 1 .. n
          BY <1>2, <2>2, <4>2
        <5>2. ends'[k - 1] = ends[n]
          BY <1>7, <5>1, Zenon
        <5> QED BY <1>4, <4>2, <5>1, <5>2, Zenon
      <4> QED BY <4>1, <4>2, Zenon
    <3>3. end = PaddedLen(e) + Filled
      BY <1>3, <1>4 DEF end
    <3> QED BY <3>1, <3>2, <3>3, Zenon
  <2>3. k =< n \/ k = n + 1
    BY <1>2, LastOrBefore, Zenon
  <2> QED BY <2>1, <2>2, <2>3, Zenon
<1>11. Packed'
  BY <1>1, <1>5, <1>6, <1>7, <1>9, <1>10, Zenon DEF Packed
<1>12. ASSUME ~shifted PROVE InStep'
  <2>1. InStep
    BY <1>12, Zenon DEF ListInv
  <2>2. /\ n = pos - 1 - offset /\ \A k \in 1 .. n : out[k] = hostdir[offset + k]
    <3>1. ~(pos =< offset)
      BY <1>2
    <3> QED BY <2>1, <3>1, Zenon DEF InStep, n
  <2>3. \A k \in 1 .. Len(entries) : entries[k] = hostdir[k]
    BY <2>1, Zenon DEF InStep
  <2>4. ASSUME NEW k \in 1 .. n + 1 PROVE out'[k] = hostdir[offset + k]
    <3>1. CASE k =< n
      <4>1. k \in 1 .. n
        BY <1>2, <3>1
      <4> QED BY <1>6, <2>2, <4>1, Zenon
    <3>2. CASE k = n + 1
      <4>1. offset + k = pos /\ pos \in 1 .. Len(entries)
        BY <1>2, <2>2, <3>2, SMTT(30)
      <4>2. entries[pos] = hostdir[pos]
        BY <2>3, <4>1
      <4> QED BY <1>6, <3>2, <4>1, <4>2, Zenon DEF e
    <3>3. k =< n \/ k = n + 1
      BY <1>2, LastOrBefore, Zenon
    <3> QED BY <3>1, <3>2, <3>3, Zenon
  <2>5. n + 1 = pos' - 1 - offset /\ ~(pos' =< offset) /\ pos' =< Len(entries) + 1
    <3>1. GoneOn(pos + 1, offset, n, Len(entries))
      BY <1>2, <2>2, NextPlace, Zenon
    <3> QED BY <3>1, Zenon DEF GoneOn
  <2>6. IF pos' =< offset' THEN out' = <<>>
        ELSE Len(out') = pos' - 1 - offset' /\ \A k \in 1 .. Len(out') : out'[k] = hostdir'[offset' + k]
    BY <1>6, <2>4, <2>5, Zenon
  <2> QED BY <2>1, <2>5, <2>6, SMTT(30) DEF InStep
<1> QED BY <1>1, <1>8, <1>11, <1>12, Zenon DEF ListInv

\* Looking at one entry keeps it: passed over, added, gone, or the reply is full.
LEMMA ListFills ==
  ASSUME ListInv, FillEntry
  PROVE  ListInv'
<1>1. /\ list_pc = "fill" /\ UNCHANGED <<hostdir, entries, max_size, stayed, shifted>>
      /\ IF pos > Len(entries) THEN Replied
         ELSE IF pos < offset + 1 THEN pos' = pos + 1 /\ UNCHANGED <<list_pc, out, ends, offset, listed>>
         ELSE IF entries[pos] \notin Range(hostdir)
         THEN list_pc' = "EIO" /\ UNCHANGED <<pos, out, ends, offset, listed>>
         ELSE IF Filled + PaddedLen(entries[pos]) > max_size THEN Replied
         ELSE /\ out' = Append(out, entries[pos]) /\ pos' = pos + 1
              /\ ends' = Append(ends, Filled + PaddedLen(entries[pos]))
              /\ UNCHANGED <<list_pc, offset, listed>>
  BY Zenon DEF FillEntry, FillEntryFrom
<1>2. ListType /\ Packed /\ stayed \subseteq Range(hostdir)
  BY <1>1, Zenon DEF ListInv
<1>3. /\ pos \in Nat /\ pos # 0 /\ offset \in Nat /\ Len(entries) \in Nat /\ Len(hostdir) \in Nat
      /\ DOMAIN hostdir = 1 .. Len(hostdir) /\ Len(out) \in Nat
  BY <1>2, LenIs DEF ListType
<1>4. ~shifted => InStep
  BY Zenon DEF ListInv
<1>5. CASE pos > Len(entries)
  <2>1. Replied
    BY <1>1, <1>5, Zenon
  <2>2. ~shifted => pos > offset /\ pos = Len(entries) + 1
    BY <1>1, <1>3, <1>4, <1>5 DEF InStep
  <2> QED BY <1>1, <2>1, <2>2, ListReplied, Zenon
<1>6. CASE ~(pos > Len(entries)) /\ pos < offset + 1
  <2>1. pos' = pos + 1 /\ UNCHANGED <<list_pc, out, ends, offset, listed>>
    BY <1>1, <1>6, Zenon
  <2>2. ListType'
    <3>1. pos' \in Nat \ {0}
      BY <1>3, <2>1
    <3> QED BY <1>1, <1>2, <2>1, <3>1, Zenon DEF ListType
  <2>3. Packed'
    BY <1>1, <1>2, <2>1, Zenon DEF Packed, Filled
  <2>4. ASSUME ~shifted PROVE InStep'
    <3>1. InStep /\ out = <<>> /\ pos =< offset
      BY <1>1, <1>3, <1>4, <1>6, <2>4 DEF InStep
    <3>2. Len(out) = 0
      BY <3>1, Zenon
    <3>3. IF pos' =< offset THEN out = <<>>
          ELSE Len(out) = pos' - 1 - offset /\ \A k \in 1 .. Len(out) : out[k] = hostdir[offset + k]
      BY <1>3, <2>1, <3>1, <3>2
    <3>4. pos' =< Len(entries) + 1
      BY <1>3, <1>6, <2>1
    <3> QED BY <1>1, <2>1, <3>1, <3>3, <3>4, Zenon DEF InStep
  <2> QED BY <1>1, <1>2, <2>1, <2>2, <2>3, <2>4, Zenon DEF ListInv
<1>7. CASE /\ ~(pos > Len(entries)) /\ ~(pos < offset + 1) /\ entries[pos] \notin Range(hostdir)
  <2>1. list_pc' = "EIO" /\ UNCHANGED <<pos, out, ends, offset, listed>>
    BY <1>1, <1>7, Zenon
  <2>2. ListType'
    BY <1>1, <1>2, <2>1, Zenon DEF ListType
  <2>3. shifted
    <3>1. ASSUME ~shifted PROVE FALSE
      <4>1. /\ Len(entries) =< Len(hostdir) /\ \A k \in 1 .. Len(entries) : entries[k] = hostdir[k]
        BY <1>1, <1>4, <3>1, Zenon DEF InStep
      <4>2. pos \in 1 .. Len(entries) /\ pos \in DOMAIN hostdir
        BY <1>3, <1>7, <4>1, SMTT(30)
      <4> QED BY <1>7, <4>1, <4>2 DEF Range
    <3> QED BY <3>1, Zenon
  <2> QED BY <1>1, <1>2, <2>1, <2>2, <2>3, Zenon DEF ListInv
<1>8. CASE /\ ~(pos > Len(entries)) /\ ~(pos < offset + 1) /\ ~(entries[pos] \notin Range(hostdir))
           /\ Filled + PaddedLen(entries[pos]) > max_size
  <2>1. Replied
    BY <1>1, <1>8, Zenon
  <2>2. pos > offset
    BY <1>3, <1>8
  <2>3. out # <<>>
    <3>1. CASE out = <<>>
      <4>1. Len(out) = 0
        BY <3>1, Zenon
      <4>2. ends = <<>>
        BY <1>2, <4>1, EmptyIs, Zenon DEF Packed, ListType
      <4>3. Filled = 0
        BY <4>2, Zenon DEF Filled
      <4>4. pos \in 1 .. Len(entries)
        BY <1>3, <1>8
      <4>5. entries[pos] \in DirEntries /\ max_size \in MaxSizes
        BY <1>2, <4>4, ElementIs, Zenon DEF ListType, Packed
      <4>6. PaddedLen(entries[pos]) \in Nat /\ PaddedLen(entries[pos]) =< max_size /\ max_size \in Nat
        BY <4>5, PaddedIs, Zenon
      <4> QED BY <1>8, <4>3, <4>6
    <3> QED BY <3>1, Zenon
  <2> QED BY <1>1, <2>1, <2>2, <2>3, ListReplied
<1>9. CASE /\ ~(pos > Len(entries)) /\ ~(pos < offset + 1) /\ ~(entries[pos] \notin Range(hostdir))
           /\ ~(Filled + PaddedLen(entries[pos]) > max_size)
  <2>1. /\ out' = Append(out, entries[pos]) /\ pos' = pos + 1
        /\ ends' = Append(ends, Filled + PaddedLen(entries[pos]))
        /\ UNCHANGED <<list_pc, offset, listed>>
    BY <1>1, <1>9, Zenon
  <2>2. pos =< Len(entries)
    BY <1>3, <1>9
  <2> QED BY <1>1, <1>9, <2>1, <2>2, ListAdds
<1> QED BY <1>5, <1>6, <1>7, <1>8, <1>9

\* A change at k lies beyond the first l entries.
LEMMA Beyond ==
  ASSUME NEW k \in Nat, NEW l \in Nat, NEW h \in Nat, k - 1 =< h, ~(k =< l)
  PROVE  l =< h /\ (\A j \in 1 .. l : j \in 1 .. k - 1) /\ \A o \in Nat : o =< l => ~(k =< o)
OBVIOUS

\* A place is a natural number.
LEMMA PlaceIs ==
  ASSUME NEW n \in Nat, NEW k \in 1 .. n + 1
  PROVE  k \in Nat
OBVIOUS

\* What was put in the reply comes from before k.
LEMMA InFront ==
  ASSUME NEW k \in Nat, NEW l \in Nat, NEW o \in Nat, NEW p \in Nat, NEW m \in Nat,
         ~(k =< l), p =< l + 1, ~(p =< o), m = p - 1 - o, NEW j \in 1 .. m
  PROVE  o + j \in 1 .. k - 1
OBVIOUS

\* A change at k leaves what comes before it where it was.
LEMMA ListChanged ==
  ASSUME ListInv, NEW k \in 1 .. Len(hostdir) + 1, Changed(k),
         hostdir' \in Seq(DirEntries), k - 1 =< Len(hostdir'),
         \A j \in 1 .. k - 1 : hostdir'[j] = hostdir[j],
         stayed' \subseteq stayed, stayed' \subseteq Range(hostdir')
  PROVE  ListInv'
<1>1. /\ shifted' = (shifted \/ k =< (IF list_pc = "fill" THEN Len(entries) ELSE offset))
      /\ UNCHANGED <<list_pc, entries, max_size, pos, out, ends, offset, listed>> /\ ListType
  BY Zenon  DEF Changed, ListInv
<1>2. ListType'
  BY <1>1, Zenon DEF ListType
<1>3. list_pc = "fill" => Packed'
  BY <1>1 DEF ListInv, Packed, Filled
<1>4. ASSUME ~shifted' PROVE InStep'
  <2>1. ~shifted /\ ~(k =< (IF list_pc = "fill" THEN Len(entries) ELSE offset))
    BY <1>1, <1>4, Zenon
  <2>2. InStep
    BY <2>1, Zenon DEF ListInv
  <2>3. /\ k \in Nat /\ pos \in Nat /\ offset \in Nat /\ Len(entries) \in Nat /\ Len(hostdir') \in Nat
        /\ Len(out) \in Nat /\ Len(hostdir) \in Nat
    <3>1. Len(entries) \in Nat
      BY <1>1, LenIs, Zenon DEF ListType
    <3>2. Len(out) \in Nat
      BY <1>1, LenIs, Zenon DEF ListType
    <3>3. Len(hostdir) \in Nat
      BY <1>1, LenIs, Zenon DEF ListType
    <3>4. Len(hostdir') \in Nat
      BY LenIs, Zenon
    <3>5. pos \in Nat /\ offset \in Nat
      BY <1>1, Zenon DEF ListType
    <3>6. k \in Nat
      BY <3>3, PlaceIs, Zenon
    <3> QED BY <3>1, <3>2, <3>3, <3>4, <3>5, <3>6, Zenon
  <2>4. ~(k =< offset) /\ (list_pc = "fill" => ~(k =< Len(entries)))
    <3>1. CASE list_pc = "fill"
      <4>1. ~(k =< Len(entries)) /\ offset =< Len(entries)
        BY <2>1, <2>2, <3>1, Zenon DEF InStep
      <4> QED BY <2>3, <4>1, Beyond, Zenon
    <3>2. CASE list_pc # "fill"
      BY <2>1, <3>2, Zenon
    <3> QED BY <3>1, <3>2, Zenon
  <2>5. offset =< Len(hostdir') /\ (list_pc = "fill" => Len(entries) =< Len(hostdir'))
    BY <2>3, <2>4, Beyond, Zenon
  <2>6. \A j \in 1 .. offset : listed[j] = hostdir'[j]
    <3>1. \A j \in 1 .. offset : j \in 1 .. k - 1
      BY <2>3, <2>4, Beyond, Zenon
    <3> QED BY <2>2, <3>1, Zenon DEF InStep
  <2>7. ASSUME list_pc = "fill"
        PROVE  /\ \A j \in 1 .. Len(entries) : entries[j] = hostdir'[j]
               /\ IF pos =< offset THEN out = <<>>
                  ELSE /\ Len(out) = pos - 1 - offset
                       /\ \A j \in 1 .. Len(out) : out[j] = hostdir'[offset + j]
               /\ offset =< Len(entries) /\ pos =< Len(entries) + 1 /\ stayed' \subseteq Range(entries)
    <3>1. /\ \A j \in 1 .. Len(entries) : entries[j] = hostdir[j]
          /\ IF pos =< offset THEN out = <<>>
             ELSE /\ Len(out) = pos - 1 - offset
                  /\ \A j \in 1 .. Len(out) : out[j] = hostdir[offset + j]
          /\ offset =< Len(entries) /\ pos =< Len(entries) + 1 /\ stayed \subseteq Range(entries)
      BY <2>2, <2>7, Zenon DEF InStep
    <3>2. \A j \in 1 .. Len(entries) : j \in 1 .. k - 1
      BY <2>3, <2>4, <2>7, Beyond, Zenon
    <3>3. ASSUME ~(pos =< offset), NEW j \in 1 .. Len(out) PROVE offset + j \in 1 .. k - 1
      <4>1. Len(out) = pos - 1 - offset /\ pos =< Len(entries) + 1 /\ ~(k =< Len(entries))
        BY <2>4, <2>7, <3>1, <3>3, Zenon
      <4> QED BY <2>3, <3>3, <4>1, InFront, Zenon
    <3>4. ASSUME ~(pos =< offset), NEW j \in 1 .. Len(out) PROVE out[j] = hostdir'[offset + j]
      BY <3>1, <3>3, <3>4, Zenon
    <3> QED BY <3>1, <3>2, <3>4, SMTT(30)
  <2>8. list_pc = "done" => stayed' \subseteq Range(listed)
    BY <2>2, Zenon DEF InStep
  <2> QED BY <1>1, <2>2, <2>5, <2>6, <2>7, <2>8, Zenon DEF InStep
<1> QED BY <1>1, <1>2, <1>3, <1>4, Zenon DEF ListInv

\* A removal in the folder keeps it.
LEMMA ListRemoves ==
  ASSUME ListInv, NEW k \in 1 .. Len(hostdir) + 1, HostRemoves(k)
  PROVE  ListInv'
<1>1. /\ k \in DOMAIN hostdir /\ Changed(k) /\ hostdir' = Narrowed(hostdir, k)
      /\ stayed' = stayed \ {hostdir[k]} /\ hostdir \in Seq(DirEntries) /\ stayed \subseteq Range(hostdir)
  BY Zenon DEF HostRemoves, Narrowed, ListInv, ListType
<1> DEFINE n == Len(hostdir)
<1>2. n \in Nat /\ k \in 1 .. n /\ DOMAIN hostdir = 1 .. n
  BY <1>1, LenIs, Zenon
<1>3. /\ hostdir' \in Seq(DirEntries) /\ Len(hostdir') = n - 1
      /\ \A j \in 1 .. n - 1 : hostdir'[j] = IF j < k THEN hostdir[j] ELSE hostdir[j + 1]
  BY <1>1, <1>2, Removed, Zenon
<1>4. DOMAIN hostdir' = 1 .. n - 1
  BY <1>3, LenIs, Zenon
<1> HIDE DEF n
<1>5. k - 1 =< Len(hostdir') /\ \A j \in 1 .. k - 1 : hostdir'[j] = hostdir[j]
  <2>1. \A j \in 1 .. k - 1 : j \in 1 .. n - 1 /\ j < k
    BY <1>2
  <2> QED BY <1>2, <1>3, <2>1
<1>6. ASSUME NEW e \in stayed' PROVE e \in Range(hostdir')
  <2>1. PICK j \in 1 .. n : hostdir[j] = e
    BY <1>1, <1>2, Zenon DEF Range
  <2>2. j # k
    BY <1>1, <2>1
  <2>3. CASE j < k
    <3>1. j \in 1 .. n - 1
      BY <1>2, <2>3
    <3> QED BY <1>3, <1>4, <2>1, <2>3, <3>1, Zenon DEF Range
  <2>4. CASE ~(j < k)
    <3>1. PICK i \in 1 .. n - 1 : i + 1 = j /\ ~(i < k)
      <4>1. j - 1 \in 1 .. n - 1 /\ j - 1 + 1 = j /\ ~(j - 1 < k)
        BY <1>2, <2>2, <2>4, SMTT(30)
      <4> QED BY <4>1
    <3>2. hostdir'[i] = e
      BY <1>3, <2>1, <3>1
    <3> QED BY <1>4, <3>1, <3>2 DEF Range
  <2> QED BY <2>3, <2>4, Zenon
<1>7. stayed' \subseteq stayed /\ stayed' \subseteq Range(hostdir')
  BY <1>1, <1>6, Zenon
<1> QED BY <1>1, <1>3, <1>5, <1>7, ListChanged, Zenon

\* An addition to the folder keeps it.
LEMMA ListInserts ==
  ASSUME ListInv, NEW k \in 1 .. Len(hostdir) + 1, NEW e \in DirEntries, HostAdds(k, e)
  PROVE  ListInv'
<1>1. /\ Changed(k) /\ hostdir' = Widened(hostdir, k, e) /\ stayed' = stayed
      /\ hostdir \in Seq(DirEntries) /\ stayed \subseteq Range(hostdir)
  BY Zenon DEF HostAdds, Widened, ListInv, ListType
<1> DEFINE n == Len(hostdir)
<1>2. n \in Nat /\ k \in 1 .. n + 1 /\ DOMAIN hostdir = 1 .. n
  BY <1>1, LenIs, Zenon
<1>3. /\ hostdir' \in Seq(DirEntries) /\ Len(hostdir') = n + 1
      /\ \A j \in 1 .. n + 1 :
           hostdir'[j] = IF j < k THEN hostdir[j] ELSE IF j = k THEN e ELSE hostdir[j - 1]
  <2>1. hostdir' \in Seq(DirEntries) /\ GrownAt(hostdir', hostdir, k, e)
    BY <1>1, Inserted
  <2> QED BY <2>1, Zenon DEF GrownAt
<1>4. DOMAIN hostdir' = 1 .. n + 1
  BY <1>3, LenIs, Zenon
<1> HIDE DEF n
<1>5. k - 1 =< Len(hostdir') /\ \A j \in 1 .. k - 1 : hostdir'[j] = hostdir[j]
  <2>1. \A j \in 1 .. k - 1 : j \in 1 .. n + 1 /\ j < k
    BY <1>2
  <2>2. \A j \in 1 .. k - 1 : hostdir'[j] = hostdir[j]
    BY <1>3, <2>1, Zenon
  <2>3. k - 1 =< n + 1
    BY <1>2
  <2> QED BY <1>3, <2>2, <2>3, Zenon
<1>6. ASSUME NEW x \in stayed PROVE x \in Range(hostdir')
  <2>1. PICK j \in 1 .. n : hostdir[j] = x
    <3>1. x \in Range(hostdir)
      BY <1>1, Zenon
    <3> QED BY <1>2, <3>1, Zenon DEF Range
  <2>2. CASE j < k
    <3>1. j \in 1 .. n + 1
      BY <1>2
    <3> QED BY <1>3, <1>4, <2>1, <2>2, <3>1 DEF Range
  <2>3. CASE ~(j < k)
    <3>1. PICK i \in 1 .. n + 1 : i - 1 = j /\ ~(i < k) /\ i # k
      <4>1. j + 1 \in 1 .. n + 1 /\ j + 1 - 1 = j /\ ~(j + 1 < k) /\ j + 1 # k
        BY <1>2, <2>3
      <4> QED BY <4>1
    <3>2. hostdir'[i] = x
      BY <1>3, <2>1, <3>1, Zenon
    <3> QED BY <1>4, <3>1, <3>2 DEF Range
  <2> QED BY <2>2, <2>3, Zenon
<1>7. stayed' \subseteq stayed /\ stayed' \subseteq Range(hostdir')
  BY <1>1, <1>6, Zenon
<1> QED BY <1>1, <1>3, <1>5, <1>7, ListChanged

\* Every step of a listing, and every change of the folder, keeps the invariant.
LEMMA ListSteps == ListInv /\ [ListNext]_listVars => ListInv'
<1> SUFFICES ASSUME ListInv, [ListNext]_listVars PROVE ListInv'
  BY Zenon
<1>1. CASE \E m \in MaxSizes : CollectEntries(m)
  BY <1>1, ListCollects, Zenon
<1>2. CASE FillEntry
  BY <1>2, ListFills, Zenon
<1>3. CASE \E k \in 1 .. Len(hostdir) + 1 : HostRemoves(k) \/ \E e \in DirEntries : HostAdds(k, e)
  BY <1>3, ListRemoves, ListInserts, Zenon
<1>4. CASE UNCHANGED listVars
  <2>1. UNCHANGED <<hostdir, list_pc, entries, max_size, pos, out, ends, offset, listed, stayed, shifted>>
    BY <1>4 DEF listVars
  <2>2. ListType' /\ (Packed' <=> Packed) /\ (InStep' <=> InStep)
    BY <2>1, Zenon DEF ListInv, ListType, Packed, Filled, InStep
  <2> QED BY <2>1, <2>2, Zenon DEF ListInv
<1> QED BY <1>1, <1>2, <1>3, <1>4 DEF ListNext, Listed

\* Unless the host changes what was already read, a listing in several replies names
\* every entry that stayed, in order and once, and every reply fits the buffer it is
\* for (read_dir): for directories and buffers of every size, however long the host
\* goes on changing the directory.
THEOREM ListingAlwaysExact == ListSpec => []ListingExact
<1>1. ListInv => ListingExact
  <2> SUFFICES ASSUME ListInv PROVE ListingExact
    BY Zenon
  <2>1. /\ hostdir \in Seq(DirEntries) /\ listed \in Seq(DirEntries) /\ offset \in Nat
        /\ Len(hostdir) \in Nat /\ DOMAIN out = 1 .. Len(out)
    BY LenIs, Zenon DEF ListInv, ListType
  <2>2. ASSUME ~shifted PROVE listed = SubSeq(hostdir, 1, offset)
    <3>1. offset =< Len(hostdir) /\ Len(listed) = offset /\ \A k \in 1 .. offset : listed[k] = hostdir[k]
      BY <2>2, Zenon DEF ListInv, InStep
    <3>2. \A k \in 1 .. offset : hostdir[k] \in DirEntries
      <4>1. \A k \in 1 .. offset : k \in 1 .. Len(hostdir)
        BY <2>1, <3>1, SMTT(30)
      <4> QED BY <2>1, <4>1, ElementIs, Zenon
    <3> DEFINE s == SubSeq(hostdir, 1, offset)
    <3>3. /\ s \in Seq(DirEntries) /\ Len(s) = IF 1 =< offset THEN offset - 1 + 1 ELSE 0
          /\ \A k \in 1 .. offset - 1 + 1 : s[k] = hostdir[1 + k - 1]
      BY <2>1, <3>2, SubSeqIs
    <3> HIDE DEF s
    <3>4. Len(s) = offset
      BY <2>1, <3>3
    <3>5. \A k \in 1 .. offset : s[k] = hostdir[k]
      BY <2>1, <3>3
    <3>6. listed = s
      BY <2>1, <3>1, <3>3, <3>4, <3>5, SeqsEqual, Zenon
    <3> QED BY <3>6, Zenon DEF s
  <2> QED BY <2>1, <2>2, Zenon DEF ListInv, ListingExact, Packed, InStep
<1> QED BY <1>1, ListStart, ListSteps, PTL DEF ListSpec

=============================================================================
