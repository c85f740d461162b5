---------------------------- MODULE SharedFolder ----------------------------
(***************************************************************************)
(* The FUSE server behind virtio-fs (src/src/platform/shared_folder, with  *)
(* the two queues of src/src/devices/virtio/devices/fs.rs): node ids that  *)
(* stand for host paths, file handles that stand for open host files, and  *)
(* a guest kernel that looks names up, makes, renames and removes them and *)
(* forgets ids through the other queue.                                    *)
(*                                                                         *)
(* The host's folder is a tree of objects of bounded depth.  Symbolic      *)
(* links, contents and attributes are left out.                            *)
(***************************************************************************)
EXTENDS Naturals, Sequences, FiniteSets

CONSTANTS
  Names,        \* names of directory entries
  MaxObjects,   \* bound: objects ever made in the folder
  MaxIds,       \* bound: node ids ever handed out
  MaxHandles,   \* bound: file handles ever handed out
  MaxMounts     \* bound: times the guest mounts the folder

FUSE_ROOT_ID == 1
Ids == 1 .. MaxIds
Handles == 1 .. MaxHandles
Objects == 1 .. MaxObjects   \* 1 is the folder itself
Paths == {<<>>} \cup [1 .. 1 -> Names] \cup [1 .. 2 -> Names]
NoPath == <<"NoPath">>

ASSUME SharedFolderAssumption ==
  /\ MaxObjects \in Nat \ {0} /\ MaxIds \in Nat \ {0} /\ MaxHandles \in Nat
  /\ "NoPath" \notin Names

VARIABLES
  tree,                    \* host: path -> object, 0 for none
  dirs,                    \* host: the objects that are directories
  made,                    \* host: objects made so far
  inodes, next_inode,      \* id -> path or NoPath
  open_files, next_fh,     \* handle -> object, 0 for none
  holds,                   \* guest: ids it has looked up and not forgotten
  forgets,                 \* guest: ids in forget requests on their way
  files,                   \* guest: handles it has open
  known,                   \* guest: id it holds -> object it stands for
  mounts,                  \* guest: times it has mounted the folder
  moved,                   \* history: objects a rename has moved
  orphans                  \* history: ids no guest will forget any more

hostVars == <<tree, dirs, made>>
serverVars == <<inodes, next_inode, open_files, next_fh>>
guestVars == <<holds, forgets, files, known, mounts>>
folderVars == <<hostVars, serverVars, guestVars, moved, orphans>>

FolderInit ==
  /\ tree = [p \in Paths |-> IF p = <<>> THEN 1 ELSE 0] /\ dirs = {1} /\ made = 1
  /\ inodes = [n \in Ids |-> IF n = FUSE_ROOT_ID THEN <<>> ELSE NoPath]
  /\ next_inode = FUSE_ROOT_ID + 1
  /\ open_files = [h \in Handles |-> 0] /\ next_fh = 1
  /\ holds = {} /\ forgets = {} /\ files = {} /\ mounts = 1
  /\ known = [n \in Ids |-> IF n = FUSE_ROOT_ID THEN 1 ELSE 0]
  /\ moved = {} /\ orphans = {}

-----------------------------------------------------------------------------
(* Paths *)

At(p) == IF p \in Paths THEN tree[p] ELSE 0
IsDir(p) == At(p) \in dirs
StartsWith(q, p) == Len(p) =< Len(q) /\ SubSeq(q, 1, Len(p)) = p
Below(p) == {q \in Paths : StartsWith(q, p)}
Empty(p) == \A q \in Below(p) \ {p} : tree[q] = 0
Child(n, name) == Append(inodes[n], name)

\* The object an id stands for: get_attr, set_attr, open, open_dir, read_dir
Resolve(n) == At(inodes[n])

\* The guest may name any id it holds, and the root.
MayUse(n) == n \in holds \cup {FUSE_ROOT_ID}

\* std::fs fails on a path whose parent is not a directory; the bound on depth
\* cuts deeper ones off.
MayMake(n, name) ==
  /\ MayUse(n) /\ inodes[n] # NoPath /\ IsDir(inodes[n])
  /\ Child(n, name) \in Paths

NewIdByCount(p, o) ==
  LET id == Cardinality({n \in Ids : inodes[n] # NoPath}) + 1
  IN  /\ next_inode \in Ids
      /\ inodes' = [inodes EXCEPT ![id] = p]
      /\ next_inode' = next_inode + 1
      /\ known' = [known EXCEPT ![next_inode] = o]
\* A new id for path p, known to the guest to be object o.
NewId(p, o) ==
  /\ next_inode \in Ids
  /\ inodes' = [inodes EXCEPT ![next_inode] = p]
  /\ next_inode' = next_inode + 1
  /\ known' = [known EXCEPT ![next_inode] = o]

Told == holds' = holds \cup {next_inode}

-----------------------------------------------------------------------------
\* lookup: a new id each time, also for a path that has one.
LookupReusesId(n, name) ==
  /\ MayMake(n, name) /\ At(Child(n, name)) # 0
  /\ \/ \E i \in Ids : /\ inodes[i] = Child(n, name)
                       /\ holds' = holds \cup {i}
                       /\ known' = [known EXCEPT ![i] = At(Child(n, name))]
                       /\ UNCHANGED <<inodes, next_inode>>
     \/ /\ \A i \in Ids : inodes[i] # Child(n, name)
        /\ NewId(Child(n, name), At(Child(n, name))) /\ Told
  /\ UNCHANGED <<hostVars, open_files, next_fh, forgets, files, mounts, moved, orphans>>
Lookup(n, name) ==
  /\ MayMake(n, name) /\ At(Child(n, name)) # 0
  /\ NewId(Child(n, name), At(Child(n, name))) /\ Told
  /\ UNCHANGED <<hostVars, open_files, next_fh, forgets, files, mounts, moved, orphans>>

Opened(o) ==
  /\ next_fh \in Handles
  /\ open_files' = [open_files EXCEPT ![next_fh] = o]
  /\ next_fh' = next_fh + 1
  /\ files' = files \cup {next_fh}

\* What File::create, OpenOptions or create_dir leave at path p: a new object,
\* or, when a file is wanted, the file that is there.
Placed(p, o, dir) ==
  \/ /\ At(p) = 0 /\ o = made + 1 /\ o \in Objects
     /\ tree' = [tree EXCEPT ![p] = o] /\ made' = o
     /\ dirs' = IF dir THEN dirs \cup {o} ELSE dirs
  \/ /\ ~dir /\ At(p) \notin dirs \cup {0} /\ o = At(p)
     /\ UNCHANGED hostVars

\* make_node, make_directory, and create, which also opens the file.  When the
\* metadata of what was placed cannot be read they report an error, but the id
\* stays in the table.
Make(n, name, dir, opens, good) ==
  /\ MayMake(n, name)
  /\ \E o \in Objects :
       /\ Placed(Child(n, name), o, dir)
       /\ NewId(Child(n, name), o)
       /\ IF good /\ opens THEN Opened(o) ELSE UNCHANGED <<open_files, next_fh, files>>
  /\ IF good THEN Told /\ UNCHANGED orphans
             ELSE orphans' = orphans \cup {next_inode} /\ UNCHANGED holds
  /\ UNCHANGED <<forgets, mounts, moved>>

MakeNode(n, name, good) == Make(n, name, FALSE, FALSE, good)
MakeDirectory(n, name, good) == Make(n, name, TRUE, FALSE, good)
Create(n, name, good) == Make(n, name, FALSE, TRUE, good)

Open(n) ==
  /\ MayUse(n) /\ Resolve(n) \notin dirs \cup {0}
  /\ Opened(Resolve(n))
  /\ UNCHANGED <<hostVars, inodes, next_inode, holds, forgets, known, mounts, moved, orphans>>

\* open_dir counts a handle that stands for nothing; release_dir leaves it so.
OpenDir(n) ==
  /\ MayUse(n) /\ Resolve(n) \in dirs
  /\ next_fh \in Handles /\ next_fh' = next_fh + 1
  /\ UNCHANGED <<hostVars, inodes, next_inode, open_files, guestVars, moved, orphans>>

Release(h) ==
  /\ h \in files
  /\ open_files' = [open_files EXCEPT ![h] = 0] /\ files' = files \ {h}
  /\ UNCHANGED <<hostVars, inodes, next_inode, next_fh, holds, forgets, known, mounts,
                 moved, orphans>>

\* unlink removes what is no directory, rmdir an empty directory.
RemoveEntry(n, name) ==
  LET p == Child(n, name)
  IN  /\ MayMake(n, name) /\ At(p) # 0
      /\ IsDir(p) => Empty(p)
      /\ tree' = [tree EXCEPT ![p] = 0]
      /\ UNCHANGED <<dirs, made, serverVars, guestVars, moved, orphans>>

\* rename moves a whole subtree, over nothing, a file or an empty directory of
\* the same kind.  The table of ids is left as it is.
Rename(n, name, newdir, newname) ==
  LET old == Child(n, name)
      new == Child(newdir, newname)
      from(q) == old \o SubSeq(q, Len(new) + 1, Len(q))
  IN  /\ MayMake(n, name) /\ MayMake(newdir, newname) /\ At(old) # 0
      /\ ~StartsWith(new, old) /\ ~StartsWith(old, new)
      /\ At(new) # 0 => ((IsDir(old) <=> IsDir(new)) /\ Empty(new))
      /\ \A q \in Below(old) : tree[q] # 0 => Len(q) - Len(old) + Len(new) =< 2
      /\ tree' = [q \in Paths |-> IF q \in Below(new) THEN At(from(q))
                                  ELSE IF q \in Below(old) THEN 0 ELSE tree[q]]
      /\ moved' = moved \cup {tree[q] : q \in Below(old)}
      /\ UNCHANGED <<dirs, made, serverVars, guestVars, orphans>>

-----------------------------------------------------------------------------
\* The guest drops an id it looked up; the request travels on the other queue.
SendForget(n) ==
  /\ n \in holds
  /\ holds' = holds \ {n} /\ forgets' = forgets \cup {n}
  /\ known' = [known EXCEPT ![n] = 0]
  /\ UNCHANGED <<hostVars, serverVars, files, mounts, moved, orphans>>

Forgotten(S) ==
  /\ inodes' = [n \in Ids |-> IF n \in S THEN NoPath ELSE inodes[n]]
  /\ forgets' = forgets \ S
  /\ UNCHANGED <<hostVars, next_inode, open_files, next_fh, holds, files, known, mounts,
                 moved, orphans>>

Forget(n) == n \in forgets /\ Forgotten({n})

\* Several at once, sent on the request queue
BatchForget(S) == Cardinality(S) > 1 /\ Forgotten(S)

\* The guest mounts again, after unmounting (destroy does nothing) or after a
\* restart (the device has no reset): what it held it will not forget.
Remount ==
  /\ mounts < MaxMounts
  /\ mounts' = mounts + 1
  /\ orphans' = orphans \cup holds \cup forgets
  /\ holds' = {} /\ forgets' = {} /\ files' = {}
  /\ known' = [n \in Ids |-> IF n = FUSE_ROOT_ID THEN 1 ELSE 0]
  /\ UNCHANGED <<hostVars, serverVars, moved>>

FolderNext ==
  \/ \E n \in Ids, name \in Names :
       \/ Lookup(n, name) \/ RemoveEntry(n, name)
       \/ \E good \in BOOLEAN : \/ MakeNode(n, name, good)
                               \/ MakeDirectory(n, name, good)
                               \/ Create(n, name, good)
       \/ \E newdir \in Ids, newname \in Names : Rename(n, name, newdir, newname)
  \/ \E n \in Ids : Open(n) \/ OpenDir(n) \/ SendForget(n) \/ Forget(n)
  \/ \E h \in Handles : Release(h)
  \/ \E S \in SUBSET forgets : BatchForget(S)
  \/ Remount

FolderSpec == FolderInit /\ [][FolderNext]_folderVars

-----------------------------------------------------------------------------
\* The table holds the root, the ids the guest may still use and those whose
\* forgetting is on its way, besides the ones no guest will ever forget.  So a
\* forget that is overtaken by a lookup of the same name takes away no id that
\* is in use, and ids of an earlier mount never become ids of a later one.  An open
\* handle of the guest is an open host file.
TablesMatchGuest ==
  /\ {n \in Ids : inodes[n] # NoPath} = {FUSE_ROOT_ID} \cup holds \cup forgets \cup orphans
  /\ holds \cap (forgets \cup orphans) = {}
  /\ \A h \in files : open_files[h] # 0

\* Until it is renamed (itself or a directory above it) or removed, an object is
\* what all its ids resolve to, although names are removed and made again.
UnmovedResolve ==
  \A n \in holds \cup {FUSE_ROOT_ID} :
    (known[n] \notin moved /\ \E p \in Paths : tree[p] = known[n]) => Resolve(n) = known[n]
=============================================================================
