----------------------------- MODULE MCVirtioFs -----------------------------
(* The shared folder and the device that carries its requests.  The device  *)
(* hands the folder a request as a whole and gets a reply as a whole, so a   *)
(* behaviour follows either the requests of the guest, whatever chains they  *)
(* came in, or one call of the device's tick, whatever the requests say.     *)
(* Listing a directory changes no table, so it is a part of its own.         *)
EXTENDS SharedFolder, FsDevice, FolderListing, TLC

CONSTANTS a, b
VARIABLE part

virtioFsVars == <<part, folderVars, fsVars, listVars>>

\* Records of four words of eight bytes, of five, four and six
MCNameLens == <<1, 9, 8, 20>>

\* Up to two readable and two writable descriptors of two cells or none.
Descriptors(n, write) == [1 .. n -> [len : {0, 2}, write : {write}]]
MCChains == UNION {{r \o w : r \in Descriptors(n, FALSE), w \in Descriptors(m, TRUE)} :
                     n \in 1 .. 2, m \in 0 .. 2}

\* Names may be exchanged for one another.
NameSymmetry == Permutations(Names)

VirtioFsInit ==
  /\ part \in {"folder", "device", "listing"}
  /\ part = "device" \/ (queue_sel = 1 /\ avail = <<>>)
  /\ FolderInit /\ FsInit
  /\ part = "listing" \/ hostdir = <<>>
  /\ ListInit

VirtioFsNext ==
  \/ part = "folder" /\ FolderNext /\ UNCHANGED <<part, fsVars, listVars>>
  \/ part = "device" /\ FsNext /\ UNCHANGED <<part, folderVars, listVars>>
  \/ part = "listing" /\ ListNext /\ UNCHANGED <<part, folderVars, fsVars>>

VirtioFsSpec == VirtioFsInit /\ [][VirtioFsNext]_virtioFsVars

=============================================================================
