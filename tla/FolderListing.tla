--------------------------- MODULE FolderListing ---------------------------
(***************************************************************************)
(* How a guest lists a directory of the shared folder: read_dir of         *)
(* src/src/platform/shared_folder/dir.rs, asked again and again with the   *)
(* offset of the last entry received until a reply is empty.  The server   *)
(* keeps no position: every request reads the host's directory anew and    *)
(* counts, while the host adds and removes entries.                        *)
(***************************************************************************)
EXTENDS Naturals, Sequences, Functions

CONSTANTS
  NameLens,     \* lengths of the entries' names; an entry is its place here
  MaxSizes,     \* sizes of the guest's buffer
  MaxChanges    \* bound on what the host adds and removes

DirEntries == DOMAIN NameLens

\* 24 bytes and the name, padded to eight
PaddedLen(e) == ((24 + NameLens[e] + 7) \div 8) * 8

\* A guest's buffer has a page or more, so any one record fits.
ASSUME ListingAssumption ==
  /\ NameLens \in Seq(Nat) /\ MaxSizes \subseteq Nat /\ MaxChanges \in Nat
  /\ \A e \in DirEntries, m \in MaxSizes : PaddedLen(e) =< m

VARIABLES
  hostdir,                  \* the host's directory, in the order it reads in
  list_pc, entries, max_size, pos,        \* of read_dir
  out, ends,                \* records in the reply, and where each of them ends
  offset, listed,           \* guest: where to go on, all it has received
  changes, stayed, shifted  \* history: host's changes, entries there all along,
                            \* whether a change was in front of what was read

listVars == <<hostdir, list_pc, entries, max_size, pos, out, ends, offset, listed,
              changes, stayed, shifted>>

ListInit ==
  /\ \E n \in 0 .. Len(NameLens) : hostdir = [k \in 1 .. n |-> k]
  /\ list_pc = "ask" /\ entries = <<>> /\ max_size = 0 /\ pos = 1 /\ out = <<>> /\ ends = <<>>
  /\ offset = 0 /\ listed = <<>>
  /\ changes = 0 /\ stayed = Range(hostdir) /\ shifted = FALSE

-----------------------------------------------------------------------------
\* The directory is collected as a whole ...
CollectEntries(m) ==
  /\ list_pc = "ask" /\ list_pc' = "fill"
  /\ entries' = hostdir /\ max_size' = m /\ pos' = 1 /\ out' = <<>> /\ ends' = <<>>
  /\ UNCHANGED <<hostdir, offset, listed, changes, stayed, shifted>>

\* out.len()
Filled == IF ends = <<>> THEN 0 ELSE ends[Len(ends)]

\* The guest takes the reply; an empty one ends its listing.
Replied ==
  /\ list_pc' = IF out = <<>> THEN "done" ELSE "ask"
  /\ listed' = listed \o out
  /\ offset' = IF out = <<>> THEN offset ELSE pos - 1
  /\ UNCHANGED <<pos, out, ends>>

FillEntryFrom(first) ==
  /\ list_pc = "fill"
  /\ IF pos > Len(entries) THEN Replied
     ELSE IF pos < first THEN pos' = pos + 1 /\ UNCHANGED <<list_pc, out, ends, offset, listed>>
     ELSE IF entries[pos] \notin Range(hostdir)
     THEN list_pc' = "EIO" /\ UNCHANGED <<pos, out, ends, offset, listed>>
     ELSE IF Filled + PaddedLen(entries[pos]) > max_size THEN Replied
     ELSE /\ out' = Append(out, entries[pos]) /\ pos' = pos + 1
          /\ ends' = Append(ends, Filled + PaddedLen(entries[pos]))
          /\ UNCHANGED <<list_pc, offset, listed>>
  /\ UNCHANGED <<hostdir, entries, max_size, changes, stayed, shifted>>

FillEntryAgain == FillEntryFrom(offset)
\* ... then gone through entry by entry: passed over up to the offset, then its
\* metadata read from the host, which fails for one that is gone, then put into
\* the reply as long as it fits.
FillEntry == FillEntryFrom(offset + 1)

-----------------------------------------------------------------------------
\* A change at place k, in front of what the present request has collected or
\* of what earlier ones have passed
Changed(k) ==
  /\ changes < MaxChanges /\ changes' = changes + 1
  /\ shifted' = (shifted \/ k =< (IF list_pc = "fill" THEN Len(entries) ELSE offset))
  /\ UNCHANGED <<list_pc, entries, max_size, pos, out, ends, offset, listed>>

HostRemoves(k) ==
  /\ k \in DOMAIN hostdir /\ Changed(k)
  /\ hostdir' = SubSeq(hostdir, 1, k - 1) \o SubSeq(hostdir, k + 1, Len(hostdir))
  /\ stayed' = stayed \ {hostdir[k]}

HostAdds(k, e) ==
  /\ e \notin Range(hostdir) /\ Changed(k)
  /\ hostdir' = SubSeq(hostdir, 1, k - 1) \o <<e>> \o SubSeq(hostdir, k, Len(hostdir))
  /\ UNCHANGED stayed

\* closedir; an open directory may be listed again
Listed == list_pc \in {"done", "EIO"} /\ UNCHANGED listVars

ListNext ==
  \/ \E m \in MaxSizes : CollectEntries(m)
  \/ FillEntry \/ Listed
  \/ \E k \in 1 .. Len(hostdir) + 1 : HostRemoves(k) \/ \E e \in DirEntries : HostAdds(k, e)

ListSpec == ListInit /\ [][ListNext]_listVars

-----------------------------------------------------------------------------
\* Unless the host changed its directory in front of what was read, a listing in
\* as many requests as it takes comes out as if read at once: no entry twice,
\* in the directory's order, every entry that was there all along and none that
\* never was, and no error.  The records of a reply follow one another without a gap
\* and fit the guest's buffer in any case.
ListingExact ==
  /\ list_pc = "fill" =>
       /\ Filled =< max_size
       /\ \A k \in DOMAIN out :
            ends[k] = PaddedLen(out[k]) + (IF k = 1 THEN 0 ELSE ends[k - 1])
  /\ ~shifted =>
       /\ listed = SubSeq(hostdir, 1, offset)
       /\ list_pc # "EIO"
       /\ list_pc = "done" => stayed \subseteq Range(listed)
=============================================================================
