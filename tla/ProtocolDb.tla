----------------------------- MODULE ProtocolDb -----------------------------
(***************************************************************************)
(* The firmware's table of protocols (src/guest/firmware/efi/uefi.c): what *)
(* efi_init registers, what the loader installs, and the three ways to     *)
(* look something up, HandleProtocol, LocateProtocol and LocateHandle,     *)
(* each with a loop of its own over gProtocolDB.                           *)
(***************************************************************************)
EXTENDS Integers, Sequences, FiniteSetsExt, Functions

CONSTANTS
  Guids,            \* protocols the loader installs or asks for
  Ifaces,           \* interfaces of the loader's own
  MAX_PROTOCOLS,
  MaxStubs          \* bound: tables of stubs the heap has room for

Image == "image"
Disk == "disk"
NewHandle == "4"                    \* what a NULL handle becomes
Handles == {Image, Disk, NewHandle}
LoadedImage == "LoadedImage"
gLoadedImageInstance == "gLoadedImageInstance"
Stubs == "stubs"
NULL == "NULL"

ASSUME ProtocolDbAssumption ==
  /\ MAX_PROTOCOLS \in Nat /\ MAX_PROTOCOLS >= 4 /\ MaxStubs \in Nat
  /\ LoadedImage \in Guids
  /\ Ifaces \cap {gLoadedImageInstance, Stubs, NULL} = {}

VARIABLES
  gProtocolDB,
  stubs,       \* tables of stubs handed out
  answer       \* what the last lookup gave: an interface, or handles

protocolVars == <<gProtocolDB, stubs, answer>>

Entry(handle, guid, iface) == [handle |-> handle, guid |-> guid, iface |-> iface]

ProtocolInit ==
  /\ gProtocolDB = << Entry(Image, LoadedImage, gLoadedImageInstance),
                      Entry(Disk, "BlockIo", "gBlockIo"),
                      Entry(Disk, "DevicePath", "gDiskPath"),
                      Entry(Disk, "SimpleFileSystem", "gSfsp") >>
  /\ stubs = 0 /\ answer = <<>>

-----------------------------------------------------------------------------
InstallProtocolInterfaceFirst(handle, guid, iface) ==
  LET h == IF handle = NULL THEN NewHandle ELSE handle
  IN /\ gProtocolDB' = IF Len(gProtocolDB) < MAX_PROTOCOLS
                       THEN <<Entry(h, guid, iface)>> \o gProtocolDB ELSE gProtocolDB
     /\ UNCHANGED <<stubs, answer>>
\* A full table drops the interface; the caller is told SUCCESS all the same.
InstallProtocolInterface(handle, guid, iface) ==
  LET h == IF handle = NULL THEN NewHandle ELSE handle
  IN /\ gProtocolDB' = IF Len(gProtocolDB) < MAX_PROTOCOLS
                       THEN Append(gProtocolDB, Entry(h, guid, iface)) ELSE gProtocolDB
     /\ UNCHANGED <<stubs, answer>>

\* The interface of the first of the entries picked, or NULL.
FirstOf(picked) == IF picked = {} THEN NULL ELSE gProtocolDB[Min(picked)].iface

With(guid) == {k \in DOMAIN gProtocolDB : gProtocolDB[k].guid = guid}

efi_find_protocol(handle, guid) == FirstOf({k \in With(guid) : gProtocolDB[k].handle = handle})

HandleProtocolAnswer(handle, guid) ==
  LET found == efi_find_protocol(handle, guid)
  IN IF found = NULL /\ guid = LoadedImage THEN gLoadedImageInstance ELSE found

\* OpenProtocol is the same.
HandleProtocol(handle, guid) ==
  /\ answer' = <<HandleProtocolAnswer(handle, guid)>>
  /\ UNCHANGED <<gProtocolDB, stubs>>

LocateProtocolAnswer(guid) ==
  IF guid = LoadedImage THEN gLoadedImageInstance ELSE FirstOf(With(guid))

\* A protocol nobody has becomes a fresh table of functions that do nothing.
LocateProtocol(guid) ==
  LET found == LocateProtocolAnswer(guid)
  IN IF found = NULL /\ stubs < MaxStubs
     THEN stubs' = stubs + 1 /\ answer' = <<Stubs>> /\ UNCHANGED gProtocolDB
     ELSE answer' = <<found>> /\ UNCHANGED <<gProtocolDB, stubs>>

LocateHandleMatches(guid) ==
  LET matches[k \in 0 .. Len(gProtocolDB)] ==
        IF k = 0 THEN <<>>
        ELSE LET e == gProtocolDB[k]
             IN IF e.guid # guid \/ e.handle \in Range(matches[k - 1]) THEN matches[k - 1]
                ELSE Append(matches[k - 1], e.handle)
  IN matches[Len(gProtocolDB)]

\* The buffer is large enough.  LocateHandleBuffer gives one made-up handle.
LocateHandle(guid) ==
  /\ answer' = LocateHandleMatches(guid)
  /\ UNCHANGED <<gProtocolDB, stubs>>

ProtocolNext ==
  \E guid \in Guids :
    \/ LocateProtocol(guid) \/ LocateHandle(guid)
    \/ \E handle \in Handles : HandleProtocol(handle, guid)
    \/ \E handle \in Handles \cup {NULL}, iface \in Ifaces :
         InstallProtocolInterface(handle, guid, iface)

ProtocolSpec == ProtocolInit /\ [][ProtocolNext]_protocolVars

-----------------------------------------------------------------------------
\* The three lookups agree: LocateHandle names each handle with the protocol once
\* and no other, and LocateProtocol gives what the first of them has.
LookupsAgree ==
  \A guid \in Guids :
    LET handles == LocateHandleMatches(guid)
    IN /\ IsInjective(handles)
       /\ Range(handles) = {h \in Handles : efi_find_protocol(h, guid) # NULL}
       /\ handles # <<>> =>
            LocateProtocolAnswer(guid) = HandleProtocolAnswer(Head(handles), guid)

\* An interface that HandleProtocol or LocateProtocol gave from the table before a
\* step is the one it gives after: loaders keep pointers.
AnswersKept ==
  \A guid \in Guids :
    /\ \A handle \in Handles : efi_find_protocol(handle, guid) # NULL =>
         HandleProtocolAnswer(handle, guid)' = HandleProtocolAnswer(handle, guid)
    /\ LocateProtocolAnswer(guid) # NULL =>
         LocateProtocolAnswer(guid)' = LocateProtocolAnswer(guid)

\* After every installation the lookups agree (LookupsAgree), and whatever was
\* installed leaves the earlier answers as they were (AnswersKept).
LookupsStable ==
  [][gProtocolDB' # gProtocolDB => LookupsAgree' /\ AnswersKept]_protocolVars
=============================================================================
