--------------------------------- MODULE Gpu ---------------------------------
(***************************************************************************)
(* The control queue of VirtioGpu (src/src/devices/virtio/devices/gpu.rs): *)
(* one action per command, which is one turn of the loop of tick from the  *)
(* request to push_used, and reset, which a write of 0 to the transport's  *)
(* status calls.                                                           *)
(*                                                                         *)
(* A resource is its backing and the pages its pixels came from.  A        *)
(* command takes effect although its response may not fit the descriptor   *)
(* the guest gave; then the guest is left to guess, so the model keeps, as *)
(* history, the pages each resource may still use as far as the guest      *)
(* can tell.  The geometry of a transfer is GpuTransfer's.                 *)
(***************************************************************************)
EXTENDS Naturals, FiniteSets

CONSTANTS
  Ids,           \* resource ids a guest uses
  Scanouts,      \* entries of the scanout table
  Pages,         \* guest pages, as lists of memory entries
  MAX_RESOURCES,
  None           \* a scanout that is off

ASSUME GpuAssumption ==
  /\ 0 \in Ids                    \* the id that disables a scanout
  /\ MAX_RESOURCES \in Nat
  /\ IsFiniteSet(Ids)
  /\ None \notin Ids /\ "none" \notin Pages

VARIABLES
  resources,   \* id -> resource, or Gone
  scanouts,    \* scanout -> id, or None
  reply,       \* the answer to the last command
  lent,        \* history: pages the guest must leave to a resource
  own          \* history: pages a resource was given since its creation

vars == <<resources, scanouts, reply, lent, own>>

Gone == [live |-> FALSE, backing |-> "none", pixels |-> {}]
Fresh == [Gone EXCEPT !.live = TRUE]
Live(i) == resources[i].live

Init ==
  /\ resources = [i \in Ids |-> Gone]
  /\ scanouts = [s \in Scanouts |-> None]
  /\ reply = "none"
  /\ lent = [i \in Ids |-> {}]
  /\ own = [i \in Ids |-> {}]

-----------------------------------------------------------------------------
\* The answer r is written if it fits the response descriptor.
Answer(r, fits) == reply' = IF fits THEN r ELSE "lost"

\* The guest takes a resource's pages back once it is told that it may.
TakenBack(i, fits) ==
  lent' = IF fits THEN [lent EXCEPT ![i] = {}] ELSE lent

\* A command that changes nothing: malformed, too short for its type,
\* unsupported, or refused.
Refused(r, fits) ==
  /\ Answer(r, fits)
  /\ UNCHANGED <<resources, scanouts, lent, own>>

UnknownResource(i, fits) ==
  /\ ~Live(i)
  /\ Refused("ERR_INVALID_RESOURCE_ID", fits)

\* GET_DISPLAY_INFO, GET_EDID, CURSOR_GET and the rest
Other(fits) ==
  \E r \in {"OK_DISPLAY_INFO", "OK_NODATA", "ERR_UNSUPPORTED", "ERR_INVALID_ARGUMENT"} :
    Refused(r, fits)

\* A chain that gather_control_request cannot read is retired unanswered.
Malformed == Refused("none", TRUE)

\* good: format and geometry are supported
ResourceCreate2D(i, good, fits) ==
  \/ Live(i) /\ Refused("ERR_INVALID_RESOURCE_ID", fits)
  \/ /\ ~Live(i)
     /\ Cardinality({j \in Ids : Live(j)}) >= MAX_RESOURCES \/ ~good
     /\ Refused("ERR_INVALID_ARGUMENT", fits)
  \/ /\ ~Live(i) /\ good
     /\ Cardinality({j \in Ids : Live(j)}) < MAX_RESOURCES
     /\ resources' = [resources EXCEPT ![i] = Fresh]
     /\ Answer("OK_NODATA", fits)
     /\ UNCHANGED <<scanouts, lent, own>>

\* Answers OK whether or not the resource exists.
ResourceUnref(i, fits) ==
  /\ resources' = [resources EXCEPT ![i] = Gone]
  /\ scanouts' = [s \in Scanouts |-> IF scanouts[s] = i THEN None ELSE scanouts[s]]
  /\ Answer("OK_NODATA", fits)
  /\ TakenBack(i, fits)
  /\ own' = [own EXCEPT ![i] = {}]

SetScanout(s, i, fits) ==
  \/ i # 0 /\ UnknownResource(i, fits)
  \/ /\ i = 0 \/ Live(i)
     /\ scanouts' = [scanouts EXCEPT ![s] = IF i = 0 THEN None ELSE i]
     /\ Answer("OK_NODATA", fits)
     /\ UNCHANGED <<resources, lent, own>>

\* Draws the pixels of the resource on every scanout bound to it.
ResourceFlush(i, fits) ==
  \/ UnknownResource(i, fits)
  \/ Live(i) /\ Refused("OK_NODATA", fits)

\* inside: the rectangle lies in the resource and starts within its backing;
\* whole: it covers the resource.  Without backing the rectangle is cleared.
TransferToHost2D(i, inside, whole, fits) ==
  \/ UnknownResource(i, fits)
  \/ Live(i) /\ ~inside /\ Refused("ERR_INVALID_ARGUMENT", fits)
  \/ /\ Live(i) /\ inside
     /\ resources' = [resources EXCEPT ![i].pixels =
                        (IF whole THEN {} ELSE @) \cup ({resources[i].backing} \ {"none"})]
     /\ Answer("OK_NODATA", fits)
     /\ UNCHANGED <<scanouts, lent, own>>

ResourceAttachBacking(i, p, fits) ==
  \/ /\ ~Live(i)
     /\ Answer("ERR_INVALID_RESOURCE_ID", fits)
     /\ lent' = IF fits THEN lent ELSE [lent EXCEPT ![i] = @ \cup {p}]
     /\ UNCHANGED <<resources, scanouts, own>>
  \/ /\ Live(i)
     /\ resources' = [resources EXCEPT ![i].backing = p]
     /\ own' = [own EXCEPT ![i] = @ \cup {p}]
     /\ Answer("OK_NODATA", fits)
     /\ lent' = [lent EXCEPT ![i] = IF fits THEN {p} ELSE @ \cup {p}]
     /\ UNCHANGED scanouts

ResourceDetachBackingAnswersOnly(i, fits) ==
  \/ UnknownResource(i, fits)
  \/ /\ Live(i)
     /\ Answer("OK_NODATA", fits)
     /\ TakenBack(i, fits)
     /\ UNCHANGED <<resources, scanouts, own>>
ResourceDetachBacking(i, fits) ==
  \/ UnknownResource(i, fits)
  \/ /\ Live(i)
     /\ resources' = [resources EXCEPT ![i].backing = "none"]
     /\ Answer("OK_NODATA", fits)
     /\ TakenBack(i, fits)
     /\ UNCHANGED <<scanouts, own>>

\* The guest drops its driver: it takes back every page.
Reset ==
  /\ resources' = [i \in Ids |-> Gone]
  /\ scanouts' = [s \in Scanouts |-> None]
  /\ reply' = "none"
  /\ lent' = [i \in Ids |-> {}]
  /\ own' = [i \in Ids |-> {}]

-----------------------------------------------------------------------------
Next ==
  \/ Malformed \/ Reset
  \/ \E fits \in BOOLEAN :
       \/ Other(fits)
       \/ \E i \in Ids :
            \/ ResourceUnref(i, fits) \/ ResourceFlush(i, fits)
            \/ ResourceDetachBacking(i, fits)
            \/ \E good \in BOOLEAN : ResourceCreate2D(i, good, fits)
            \/ \E inside, whole \in BOOLEAN : TransferToHost2D(i, inside, whole, fits)
            \/ \E s \in Scanouts : SetScanout(s, i, fits)
            \/ \E p \in Pages : ResourceAttachBacking(i, p, fits)

Spec == Init /\ [][Next]_vars

-----------------------------------------------------------------------------
Resource == [live : BOOLEAN, backing : Pages \cup {"none"}, pixels : SUBSET Pages]
Replies == {"none", "lost", "OK_NODATA", "OK_DISPLAY_INFO", "ERR_UNSUPPORTED",
            "ERR_INVALID_RESOURCE_ID", "ERR_INVALID_ARGUMENT"}

\* Type invariant, with the limit on the number of resources.
TypeOK ==
  /\ resources \in [Ids -> Resource]
  /\ scanouts \in [Scanouts -> Ids \cup {None}]
  /\ reply \in Replies
  /\ lent \in [Ids -> SUBSET Pages] /\ own \in [Ids -> SUBSET Pages]
  /\ Cardinality({i \in Ids : Live(i)}) =< MAX_RESOURCES

\* Every scanout is off or shows a resource that exists, through unref, reset,
\* re-creation under the same id and commands that fail: a flush never meets a
\* dangling binding, and a new resource is not shown by an old binding.
ScanoutsLive ==
  \A s \in Scanouts : scanouts[s] # None => Live(scanouts[s]) /\ scanouts[s] # 0

\* The device never reads a page that the guest has taken back: the backing of
\* a live resource is one the guest knows it must leave alone, even when
\* answers get lost and ids are used again.
PagesLent ==
  \A i \in Ids : resources[i].backing # "none" => resources[i].backing \in lent[i]

\* Pixels never pass from one life of an id to the next: what a resource holds
\* came from pages attached since it was created.
PixelsOwn ==
  \A i \in Ids : resources[i].pixels \subseteq own[i]

\* The tables stay sound under every sequence of commands, failing ones and lost
\* answers included: within the limit, no scanout of a resource that is gone, no
\* page used that the guest has back, no pixels of an earlier resource.
TablesSound == TypeOK /\ ScanoutsLive /\ PagesLent /\ PixelsOwn
==============================================================================
