------------------------------ MODULE FsDevice ------------------------------
(***************************************************************************)
(* FsVirtio of src/src/devices/virtio/devices/fs.rs: one tick of a queue   *)
(* of the shared folder's device, which gathers each request from its      *)
(* chain of descriptors, has it answered and scatters the reply over the   *)
(* same chain.  What the answer does is SharedFolder's.                    *)
(*                                                                         *)
(* A chain is a sequence of descriptors, the readable ones first.  A       *)
(* request is the cells <<descriptor, place>> it is read from, a reply the *)
(* numbers of its cells.                                                   *)
(***************************************************************************)
EXTENDS Naturals, Sequences

CONSTANTS
  Chains,        \* chains a driver may post
  MaxPosted,     \* bound: chains waiting when the queue is ticked
  MaxReply       \* bound: length of a reply

\* A descriptor: its length, and whether the device is to write it.
ASSUME FsDeviceAssumption ==
  /\ MaxPosted \in Nat \ {0} /\ MaxReply \in Nat \ {0}
  /\ \A c \in Chains : /\ c \in Seq([len : Nat, write : BOOLEAN]) /\ Len(c) > 0
                       /\ \A k, j \in DOMAIN c : k < j /\ c[k].write => c[j].write

VARIABLES
  queue_sel,   \* the queue: 0 is hiprio, 1 is for requests
  avail,       \* chains posted, oldest first
  popped,      \* how many of them the device has taken
  pc, desc,    \* place in tick, and in the chain
  request,     \* cells gathered
  reply,       \* length of the reply
  written,     \* cells of it written so far
  mem,         \* chain -> descriptor -> what the device wrote there
  used         \* retired chains, with the length of the reply they were owed

fsVars == <<queue_sel, avail, popped, pc, desc, request, reply, written, mem, used>>

chain == avail[popped]

FsInit ==
  /\ queue_sel \in {0, 1} /\ \E n \in 0 .. MaxPosted : avail \in [1 .. n -> Chains]
  /\ popped = 0 /\ pc = "pop" /\ desc = 1
  /\ request = <<>> /\ reply = 0 /\ written = 0
  /\ mem = [c \in DOMAIN avail |-> [k \in DOMAIN avail[c] |-> <<>>]]
  /\ used = <<>>

-----------------------------------------------------------------------------
PopAvail ==
  /\ pc = "pop" /\ popped < Len(avail)
  /\ popped' = popped + 1 /\ pc' = "collect" /\ desc' = 1 /\ request' = <<>>
  /\ UNCHANGED <<queue_sel, avail, reply, written, mem, used>>

\* The readable descriptors at the head of the chain, one per step.
collect_readable ==
  /\ pc = "collect"
  /\ IF chain[desc].write
     THEN pc' = "dispatch" /\ UNCHANGED <<desc, request>>
     ELSE /\ request' = request \o [k \in 1 .. chain[desc].len |-> <<desc, k>>]
          /\ IF desc = Len(chain) THEN pc' = "dispatch" /\ UNCHANGED desc
             ELSE desc' = desc + 1 /\ UNCHANGED pc
  /\ UNCHANGED <<queue_sel, avail, popped, reply, written, mem, used>>

\* hiprio takes FORGETs, which have no reply.  A request gets a header, with a
\* payload or an error.
Dispatch ==
  /\ pc = "dispatch"
  /\ desc' = 1 /\ written' = 0
  /\ \/ queue_sel = 0 /\ reply' = 0 /\ pc' = "retire"
     \/ queue_sel = 1 /\ reply' \in 1 .. MaxReply /\ pc' = "reply"
  /\ UNCHANGED <<queue_sel, avail, popped, request, mem, used>>

\* What of the reply goes into a descriptor
Room ==
  IF ~chain[desc].write THEN 0
  ELSE IF reply - written < chain[desc].len THEN reply - written ELSE chain[desc].len

write_out_reply_restarts ==
  /\ pc = "reply"
  /\ mem' = [mem EXCEPT ![popped][desc] = [k \in 1 .. Room |-> k]]
  /\ written' = written + Room
  /\ IF written' >= reply \/ desc = Len(chain)
     THEN pc' = "retire" /\ UNCHANGED desc
     ELSE desc' = desc + 1 /\ UNCHANGED pc
  /\ UNCHANGED <<queue_sel, avail, popped, request, reply, used>>
\* One descriptor of the chain from its head on; readable ones are passed over.
write_out_reply ==
  /\ pc = "reply"
  /\ mem' = [mem EXCEPT ![popped][desc] = [k \in 1 .. Room |-> written + k]]
  /\ written' = written + Room
  /\ IF written' >= reply \/ desc = Len(chain)
     THEN pc' = "retire" /\ UNCHANGED desc
     ELSE desc' = desc + 1 /\ UNCHANGED pc
  /\ UNCHANGED <<queue_sel, avail, popped, request, reply, used>>

PushUsed ==
  /\ pc = "retire"
  /\ used' = Append(used, reply)
  /\ pc' = "pop"
  /\ UNCHANGED <<queue_sel, avail, popped, desc, request, reply, written, mem>>

\* The queue is empty: tick returns.
Return == pc = "pop" /\ popped = Len(avail) /\ UNCHANGED fsVars

FsNext == PopAvail \/ collect_readable \/ Dispatch \/ write_out_reply \/ PushUsed \/ Return

FsSpec == FsInit /\ [][FsNext]_fsVars

-----------------------------------------------------------------------------
Readable(c) == {k \in DOMAIN c : ~c[k].write}

\* s is the cells of the descriptors ds of chain c, in order and once.
Gathered(s, c, ds) ==
  /\ \A i \in DOMAIN s : \E k \in ds : \E j \in 1 .. c[k].len : s[i] = <<k, j>>
  /\ \A k \in ds : \A j \in 1 .. c[k].len : \E i \in DOMAIN s : s[i] = <<k, j>>
  /\ \A i, j \in DOMAIN s :
       i < j => s[i][1] < s[j][1] \/ (s[i][1] = s[j][1] /\ s[i][2] < s[j][2])

\* The descriptors hold the first n cells of a reply, in order and once.
Scattered(m, n) ==
  /\ \A k \in DOMAIN m : \A j \in DOMAIN m[k] : m[k][j] \in 1 .. n
  /\ \A v \in 1 .. n : \E k \in DOMAIN m : \E j \in DOMAIN m[k] : m[k][j] = v
  /\ \A k, l \in DOMAIN m : \A j \in DOMAIN m[k], h \in DOMAIN m[l] :
       k < l \/ (k = l /\ j < h) => m[k][j] < m[l][h]

Full(c, m) == \A k \in DOMAIN c : c[k].write => Len(m[k]) = c[k].len

\* A request is answered when all of it was read: every cell of the chain's
\* readable descriptors, in order and once.  A retired chain holds its reply from
\* the first cell on, in order, as far as it has room, in its writable descriptors
\* only, and no chain holds another's.
ChainsCarried ==
  /\ pc = "dispatch" => Gathered(request, chain, Readable(chain))
  /\ \A c \in DOMAIN avail :
       /\ \A k \in DOMAIN avail[c] :
            Len(mem[c][k]) =< avail[c][k].len /\ (~avail[c][k].write => mem[c][k] = <<>>)
       /\ \E n \in 0 .. MaxReply :
            /\ Scattered(mem[c], n)
            /\ c =< Len(used) => n = used[c] \/ (n < used[c] /\ Full(avail[c], mem[c]))
            /\ c > popped => n = 0
=============================================================================
