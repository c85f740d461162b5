-------------------------- MODULE Firmware_proofs ---------------------------
(***************************************************************************)
(* The firmware: its heap, the pages it hands to a loader, the image it    *)
(* loads, and what it answers about protocols and keys. For any sizes,     *)
(* layouts, requests, images and tables.                                   *)
(***************************************************************************)
EXTENDS FirmwareHeap, BootServices, PeLoader, ProtocolDb, BootEvents, SequenceTheorems, TLAPS

-----------------------------------------------------------------------------
(***************************************************************************)
(* PeLoader: the image entered is the file's, each section at its address  *)
(* and each target relocated once. The invariant says how far headers,     *)
(* sections and relocations have come.                                     *)
(***************************************************************************)

Cell == [from : Int, relocated : Nat, patched : BOOLEAN]

PeType ==
  /\ file \in Images /\ mem \in [0 .. Top -> Cell] /\ i \in Nat \ {0}
  /\ pe_pc \in {"check", "headers", "sections", "relocs", "patch", "entered", "refused"}

\* What cell a of a section is to hold
Content(sec, a) ==
  IF a - sec.VirtualAddress < sec.SizeOfRawData
    THEN sec.PointerToRawData + (a - sec.VirtualAddress) ELSE -1

\* The first sections are in place.
InPlace(n) ==
  \A s \in DOMAIN file.sections : s =< n =>
    \A a \in Extent(file.sections[s]) :
      mem[LOAD_OFFSET + a].from = Content(file.sections[s], a)

\* The first blocks are applied, each target once, and nothing else is relocated.
Fixed(n) ==
  \A a \in 0 .. Top :
    mem[a].relocated = IF \E b \in DOMAIN file.relocs : b =< n /\ a - LOAD_OFFSET \in Targets(file.relocs[b])
                       THEN 1 ELSE 0

AllFixed ==
  \A a \in 0 .. Top : mem[a].relocated = IF Relocated(a - LOAD_OFFSET) THEN 1 ELSE 0

PeInv ==
  /\ PeType
  /\ pe_pc \in {"check", "headers"} => i = 1
  /\ pe_pc \in {"check", "headers", "sections"} => Fixed(0)
  /\ pe_pc = "sections" => InPlace(i - 1)
  /\ pe_pc \in {"relocs", "patch", "entered"} => InPlace(Len(file.sections))
  /\ pe_pc = "relocs" => /\ ~file.at_base /\ Fixed(i - 1)
                         /\ \A b \in DOMAIN file.relocs : b < i => file.relocs[b].whole
  /\ pe_pc \in {"patch", "entered"} => AllFixed
  /\ pe_pc \notin {"entered"} => \A a \in 0 .. file.len - 1 : mem[a] = OfFile(a)
  /\ pe_pc = "entered" => \A a \in 0 .. file.len - 1 : mem[a] = [OfFile(a) EXCEPT !.patched = (a = 0)]

\* What the loader may rely on of a file that passed its checks.
LEMMA FileIs ==
  ASSUME PeType
  PROVE  /\ file.len \in Nat /\ file.len > 0 /\ file.len =< LOAD_OFFSET
         /\ file.sections \in Seq(Sections) /\ file.relocs \in Seq(RelocBlocks)
         /\ Len(file.sections) \in Nat /\ DOMAIN file.sections = 1 .. Len(file.sections)
         /\ Len(file.relocs) \in Nat /\ DOMAIN file.relocs = 1 .. Len(file.relocs)
         /\ file.at_base \in BOOLEAN
<1>1. file \in Files
  BY PeLoaderAssumption, Zenon DEF PeType
<1>2. /\ file.len \in 1 .. LOAD_OFFSET /\ file.sections \in Seq(Sections)
      /\ file.relocs \in Seq(RelocBlocks) /\ file.at_base \in BOOLEAN
  BY <1>1, Zenon DEF Files
<1>3. /\ Len(file.sections) \in Nat /\ DOMAIN file.sections = 1 .. Len(file.sections)
      /\ Len(file.relocs) \in Nat /\ DOMAIN file.relocs = 1 .. Len(file.relocs)
  BY <1>2, LenProperties, Zenon
<1>4. file.len \in Nat /\ file.len > 0 /\ file.len =< LOAD_OFFSET
  BY <1>2, PeLoaderAssumption
<1> QED BY <1>2, <1>3, <1>4, Zenon

\* A section lies in memory above the file, its data in the file.
LEMMA SectionIs ==
  ASSUME PeType, NEW s \in DOMAIN file.sections
  PROVE  LET sec == file.sections[s]
         IN  /\ sec.VirtualAddress \in Nat /\ sec.VirtualAddress # 0 /\ sec.PointerToRawData \in Nat
             /\ sec.SizeOfRawData \in Nat /\ sec.VirtualSize \in Nat
             /\ sec.PointerToRawData + sec.SizeOfRawData =< file.len
             /\ \A a \in Extent(sec) : a \in Nat /\ a > 0 /\ LOAD_OFFSET + a \in 0 .. Top
<1> DEFINE sec == file.sections[s]
<1>1. sec \in Sections
  BY FileIs, ElementOfSeq, Zenon
<1>2. /\ sec.VirtualAddress \in Nat /\ sec.VirtualAddress # 0 /\ sec.PointerToRawData \in Nat
      /\ sec.SizeOfRawData \in Nat /\ sec.VirtualSize \in Nat
  BY <1>1, Zenon DEF Sections
<1>3. /\ sec.PointerToRawData + sec.SizeOfRawData =< file.len
      /\ \A a \in Extent(sec) : LOAD_OFFSET + a =< Top
  BY PeLoaderAssumption, Zenon DEF PeType
<1> HIDE DEF sec
<1>4. \A a \in Extent(sec) : a \in Nat /\ a > 0
  BY <1>2 DEF Extent
<1>5. \A a \in Extent(sec) : LOAD_OFFSET + a \in 0 .. Top
  BY <1>3, <1>4, PeLoaderAssumption
<1> QED BY <1>2, <1>3, <1>4, <1>5, Zenon DEF sec

\* A section ends before the next one begins, as the linker lays them out.
LEMMA SectionsOrdered ==
  ASSUME PeType, NEW s \in DOMAIN file.sections, NEW t \in DOMAIN file.sections, s < t,
         NEW a \in Extent(file.sections[s])
  PROVE  a < file.sections[t].VirtualAddress
BY PeLoaderAssumption DEF PeType

\* Two blocks of relocations patch different places.
LEMMA TargetsApart ==
  ASSUME PeType, NEW b \in DOMAIN file.relocs, NEW c \in DOMAIN file.relocs, b # c
  PROVE  Targets(file.relocs[b]) \cap Targets(file.relocs[c]) = {}
BY PeLoaderAssumption, Zenon DEF PeType

\* Relocations are of the loaded copy.
LEMMA TargetsAbove ==
  ASSUME PeType, NEW b \in DOMAIN file.relocs
  PROVE  Targets(file.relocs[b]) \subseteq Nat
<1> DEFINE block == file.relocs[b]
<1>1. block \in RelocBlocks
  BY FileIs, ElementOfSeq, Zenon
<1>2. block.VirtualAddress \in Nat /\ block.entries \in Seq([type : Types, offset : Nat])
  BY <1>1, Zenon DEF RelocBlocks
<1> HIDE DEF block
<1>3. ASSUME NEW e \in DOMAIN block.entries PROVE block.entries[e].offset \in Nat
  <2>1. block.entries[e] \in [type : Types, offset : Nat]
    BY <1>2, ElementOfSeq, LenProperties, Zenon
  <2> QED BY <2>1, Zenon
<1>4. Targets(block) \subseteq Nat
  BY <1>2, <1>3 DEF Targets
<1> QED BY <1>4, Zenon DEF block

\* The cells of the image: zero, left from before, or of the file; none relocated yet.
LEMMA CellIs ==
  /\ Zero \in Cell /\ Zero.from = -1 /\ Zero.relocated = 0
  /\ Old \in Cell /\ Old.relocated = 0
  /\ \A k \in Nat : OfFile(k) \in Cell /\ OfFile(k).from = k /\ OfFile(k).relocated = 0
BY DEF Zero, Old, OfFile, Cell

\* No block is applied yet: nothing is relocated.
LEMMA NothingFixed ==
  ASSUME PeType
  PROVE  Fixed(0) <=> \A a \in 0 .. Top : mem[a].relocated = 0
<1>1. \A b \in DOMAIN file.relocs : ~(b =< 0)
  BY FileIs
<1> QED BY <1>1, Zenon DEF Fixed

\* The invariant of the loader holds before the headers are copied.
LEMMA PeStart == PeInit => PeInv
<1> SUFFICES ASSUME PeInit PROVE PeInv
  BY Zenon
<1>1. file \in Images /\ i = 1 /\ pe_pc = "check"
      /\ mem = [a \in 0 .. Top |-> IF a < file.len THEN OfFile(a) ELSE Old]
  BY Zenon DEF PeInit
<1>2. mem \in [0 .. Top -> Cell]
  BY <1>1, CellIs, PeLoaderAssumption
<1>3. PeType
  BY <1>1, <1>2 DEF PeType
<1>4. \A a \in 0 .. Top : mem[a].relocated = 0
  BY <1>1, CellIs, PeLoaderAssumption, SMTT(30)
<1>5. \A a \in 0 .. file.len - 1 : mem[a] = OfFile(a)
  BY <1>1, <1>3, FileIs, PeLoaderAssumption
<1> QED BY <1>1, <1>3, <1>4, <1>5, NothingFixed, Zenon DEF PeInv

\* Copying the headers keeps it.
LEMMA PeHeaders ==
  ASSUME PeInv, CopyHeaders
  PROVE  PeInv'
<1>1. /\ PeType /\ i = 1 /\ Fixed(0) /\ UNCHANGED <<file, i>> /\ pe_pc' = "sections"
      /\ \A a \in 0 .. file.len - 1 : mem[a] = OfFile(a)
  BY Zenon DEF PeInv, CopyHeaders
<1>2. mem' = memcpy(mem, LOAD_OFFSET, 0, 1)
  BY Zenon DEF CopyHeaders
<1>3. mem \in [0 .. Top -> Cell] /\ 0 \in 0 .. Top
  BY <1>1, PeLoaderAssumption DEF PeType
<1>4. mem' = [a \in 0 .. Top |-> IF a = LOAD_OFFSET THEN mem[0] ELSE mem[a]]
  <2>1. \A a \in 0 .. Top : a \in LOAD_OFFSET .. LOAD_OFFSET + 1 - 1 <=> a = LOAD_OFFSET
    BY PeLoaderAssumption
  <2>2. LOAD_OFFSET > 0
    BY PeLoaderAssumption
  <2>3. 0 + ((LOAD_OFFSET - LOAD_OFFSET) % (LOAD_OFFSET - 0)) = 0
    BY PeLoaderAssumption
  <2> QED BY <1>2, <1>3, <2>1, <2>2, <2>3, Zenon DEF memcpy
<1>5. mem' \in [0 .. Top -> Cell]
  BY <1>3, <1>4, Zenon
<1>6. PeType'
  BY <1>1, <1>5, Zenon DEF PeType
<1>7. \A a \in 0 .. Top : mem[a].relocated = 0
  BY <1>1, NothingFixed, Zenon
<1>8. \A a \in 0 .. Top : mem'[a].relocated = 0
  BY <1>3, <1>4, <1>7, Zenon
<1>9. Fixed(0)'
  <2>1. \A b \in DOMAIN file'.relocs : ~(b =< 0)
    BY <1>1, FileIs, SMTT(30)
  <2> QED BY <1>8, <2>1, Zenon DEF Fixed
<1>10. \A a \in 0 .. file.len - 1 : a \in 0 .. Top /\ a # LOAD_OFFSET
  BY <1>1, FileIs, PeLoaderAssumption
<1>11. \A a \in 0 .. file.len - 1 : mem'[a] = OfFile(a)
  BY <1>1, <1>4, <1>10, Zenon
<1>12. InPlace(i - 1)'
  <2>1. \A s \in DOMAIN file'.sections : ~(s =< i' - 1)
    BY <1>1, FileIs
  <2> QED BY <2>1, Zenon DEF InPlace
<1> QED BY <1>1, <1>6, <1>9, <1>11, <1>12, Zenon DEF PeInv

\* A section is copied from the file, what it has beyond that is zeroed, and no
\* other cell changes.
LEMMA PeSection ==
  ASSUME PeInv, CopySection
  PROVE  PeInv'
<1> DEFINE sec == file.sections[i]
           dst == LOAD_OFFSET + sec.VirtualAddress
           src == sec.PointerToRawData
           raw == sec.SizeOfRawData
           virt == sec.VirtualSize
<1>1. /\ PeType /\ Fixed(0) /\ InPlace(i - 1) /\ UNCHANGED <<file, pe_pc>> /\ i' = i + 1
      /\ pe_pc = "sections" /\ i =< Len(file.sections)
      /\ \A a \in 0 .. file.len - 1 : mem[a] = OfFile(a)
  BY Zenon DEF PeInv, CopySection
<1>2. i \in DOMAIN file.sections /\ i \in Nat /\ i > 0
  BY <1>1, FileIs DEF PeType
<1>3. /\ sec.VirtualAddress \in Nat /\ sec.VirtualAddress # 0 /\ src \in Nat /\ raw \in Nat /\ virt \in Nat
      /\ src + raw =< file.len
      /\ \A a \in Extent(sec) : a \in Nat /\ a > 0 /\ LOAD_OFFSET + a \in 0 .. Top
  BY <1>1, <1>2, SectionIs, Zenon
<1>4. file.len \in Nat /\ file.len =< LOAD_OFFSET /\ LOAD_OFFSET \in Nat /\ LOAD_OFFSET =< Top /\ Top \in Nat
  BY <1>1, FileIs, PeLoaderAssumption, Zenon
<1>5. mem' = memset(memcpy(mem, dst, src, raw), dst + raw, virt - raw)
  BY Zenon DEF CopySection
<1>6. \A a \in Extent(sec) : a \in sec.VirtualAddress .. sec.VirtualAddress + raw - 1
                            \/ a \in sec.VirtualAddress + raw .. sec.VirtualAddress + virt - 1
  BY <1>3 DEF Extent
<1>7. mem \in [0 .. Top -> Cell]
  BY <1>1, Zenon DEF PeType
<1> HIDE DEF sec, src, raw, virt
<1>8. dst \in Nat /\ dst > src /\ dst >= LOAD_OFFSET /\ raw =< dst - src
  BY <1>3, <1>4
<1> HIDE DEF dst
<1>9. ASSUME NEW a \in dst .. dst + raw - 1
      PROVE  /\ src + ((a - dst) % (dst - src)) = src + (a - dst)
             /\ src + (a - dst) \in 0 .. file.len - 1
  <2>1. a - dst \in Nat /\ a - dst < dst - src /\ dst - src \in Nat /\ a - dst < raw
    BY <1>3, <1>8
  <2>2. (a - dst) % (dst - src) = a - dst
    BY <2>1, SMT
  <2> QED BY <1>3, <1>4, <2>1, <2>2
<1>10. DOMAIN mem' = 0 .. Top
       /\ \A a \in 0 .. Top : mem'[a] =
            IF a \in dst + raw .. dst + raw + (virt - raw) - 1 THEN Zero
            ELSE IF a \in dst .. dst + raw - 1 THEN mem[src + ((a - dst) % (dst - src))] ELSE mem[a]
  BY <1>5, <1>7, <1>8, Zenon DEF memset, memcpy
<1>0. mem' = [a \in 0 .. Top |-> mem'[a]]
  BY <1>5, <1>7, Zenon DEF memset, memcpy
<1>11. \A a \in 0 .. Top :
         /\ a \in dst + raw .. dst + virt - 1 => mem'[a] = Zero
         /\ a \in dst .. dst + raw - 1 => mem'[a] = OfFile(src + (a - dst))
         /\ a \notin dst .. dst + raw - 1 /\ a \notin dst + raw .. dst + virt - 1 => mem'[a] = mem[a]
  <2> TAKE a \in 0 .. Top
  <2>1. dst + raw + (virt - raw) - 1 = dst + virt - 1
    BY <1>3, <1>8
  <2>2. a \in dst .. dst + raw - 1 => a \notin dst + raw .. dst + virt - 1
    BY <1>3, <1>8
  <2>3. a \in dst .. dst + raw - 1 => mem[src + ((a - dst) % (dst - src))] = OfFile(src + (a - dst))
    BY <1>1, <1>9, Zenon
  <2> QED BY <1>10, <2>1, <2>2, <2>3, Zenon
<1>12. \A a \in dst .. dst + raw - 1 : src + (a - dst) \in Nat
  BY <1>4, <1>9
<1>13. \A a \in 0 .. Top : mem'[a] \in Cell /\ (mem[a].relocated = 0 => mem'[a].relocated = 0)
  BY <1>7, <1>11, <1>12, CellIs
<1>14. mem' \in [0 .. Top -> Cell]
  BY <1>0, <1>13, Zenon
<1>15. PeType'
  BY <1>1, <1>2, <1>14 DEF PeType
<1>16. Fixed(0)'
  <2>1. \A b \in DOMAIN file'.relocs : ~(b =< 0)
    BY <1>1, FileIs
  <2>2. \A a \in 0 .. Top : mem[a].relocated = 0
    BY <1>1, NothingFixed, Zenon
  <2> QED BY <1>13, <2>1, <2>2, Zenon DEF Fixed
<1>17. \A a \in 0 .. file.len - 1 : mem'[a] = OfFile(a)
  <2> TAKE a \in 0 .. file.len - 1
  <2>1. a \in 0 .. Top /\ a < dst
    BY <1>4, <1>8
  <2>2. a \notin dst .. dst + raw - 1 /\ a \notin dst + raw .. dst + virt - 1
    BY <1>3, <1>8, <2>1
  <2> QED BY <1>1, <1>11, <2>1, <2>2, Zenon
<1>18. ASSUME NEW a \in Extent(sec)
       PROVE  mem'[LOAD_OFFSET + a].from = Content(sec, a)
  <2>1. a \in Nat /\ LOAD_OFFSET + a \in 0 .. Top
    BY <1>3, Zenon
  <2> DEFINE x == LOAD_OFFSET + a
  <2>2. CASE a \in sec.VirtualAddress .. sec.VirtualAddress + raw - 1
    <3>1. x \in dst .. dst + raw - 1 /\ x - dst = a - sec.VirtualAddress /\ a - sec.VirtualAddress < raw
      BY <1>3, <1>4, <2>1, <2>2 DEF dst
    <3>2. mem'[x] = OfFile(src + (x - dst)) /\ src + (x - dst) \in Nat
      BY <1>11, <1>12, <2>1, <3>1, Zenon
    <3>3. mem'[x].from = src + (x - dst)
      BY <3>2, CellIs, Zenon
    <3> QED BY <3>1, <3>3, Zenon DEF Content, raw, src
  <2>3. CASE a \in sec.VirtualAddress + raw .. sec.VirtualAddress + virt - 1
    <3>1. x \in dst + raw .. dst + virt - 1 /\ ~(a - sec.VirtualAddress < raw)
      BY <1>3, <1>4, <2>1, <2>3 DEF dst
    <3>2. mem'[x] = Zero
      BY <1>11, <2>1, <3>1, Zenon
    <3> QED BY <3>1, <3>2, CellIs, Zenon DEF Content, raw
  <2> QED BY <1>6, <2>2, <2>3, Zenon
<1>19. ASSUME NEW s \in DOMAIN file.sections, s < i, NEW a \in Extent(file.sections[s])
       PROVE  mem'[LOAD_OFFSET + a].from = Content(file.sections[s], a)
  <2>1. a < sec.VirtualAddress
    BY <1>1, <1>2, <1>19, SectionsOrdered, Zenon DEF sec
  <2>2. a \in Nat /\ LOAD_OFFSET + a \in 0 .. Top
    BY <1>1, SectionIs, Zenon
  <2>3. LOAD_OFFSET + a < dst
    BY <1>3, <1>4, <2>1, <2>2 DEF dst
  <2>4. LOAD_OFFSET + a \notin dst .. dst + raw - 1 /\ LOAD_OFFSET + a \notin dst + raw .. dst + virt - 1
    BY <1>3, <1>8, <2>2, <2>3
  <2>5. mem'[LOAD_OFFSET + a] = mem[LOAD_OFFSET + a]
    BY <1>11, <2>2, <2>4, Zenon
  <2>6. s =< i - 1
    BY <1>2, <1>19, <1>1, FileIs
  <2> QED BY <1>1, <2>5, <2>6, Zenon DEF InPlace
<1>20. InPlace(i - 1)'
  <2>1. ASSUME NEW s \in DOMAIN file'.sections, s =< i' - 1, NEW a \in Extent(file'.sections[s])
        PROVE  mem'[LOAD_OFFSET + a].from = Content(file'.sections[s], a)
    <3>1. file' = file /\ s \in DOMAIN file.sections /\ a \in Extent(file.sections[s])
      BY <1>1, Zenon
    <3>2. s < i \/ s = i
      BY <1>1, <1>2, <2>1, <3>1, FileIs
    <3>3. CASE s < i
      BY <1>19, <3>1, <3>3, Zenon
    <3>4. CASE s = i
      BY <1>18, <3>1, <3>4, Zenon DEF sec
    <3> QED BY <3>2, <3>3, <3>4, Zenon
  <2> QED BY <2>1, Zenon DEF InPlace
<1> QED BY <1>1, <1>15, <1>16, <1>17, <1>20, Zenon DEF PeInv

\* A block adds one to its targets, which no block before it has touched.
LEMMA PeRelocates ==
  ASSUME PeInv, RelocateBlock
  PROVE  PeInv'
<1> DEFINE block == file.relocs[i]
<1>1. /\ PeType /\ ~file.at_base /\ Fixed(i - 1) /\ InPlace(Len(file.sections))
      /\ \A b \in DOMAIN file.relocs : b < i => file.relocs[b].whole
      /\ UNCHANGED <<file, pe_pc>> /\ i' = i + 1 /\ pe_pc = "relocs" /\ i =< Len(file.relocs)
      /\ block.whole /\ \A a \in 0 .. file.len - 1 : mem[a] = OfFile(a)
  BY Zenon DEF PeInv, RelocateBlock
<1>2. i \in DOMAIN file.relocs /\ i \in Nat /\ i > 0 /\ \A b \in DOMAIN file.relocs : b \in Nat
  BY <1>1, FileIs DEF PeType
<1>3. mem \in [0 .. Top -> Cell] /\ DOMAIN mem = 0 .. Top
  BY <1>1, Zenon DEF PeType
<1>4. mem' = [a \in 0 .. Top |-> IF a - LOAD_OFFSET \in Targets(block)
                                 THEN [mem[a] EXCEPT !.relocated = @ + 1] ELSE mem[a]]
  BY <1>3, Zenon DEF RelocateBlock
<1> HIDE DEF block
<1>5. ASSUME NEW a \in 0 .. Top
      PROVE  /\ mem'[a] \in Cell /\ mem'[a].from = mem[a].from
             /\ mem'[a].relocated = IF a - LOAD_OFFSET \in Targets(block)
                                    THEN mem[a].relocated + 1 ELSE mem[a].relocated
             /\ a - LOAD_OFFSET \notin Targets(block) => mem'[a] = mem[a]
  <2>1. mem[a] \in Cell
    BY <1>3, Zenon
  <2>2. [mem[a] EXCEPT !.relocated = @ + 1] \in Cell
        /\ [mem[a] EXCEPT !.relocated = @ + 1].from = mem[a].from
        /\ [mem[a] EXCEPT !.relocated = @ + 1].relocated = mem[a].relocated + 1
    BY <2>1 DEF Cell
  <2> QED BY <1>4, <2>1, <2>2, Zenon
<1>6. mem' \in [0 .. Top -> Cell]
  BY <1>4, <1>5, Zenon
<1>7. PeType'
  BY <1>1, <1>2, <1>6 DEF PeType
<1>8. ASSUME NEW a \in 0 .. Top
      PROVE  mem'[a].relocated =
               IF \E b \in DOMAIN file.relocs : b =< i /\ a - LOAD_OFFSET \in Targets(file.relocs[b])
               THEN 1 ELSE 0
  <2>1. mem[a].relocated =
          IF \E b \in DOMAIN file.relocs : b =< i - 1 /\ a - LOAD_OFFSET \in Targets(file.relocs[b])
          THEN 1 ELSE 0
    BY <1>1, Zenon DEF Fixed
  <2>2. CASE a - LOAD_OFFSET \in Targets(block)
    <3>1. \A b \in DOMAIN file.relocs : b =< i - 1 => a - LOAD_OFFSET \notin Targets(file.relocs[b])
      <4> SUFFICES ASSUME NEW b \in DOMAIN file.relocs, b =< i - 1
                   PROVE  a - LOAD_OFFSET \notin Targets(file.relocs[b])
        BY Zenon
      <4>1. b # i
        BY <1>2
      <4> QED BY <1>1, <1>2, <2>2, <4>1, TargetsApart, Zenon DEF block
    <3>2. mem[a].relocated = 0
      BY <2>1, <3>1, Zenon
    <3>3. mem'[a].relocated = 1
      BY <1>5, <2>2, <3>2
    <3>4. i =< i
      BY <1>2
    <3> QED BY <1>2, <2>2, <3>3, <3>4, Zenon DEF block
  <2>3. CASE a - LOAD_OFFSET \notin Targets(block)
    <3>1. mem'[a].relocated = mem[a].relocated
      BY <1>5, <2>3, Zenon
    <3>2. \A b \in DOMAIN file.relocs : b =< i <=> b =< i - 1 \/ b = i
      BY <1>2
    <3> QED BY <2>1, <2>3, <3>1, <3>2, Zenon DEF block
  <2> QED BY <2>2, <2>3, Zenon
<1>9. Fixed(i - 1)'
  <2>1. i' - 1 = i
    BY <1>1, <1>2
  <2> QED BY <1>1, <1>8, <2>1, Zenon DEF Fixed
<1>10. InPlace(Len(file.sections))'
  <2>1. ASSUME NEW s \in DOMAIN file.sections, NEW a \in Extent(file.sections[s])
        PROVE  mem'[LOAD_OFFSET + a].from = mem[LOAD_OFFSET + a].from
    <3>1. LOAD_OFFSET + a \in 0 .. Top
      BY <1>1, SectionIs, Zenon
    <3> QED BY <1>5, <3>1, Zenon
  <2> QED BY <1>1, <2>1, Zenon DEF InPlace
<1>11. \A a \in 0 .. file.len - 1 : mem'[a] = OfFile(a)
  <2> TAKE a \in 0 .. file.len - 1
  <2>1. a \in 0 .. Top /\ a - LOAD_OFFSET \notin Nat
    BY <1>1, FileIs, PeLoaderAssumption
  <2>2. a - LOAD_OFFSET \notin Targets(block)
    BY <1>1, <1>2, <2>1, TargetsAbove, Zenon DEF block
  <2> QED BY <1>1, <1>5, <2>1, <2>2
<1>12. \A b \in DOMAIN file.relocs : b < i + 1 => file.relocs[b].whole
  <2>1. \A b \in DOMAIN file.relocs : b < i + 1 => b < i \/ b = i
    BY <1>2
  <2> QED BY <1>1, <2>1, Zenon DEF block
<1> QED BY <1>1, <1>7, <1>9, <1>10, <1>11, <1>12, Zenon DEF PeInv

\* Copied, and relocated where it must be
LEMMA PeCopied ==
  ASSUME PeInv, SectionsDone
  PROVE  PeInv'
<1>1. /\ PeType /\ Fixed(0) /\ InPlace(i - 1) /\ UNCHANGED <<file, mem>> /\ i' = 1
      /\ pe_pc = "sections" /\ i > Len(file.sections) /\ i \in Nat
      /\ pe_pc' = IF file.at_base THEN "patch" ELSE "relocs"
      /\ \A a \in 0 .. file.len - 1 : mem[a] = OfFile(a)
  BY Zenon DEF PeInv, SectionsDone, PeType
<1>2. PeType'
  BY <1>1 DEF PeType
<1>3. InPlace(Len(file.sections))'
  <2>1. \A s \in DOMAIN file.sections : s =< i - 1
    BY <1>1, FileIs
  <2> QED BY <1>1, <2>1, Zenon DEF InPlace
<1>4. \A a \in 0 .. Top : mem[a].relocated = 0
  BY <1>1, NothingFixed, Zenon
<1>5. Fixed(i - 1)'
  <2>1. \A b \in DOMAIN file.relocs : ~(b =< 1 - 1)
    BY <1>1, FileIs
  <2> QED BY <1>1, <1>4, <2>1, Zenon DEF Fixed
<1>6. file.at_base => AllFixed'
  BY <1>1, <1>4, Zenon DEF AllFixed, Relocated
<1>7. \A b \in DOMAIN file.relocs : ~(b < 1)
  BY <1>1, FileIs
<1> QED BY <1>1, <1>2, <1>3, <1>5, <1>6, <1>7, Zenon DEF PeInv

\* Going past the last relocation block keeps it.
LEMMA PeRelocated ==
  ASSUME PeInv, RelocsDone
  PROVE  PeInv'
<1>1. /\ PeType /\ ~file.at_base /\ Fixed(i - 1) /\ InPlace(Len(file.sections))
      /\ \A b \in DOMAIN file.relocs : b < i => file.relocs[b].whole
      /\ UNCHANGED <<file, mem, i>> /\ pe_pc = "relocs" /\ pe_pc' = "patch"
      /\ (i =< Len(file.relocs) => ~file.relocs[i].whole) /\ i \in Nat /\ i > 0
      /\ \A a \in 0 .. file.len - 1 : mem[a] = OfFile(a)
  BY DEF PeInv, RelocsDone, PeType
<1>2. PeType'
  BY <1>1, Zenon DEF PeType
<1>3. ASSUME NEW b \in DOMAIN file.relocs
      PROVE  b \in Applied <=> b =< i - 1
  <2>1. b \in 1 .. Len(file.relocs) /\ Len(file.relocs) \in Nat /\ DOMAIN file.relocs = 1 .. Len(file.relocs)
    BY <1>1, FileIs, Zenon
  <2>2. CASE b =< i - 1
    <3>1. \A c \in 1 .. b : c \in DOMAIN file.relocs /\ c < i
      BY <1>1, <2>1, <2>2
    <3> QED BY <1>1, <2>2, <3>1, Zenon DEF Applied
  <2>3. CASE ~(b =< i - 1)
    <3>1. i \in 1 .. b /\ i =< Len(file.relocs)
      BY <1>1, <2>1, <2>3
    <3> QED BY <1>1, <2>3, <3>1, Zenon DEF Applied
  <2> QED BY <2>2, <2>3, Zenon
<1>4. Applied \subseteq DOMAIN file.relocs
  BY Zenon DEF Applied
<1>5. AllFixed
  <2> SUFFICES ASSUME NEW a \in 0 .. Top
               PROVE  mem[a].relocated = IF Relocated(a - LOAD_OFFSET) THEN 1 ELSE 0
    BY Zenon DEF AllFixed
  <2>1. mem[a].relocated =
          IF \E b \in DOMAIN file.relocs : b =< i - 1 /\ a - LOAD_OFFSET \in Targets(file.relocs[b])
          THEN 1 ELSE 0
    BY <1>1, Zenon DEF Fixed
  <2>2. Relocated(a - LOAD_OFFSET) <=>
          \E b \in DOMAIN file.relocs : b =< i - 1 /\ a - LOAD_OFFSET \in Targets(file.relocs[b])
    BY <1>1, <1>3, <1>4, Zenon DEF Relocated
  <2> QED BY <2>1, <2>2, Zenon
<1>6. AllFixed' /\ InPlace(Len(file.sections))'
  BY <1>1, <1>5, Zenon DEF AllFixed, InPlace, Relocated, Applied
<1> QED BY <1>1, <1>2, <1>6, Zenon DEF PeInv

\* ImageBase is patched in both copies of the headers.
LEMMA PePatches ==
  ASSUME PeInv, PatchImageBase
  PROVE  PeInv'
<1>1. /\ PeType /\ InPlace(Len(file.sections)) /\ AllFixed /\ UNCHANGED <<file, i>>
      /\ pe_pc' = "entered" /\ \A a \in 0 .. file.len - 1 : mem[a] = OfFile(a)
  BY Zenon DEF PeInv, PatchImageBase
<1>2. mem \in [0 .. Top -> Cell] /\ LOAD_OFFSET \in 0 .. Top /\ 0 \in 0 .. Top /\ LOAD_OFFSET # 0
  BY <1>1, PeLoaderAssumption DEF PeType
<1>3. mem' = [mem EXCEPT ![LOAD_OFFSET].patched = TRUE, ![0].patched = TRUE]
  BY Zenon DEF PatchImageBase
<1>4. mem' = [a \in 0 .. Top |-> IF a \in {0, LOAD_OFFSET} THEN [mem[a] EXCEPT !.patched = TRUE] ELSE mem[a]]
  BY <1>2, <1>3, Zenon
<1>5. ASSUME NEW a \in 0 .. Top
      PROVE  /\ mem'[a] \in Cell /\ mem'[a].from = mem[a].from /\ mem'[a].relocated = mem[a].relocated
             /\ a # LOAD_OFFSET => mem'[a] = IF a = 0 THEN [mem[a] EXCEPT !.patched = TRUE] ELSE mem[a]
  <2>1. mem[a] \in Cell
    BY <1>2, Zenon
  <2>2. [mem[a] EXCEPT !.patched = TRUE] \in Cell
        /\ [mem[a] EXCEPT !.patched = TRUE].from = mem[a].from
        /\ [mem[a] EXCEPT !.patched = TRUE].relocated = mem[a].relocated
    BY <2>1, Zenon DEF Cell
  <2> QED BY <1>4, <2>1, <2>2, Zenon
<1>6. mem' \in [0 .. Top -> Cell]
  BY <1>4, <1>5, Zenon
<1>7. PeType'
  BY <1>1, <1>6, Zenon DEF PeType
<1>8. AllFixed'
  BY <1>1, <1>5, Zenon DEF AllFixed, Relocated, Applied
<1>9. InPlace(Len(file.sections))'
  <2>1. ASSUME NEW s \in DOMAIN file.sections, NEW a \in Extent(file.sections[s])
        PROVE  mem'[LOAD_OFFSET + a].from = mem[LOAD_OFFSET + a].from
    <3>1. LOAD_OFFSET + a \in 0 .. Top
      BY <1>1, SectionIs, Zenon
    <3> QED BY <1>5, <3>1, Zenon
  <2> QED BY <1>1, <2>1, Zenon DEF InPlace
<1>10. \A a \in 0 .. file.len - 1 : mem'[a] = [OfFile(a) EXCEPT !.patched = (a = 0)]
  <2> TAKE a \in 0 .. file.len - 1
  <2>1. a \in 0 .. Top /\ a # LOAD_OFFSET
    BY <1>1, FileIs, PeLoaderAssumption
  <2>2. mem'[a] = IF a = 0 THEN [OfFile(a) EXCEPT !.patched = TRUE] ELSE OfFile(a)
    BY <1>1, <1>5, <2>1, Zenon
  <2>3. CASE a = 0
    <3>1. (a = 0) = TRUE
      BY <2>3, Zenon
    <3> QED BY <2>2, <2>3, <3>1, Zenon
  <2>4. CASE a # 0
    <3>1. (a = 0) = FALSE
      BY <2>4, Zenon
    <3>2. [OfFile(a) EXCEPT !.patched = FALSE] = OfFile(a)
      <4>1. OfFile(a) \in [from : {a}, relocated : {0}, patched : {FALSE}]
        BY Zenon DEF OfFile
      <4> QED BY <4>1, Zenon
    <3> QED BY <2>2, <2>4, <3>1, <3>2, Zenon
  <2> QED BY <2>3, <2>4, Zenon
<1> QED BY <1>1, <1>7, <1>8, <1>9, <1>10, Zenon DEF PeInv

\* Every step of the loader keeps the invariant.
LEMMA PeSteps == PeInv /\ [PeNext]_peVars => PeInv'
<1> SUFFICES ASSUME PeInv, [PeNext]_peVars PROVE PeInv'
  BY Zenon
<1>1. CASE CheckHeaders
  <2>1. UNCHANGED <<file, mem, i>> /\ pe_pc = "check" /\ pe_pc' \in {"headers", "refused"}
    BY <1>1, Zenon DEF CheckHeaders
  <2> QED BY <2>1, Zenon DEF PeInv, PeType, Fixed
<1>2. CASE CopyHeaders
  BY <1>2, PeHeaders, Zenon
<1>3. CASE CopySection
  BY <1>3, PeSection
<1>4. CASE SectionsDone
  BY <1>4, PeCopied, Zenon
<1>5. CASE RelocateBlock
  BY <1>5, PeRelocates, Zenon
<1>6. CASE RelocsDone
  BY <1>6, PeRelocated, Zenon
<1>7. CASE PatchImageBase
  BY <1>7, PePatches, Zenon
<1>8. CASE UNCHANGED peVars
  BY <1>8 DEF peVars, PeInv, PeType, Fixed, InPlace, AllFixed, Relocated, Applied
<1> QED BY <1>1, <1>2, <1>3, <1>4, <1>5, <1>6, <1>7, <1>8, Zenon DEF PeNext, Halt

\* The image that is entered has every section in place with zeros behind it and every
\* target relocated exactly once, and the file it came from is whole (format_pe and
\* apply_relocations): for every image a linker makes, of a file that ends below
\* load_base.
THEOREM ImageAlwaysFaithful == PeSpec => []ImageFaithful
<1>1. PeInv => ImageFaithful
  <2> SUFFICES ASSUME PeInv, pe_pc = "entered" PROVE ImageFaithful
    BY Zenon DEF ImageFaithful
  <2>1. PeType /\ InPlace(Len(file.sections)) /\ AllFixed
        /\ \A a \in 0 .. file.len - 1 : mem[a] = [OfFile(a) EXCEPT !.patched = (a = 0)]
    BY Zenon DEF PeInv
  <2>2. ASSUME NEW s \in DOMAIN file.sections, NEW a \in Extent(file.sections[s])
        PROVE  /\ mem[LOAD_OFFSET + a].from = Content(file.sections[s], a)
               /\ mem[LOAD_OFFSET + a].relocated = IF Relocated(a) THEN 1 ELSE 0
    <3>1. LOAD_OFFSET + a \in 0 .. Top /\ a \in Nat
      BY <2>1, SectionIs, Zenon
    <3>2. s =< Len(file.sections)
      BY <2>1, FileIs
    <3>4. mem[LOAD_OFFSET + a].from = Content(file.sections[s], a)
      BY <2>1, <3>2, Zenon DEF InPlace
    <3>5. PICK x \in 0 .. Top : x = LOAD_OFFSET + a /\ x - LOAD_OFFSET = a
      BY <3>1, PeLoaderAssumption
    <3>6. mem[x].relocated = IF Relocated(x - LOAD_OFFSET) THEN 1 ELSE 0
      BY <2>1, Zenon DEF AllFixed
    <3>7. mem[x].relocated = IF Relocated(a) THEN 1 ELSE 0
      BY <3>5, <3>6, Zenon
    <3> QED BY <3>4, <3>5, <3>7, Zenon
  <2> QED BY <2>1, <2>2, CellIs DEF ImageFaithful, Content
<1> QED BY <1>1, PeStart, PeSteps, PTL DEF PeSpec

-----------------------------------------------------------------------------
(***************************************************************************)
(* FirmwareHeap: the blocks of callers never overlap, and no byte of the   *)
(* heap is lost.                                                           *)
(***************************************************************************)

USE FirmwareHeapAssumption

Inv == TypeOK /\ BlocksApart /\ Tiled

\* A block has room for its header and for what was asked for.
LEMMA NeededEnough ==
  ASSUME NEW n \in Nat
  PROVE  Needed(n) \in Nat /\ Needed(n) >= HDR + n
BY DEF Needed, HDR

\* Taking the l-th block off the list leaves the others in their order.
LEMMA UnlinkFacts ==
  ASSUME TypeOK, NEW l \in 1 .. Len(free_list)
  PROVE  /\ Unlink(l) \in Seq(Addresses)
         /\ Len(Unlink(l)) = Len(free_list) - 1
         /\ \A j \in 1 .. Len(free_list) - 1 :
              Unlink(l)[j] = IF j < l THEN free_list[j] ELSE free_list[j + 1]
<1>1. Len(free_list) \in Nat /\ \A j \in 1 .. Len(free_list) : free_list[j] \in Addresses
  BY DEF TypeOK
<1>2. \A j \in 1 .. Len(free_list) - 1 : j \in 1 .. Len(free_list) /\ j + 1 \in 1 .. Len(free_list)
  BY <1>1
<1>3. QED
  BY <1>1, <1>2 DEF Unlink

\* Every member of the list but the l-th is still there, and no other.
LEMMA UnlinkMembers ==
  ASSUME TypeOK, BlocksApart, NEW l \in 1 .. Len(free_list), free_list' = Unlink(l)
  PROVE  Free' = Free \ {free_list[l]}
<1> DEFINE n == Len(free_list)
<1>1. n \in Nat /\ n >= 1 /\ l \in Nat /\ l >= 1 /\ l =< n
  BY DEF TypeOK
<1>2. /\ Len(free_list') = n - 1
      /\ \A j \in 1 .. n - 1 : free_list'[j] = IF j < l THEN free_list[j] ELSE free_list[j + 1]
  BY UnlinkFacts, Zenon
<1>3. ASSUME NEW a \in Free' PROVE a \in Free \ {free_list[l]}
  <2>1. PICK j \in 1 .. n - 1 : a = free_list'[j]
    BY <1>2, <1>3, Zenon DEF Free
  <2>2. CASE j < l
    <3>1. a = free_list[j] /\ j \in 1 .. n /\ j # l
      BY <1>1, <1>2, <2>1, <2>2
    <3>2. QED BY <3>1, Zenon DEF Free, BlocksApart
  <2>3. CASE ~(j < l)
    <3>1. a = free_list[j + 1] /\ j + 1 \in 1 .. n /\ j + 1 # l
      BY <1>1, <1>2, <2>1, <2>3
    <3>2. QED BY <3>1, Zenon DEF Free, BlocksApart
  <2>4. QED BY <2>2, <2>3, Zenon
<1>4. ASSUME NEW a \in Free, a # free_list[l] PROVE a \in Free'
  <2>1. PICK j \in 1 .. n : a = free_list[j]
    BY Zenon DEF Free
  <2>2. j # l /\ j \in Nat BY <2>1, <1>4, <1>1
  <2>3. CASE j < l
    <3>1. j \in 1 .. n - 1 /\ a = free_list'[j]
      BY <1>1, <1>2, <2>1, <2>3
    <3>2. QED BY <3>1, <1>2, Zenon DEF Free
  <2>4. CASE j > l
    <3>1. j - 1 \in 1 .. n - 1 /\ ~(j - 1 < l) /\ (j - 1) + 1 = j
      BY <1>1, <2>1, <2>4
    <3>2. a = free_list'[j - 1]
      BY <3>1, <1>2, <2>1, Zenon
    <3>3. QED BY <3>1, <3>2, <1>2, Zenon DEF Free
  <2>5. QED BY <2>2, <2>3, <2>4, <1>1
<1>5. QED BY <1>3, <1>4, Zenon

\* The list stays free of repetitions and of blocks given out.
LEMMA ReuseKeepsBlocks ==
  ASSUME TypeOK, BlocksApart, NEW n \in Nat, NEW l \in 1 .. Len(free_list), Reuse(n, l)
  PROVE  TypeOK' /\ BlocksApart' /\ Blocks' = Blocks
<1> DEFINE h == free_list[l]
<1>1. h \in Addresses /\ h \in Free /\ h \in Blocks /\ h \notin live
  <2>1. h \in Addresses
    BY DEF TypeOK
  <2>2. h \in Free
    BY Zenon DEF Free
  <2>3. QED BY <2>1, <2>2, Zenon DEF Blocks, BlocksApart
<1>2. Free' = Free \ {h} /\ live' = live \cup {h}
  BY UnlinkMembers, Zenon DEF Reuse
<1>3. Blocks' = Blocks
  BY <1>1, <1>2, Zenon DEF Blocks
<1>4. TypeOK'
  <2>1. free_list' \in Seq(Addresses)
    BY UnlinkFacts, Zenon DEF Reuse
  <2>2. QED BY <1>1, <2>1, Zenon DEF TypeOK, Reuse
<1>5. \A g \in live' : HDR + asked'[g] =< size'[g]
  <2>0. size[h] \in Nat /\ size[h] >= Needed(n)
    BY <1>1, Zenon DEF Reuse, Fits, TypeOK
  <2>1. size[h] >= HDR + n
    <3>1. Needed(n) \in Nat /\ Needed(n) >= HDR + n
      BY NeededEnough, Zenon
    <3>2. QED BY <2>0, <3>1 DEF HDR
  <2>2. ASSUME NEW g \in live' PROVE HDR + asked'[g] =< size'[g]
    <3>1. CASE g = h
      BY <2>1, <3>1, <1>1, Zenon DEF Reuse, TypeOK, HDR
    <3>2. CASE g # h
      <4>1. g \in live /\ asked'[g] = asked[g] /\ size' = size
        BY <3>2, <1>2, <1>1, Zenon DEF Reuse, TypeOK
      <4>2. QED BY <4>1, Zenon DEF BlocksApart
    <3>3. QED BY <3>1, <3>2, Zenon
  <2>3. QED BY <2>2, Zenon
<1>6. ASSUME NEW j \in 1 .. Len(free_list')
      PROVE  /\ free_list'[j] \notin live'
             /\ \A k \in 1 .. Len(free_list') : free_list'[j] = free_list'[k] => j = k
  <2> DEFINE m == Len(free_list)
             at(x) == IF x < l THEN x ELSE x + 1
  <2>0. m \in Nat /\ l \in Nat
    BY DEF TypeOK
  <2>1. Len(free_list') = m - 1
    BY UnlinkFacts, Zenon DEF Reuse
  <2>2. \A x \in 1 .. m - 1 : free_list'[x] = free_list[at(x)] /\ at(x) \in 1 .. m /\ at(x) # l
    <3>1. \A x \in 1 .. m - 1 : at(x) \in 1 .. m /\ at(x) # l
      BY <2>0
    <3>2. \A x \in 1 .. m - 1 : free_list'[x] = IF x < l THEN free_list[x] ELSE free_list[x + 1]
      BY UnlinkFacts, Zenon DEF Reuse
    <3>3. \A x \in 1 .. m - 1 : free_list'[x] = free_list[at(x)]
      BY <3>2, Zenon
    <3>4. QED BY <3>1, <3>3, Zenon
  <2>3. free_list[at(j)] # h /\ free_list[at(j)] \notin live
    BY <2>1, <2>2, Zenon DEF BlocksApart
  <2>4. free_list'[j] \notin live'
    BY <2>1, <2>2, <2>3, <1>2, Zenon
  <2>5. ASSUME NEW k \in 1 .. m - 1, free_list'[j] = free_list'[k] PROVE j = k
    <3>1. at(j) = at(k)
      <4>1. free_list[at(j)] = free_list[at(k)] /\ at(j) \in 1 .. m /\ at(k) \in 1 .. m
        BY <2>1, <2>2, <2>5
      <4> HIDE DEF at
      <4>2. QED BY <4>1 DEF BlocksApart
    <3>2. QED BY <3>1, <2>1, <2>0
  <2>6. QED BY <2>1, <2>4, <2>5, Zenon
<1>7. /\ \A g \in Blocks' : size'[g] >= HDR /\ g + size'[g] =< heap_ptr'
      /\ \A g, k \in Blocks' : g # k => (k + size'[k] =< g \/ g + size'[g] =< k)
  BY <1>3, Zenon DEF BlocksApart, Reuse
<1>8. QED BY <1>3, <1>4, <1>5, <1>6, <1>7, Zenon DEF BlocksApart

\* A new block starts where all others end.
LEMMA BumpKeepsBlocks ==
  ASSUME TypeOK, BlocksApart, NEW n \in Nat, Bump(n)
  PROVE  /\ TypeOK' /\ BlocksApart'
         /\ Blocks' = Blocks \cup {heap_ptr} /\ heap_ptr \notin Blocks
<1>1. Needed(n) \in Nat /\ Needed(n) >= HDR + n /\ Needed(n) >= 16
  BY NeededEnough DEF HDR
<1>2. heap_ptr \in Addresses /\ heap_ptr \in Nat /\ heap_ptr' \in Addresses /\ heap_ptr' = heap_ptr + Needed(n)
  <2>1. heap_ptr \in Addresses
    BY Zenon DEF TypeOK
  <2>2. heap_ptr' = heap_ptr + Needed(n) /\ heap_ptr + Needed(n) =< HEAP_END
    BY Zenon DEF Bump
  <2>3. QED BY <1>1, <2>1, <2>2 DEF Addresses
<1>3. TypeOK'
  BY <1>1, <1>2, Zenon DEF TypeOK, Bump
<1>4. Free' = Free /\ Blocks' = Blocks \cup {heap_ptr}
  BY Zenon DEF Free, Blocks, Bump
<1>5. \A g \in Blocks : g \in Addresses /\ g \in Nat /\ size[g] \in Nat /\ size[g] >= 16 /\ g + size[g] =< heap_ptr
  <2>1. Blocks \subseteq Addresses
    BY DEF TypeOK, Blocks, Free
  <2>2. \A g \in Blocks : size[g] >= 16 /\ g + size[g] =< heap_ptr
    BY Zenon DEF BlocksApart, HDR
  <2>3. \A g \in Blocks : size[g] \in Nat /\ g \in Nat
    BY <2>1 DEF TypeOK, Addresses
  <2>4. QED BY <2>1, <2>2, <2>3, Zenon
<1>6. heap_ptr \notin Blocks
  BY <1>2, <1>5
<1>7. size'[heap_ptr] = Needed(n) /\ asked'[heap_ptr] = n
  BY <1>2, Zenon DEF TypeOK, Bump
<1>8. \A g \in Blocks : size'[g] = size[g] /\ asked'[g] = asked[g]
  BY <1>5, <1>6, Zenon DEF TypeOK, Bump
<1>9. \A g \in Blocks' : size'[g] >= HDR /\ g + size'[g] =< heap_ptr'
  BY <1>1, <1>2, <1>4, <1>5, <1>7, <1>8 DEF HDR
<1>10. \A g, k \in Blocks' : g # k => (k + size'[k] =< g \/ g + size'[g] =< k)
  <2>1. \A g, k \in Blocks : g # k => (k + size'[k] =< g \/ g + size'[g] =< k)
    BY <1>8, Zenon DEF BlocksApart
  <2>2. \A g \in Blocks : g + size'[g] =< heap_ptr
    BY <1>5, <1>8, Zenon
  <2>3. QED BY <1>4, <2>1, <2>2, Zenon
<1>11. \A g \in live' : HDR + asked'[g] =< size'[g]
  <2>1. live \subseteq Blocks /\ live' = live \cup {heap_ptr}
    BY Zenon DEF Blocks, Bump
  <2>2. \A g \in live : HDR + asked'[g] =< size'[g]
    BY <2>1, <1>8, Zenon DEF BlocksApart
  <2>3. QED BY <2>1, <2>2, <1>1, <1>7, Zenon DEF HDR
<1>12. \A l \in 1 .. Len(free_list') :
         /\ free_list'[l] \notin live'
         /\ \A j \in 1 .. Len(free_list') : free_list'[l] = free_list'[j] => l = j
  <2>1. free_list' = free_list /\ live' = live \cup {heap_ptr} /\ heap_ptr \notin Free
    BY <1>6, Zenon DEF Bump, Blocks
  <2>2. QED BY <2>1, Zenon DEF BlocksApart, Free
<1>13. QED BY <1>3, <1>4, <1>6, <1>9, <1>10, <1>11, <1>12, Zenon DEF BlocksApart

\* A block that is freed goes to the head of the list and to no other place.
LEMMA FreeKeepsBlocks ==
  ASSUME TypeOK, BlocksApart, NEW h \in live, free(h)
  PROVE  TypeOK' /\ BlocksApart' /\ Blocks' = Blocks
<1> DEFINE m == Len(free_list)
<1>1. h \in Addresses /\ m \in Nat /\ h \in Blocks
  BY DEF TypeOK, Blocks
<1>2. /\ free_list' \in Seq(Addresses) /\ Len(free_list') = m + 1
      /\ free_list'[1] = h /\ \A j \in 2 .. m + 1 : free_list'[j] = free_list[j - 1]
  BY <1>1, SMTT(30) DEF free, TypeOK
<1>3. TypeOK'
  BY <1>1, <1>2, Zenon DEF TypeOK, free
<1>4. Free' = Free \cup {h}
  <2>1. ASSUME NEW a \in Free' PROVE a \in Free \cup {h}
    <3>1. PICK j \in 1 .. m + 1 : a = free_list'[j]
      BY <1>2, <2>1, Zenon DEF Free
    <3>2. CASE j = 1
      BY <3>1, <3>2, <1>2, Zenon
    <3>3. CASE j # 1
      <4>1. j \in 2 .. m + 1 /\ j - 1 \in 1 .. m
        BY <3>3, <1>1
      <4>2. QED BY <3>1, <4>1, <1>2 DEF Free
    <3>4. QED BY <3>2, <3>3, Zenon
  <2>2. ASSUME NEW a \in Free PROVE a \in Free'
    <3>1. PICK j \in 1 .. m : a = free_list[j]
      BY Zenon DEF Free
    <3>2. j + 1 \in 2 .. m + 1 /\ j + 1 \in 1 .. m + 1 /\ (j + 1) - 1 = j
      BY <1>1
    <3>3. QED BY <3>1, <3>2, <1>2, Zenon DEF Free
  <2>3. h \in Free'
    <3>1. 1 \in 1 .. Len(free_list')
      BY <1>1, <1>2
    <3>2. QED BY <3>1, <1>2, Zenon DEF Free
  <2>4. QED BY <2>1, <2>2, <2>3, Zenon
<1>5. live' = live \ {h} /\ Blocks' = Blocks
  BY <1>4, Zenon DEF free, Blocks
<1>6. \A g \in live' : HDR + asked'[g] =< size'[g]
  <2>1. ASSUME NEW g \in live' PROVE HDR + asked'[g] =< size'[g]
    <3>1. g \in live /\ g # h /\ size' = size /\ asked'[g] = asked[g]
      BY <2>1, <1>5, Zenon DEF free, TypeOK
    <3>2. QED BY <3>1, Zenon DEF BlocksApart
  <2>2. QED BY <2>1, Zenon
<1>7. ASSUME NEW l \in 1 .. m + 1
      PROVE  /\ free_list'[l] \notin live'
             /\ \A j \in 1 .. m + 1 : free_list'[l] = free_list'[j] => l = j
  <2>1. \A j \in 2 .. m + 1 : j - 1 \in 1 .. m /\ free_list'[j] = free_list[j - 1]
    BY <1>1, <1>2
  <2>2. \A j \in 2 .. m + 1 : free_list'[j] # h /\ free_list'[j] \notin live
    BY <2>1 DEF BlocksApart
  <2>3. l = 1 \/ l \in 2 .. m + 1
    BY <1>1
  <2>4. free_list'[l] \notin live'
    BY <2>2, <2>3, <1>2, <1>5, Zenon
  <2>5. ASSUME NEW j \in 1 .. m + 1, free_list'[l] = free_list'[j] PROVE l = j
    <3>1. j = 1 \/ j \in 2 .. m + 1
      BY <1>1
    <3>2. CASE l = 1 \/ j = 1
      BY <3>1, <3>2, <2>2, <2>3, <2>5, <1>2, Zenon
    <3>3. CASE l \in 2 .. m + 1 /\ j \in 2 .. m + 1
      <4>1. l - 1 = j - 1
        BY <3>3, <2>1, <2>5, Zenon DEF BlocksApart
      <4>2. QED BY <4>1, <3>3, <1>1
    <3>4. QED BY <3>1, <3>2, <3>3, <2>3, Zenon
  <2>6. QED BY <2>4, <2>5, Zenon
<1>8. /\ \A g \in Blocks' : size'[g] >= HDR /\ g + size'[g] =< heap_ptr'
      /\ \A g, k \in Blocks' : g # k => (k + size'[k] =< g \/ g + size'[g] =< k)
  BY <1>5, Zenon DEF BlocksApart, free
<1>9. QED BY <1>2, <1>3, <1>5, <1>6, <1>7, <1>8, Zenon DEF BlocksApart

\* A fresh heap has no block.
LEMMA InitInv == Init => Inv
<1> SUFFICES ASSUME Init PROVE Inv
  BY Zenon
<1>1. HEAP_START \in Addresses
  BY DEF Addresses
<1>2. TypeOK
  BY <1>1 DEF Init, TypeOK
<1>3. Len(free_list) = 0 /\ Blocks = {} /\ live = {}
  BY DEF Init, Blocks, Free
<1>4. BlocksApart
  BY <1>3 DEF BlocksApart
<1>5. Tiled
  BY DEF Init, Tiled
<1>6. QED BY <1>2, <1>4, <1>5, Zenon DEF Inv

\* malloc and free preserve the invariant.
LEMMA NextInv == Inv /\ [Next]_vars => Inv'
<1> SUFFICES ASSUME Inv, [Next]_vars PROVE Inv'
  BY Zenon
<1> USE DEF Inv
<1>1. ASSUME NEW n \in Sizes, Bump(n) PROVE Inv'
  <2>1. /\ TypeOK' /\ BlocksApart'
        /\ Blocks' = Blocks \cup {heap_ptr} /\ heap_ptr \notin Blocks
    BY <1>1, BumpKeepsBlocks, Zenon
  <2>2. Needed(n) \in Nat /\ heap_ptr \in Nat /\ heap_ptr' = heap_ptr + Needed(n)
    BY <1>1, NeededEnough DEF Bump, TypeOK, Addresses
  <2>3. size'[heap_ptr] = Needed(n) /\ \A g \in Blocks : size'[g] = size[g]
    BY <1>1, <2>1 DEF Bump, TypeOK
  <2>4. ASSUME NEW a \in HEAP_START .. heap_ptr' - 1
        PROVE  \E h \in Blocks' : h =< a /\ a < h + size'[h]
    <3>1. CASE a < heap_ptr
      <4>1. PICK h \in Blocks : h =< a /\ a < h + size[h]
        BY <3>1, <2>2 DEF Tiled
      <4>2. QED BY <4>1, <2>1, <2>3, Zenon
    <3>2. CASE ~(a < heap_ptr)
      <4>1. heap_ptr =< a /\ a < heap_ptr + size'[heap_ptr]
        BY <3>2, <2>2, <2>3
      <4>2. QED BY <4>1, <2>1, Zenon
    <3>3. QED BY <3>1, <3>2, Zenon
  <2>5. QED BY <2>1, <2>4, Zenon DEF Tiled
<1>2. ASSUME NEW n \in Sizes, NEW l \in 1 .. Len(free_list), Reuse(n, l) PROVE Inv'
  <2>1. TypeOK' /\ BlocksApart' /\ Blocks' = Blocks
    BY <1>2, ReuseKeepsBlocks, Zenon
  <2>2. QED BY <1>2, <2>1, Zenon DEF Tiled, Reuse
<1>3. ASSUME NEW h \in live, free(h) PROVE Inv'
  <2>1. TypeOK' /\ BlocksApart' /\ Blocks' = Blocks
    BY <1>3, FreeKeepsBlocks, Zenon
  <2>2. QED BY <1>3, <2>1, Zenon DEF Tiled, free
<1>4. CASE UNCHANGED vars
  <2>1. UNCHANGED <<heap_ptr, free_list, size, live, asked>>
    BY <1>4, Zenon DEF vars
  <2>2. TypeOK'
    BY <2>1, Zenon DEF TypeOK
  <2>3. Blocks' = Blocks
    BY <2>1, Zenon DEF Blocks, Free
  <2>4. BlocksApart'
    BY <2>1, <2>3, Zenon DEF BlocksApart
  <2>5. Tiled'
    BY <2>1, <2>3, Zenon DEF Tiled
  <2>6. QED BY <2>2, <2>4, <2>5, Zenon
<1>5. QED BY <1>1, <1>2, <1>3, <1>4, Zenon DEF Next, malloc

\* The inductive invariant: types, blocks lying apart, and no byte lost.
THEOREM Invariance == Spec => []Inv
BY InitInv, NextInv, PTL DEF Spec

\* The heap's pointers and sizes stay within the heap's region, whatever is
\* asked for and freed.
THEOREM TypeCorrect == Spec => []TypeOK
<1>1. Inv => TypeOK BY Zenon DEF Inv
<1>2. QED BY <1>1, Invariance, PTL

\* Blocks never overlap, and the free list never holds a block twice or one that
\* is in use: malloc and free keep the list and the bump pointer consistent.
THEOREM BlocksStayApart == Spec => []BlocksApart
<1>1. Inv => BlocksApart BY Zenon DEF Inv
<1>2. QED BY <1>1, Invariance, PTL

\* What malloc gave to a caller lies in the heap and overlaps no other block,
\* its header included.
THEOREM LiveStayApart == Spec => []LiveApart
<1>1. Inv => LiveApart
  <2> SUFFICES ASSUME Inv PROVE LiveApart
    BY Zenon
  <2>1. TypeOK /\ BlocksApart BY Zenon DEF Inv
  <2>2. ASSUME NEW h \in live
        PROVE  /\ HEAP_START =< h /\ h + HDR + asked[h] =< HEAP_END
               /\ \A g \in Blocks : g # h => (h + HDR + asked[h] =< g \/ g + size[g] =< h)
    <3>1. h \in Blocks /\ h \in Addresses /\ h \in Nat /\ asked[h] \in Nat /\ size[h] \in Nat
      BY <2>1 DEF TypeOK, Blocks, Addresses
    <3>2. HDR + asked[h] =< size[h] /\ h + size[h] =< heap_ptr /\ heap_ptr \in HEAP_START .. HEAP_END
      BY <2>1, <3>1, Zenon DEF BlocksApart, TypeOK, Addresses
    <3>3. HEAP_START =< h /\ h + HDR + asked[h] =< HEAP_END
      BY <3>1, <3>2 DEF HDR, Addresses
    <3>4. ASSUME NEW g \in Blocks, g # h
          PROVE  h + HDR + asked[h] =< g \/ g + size[g] =< h
      <4>1. h + size[h] =< g \/ g + size[g] =< h
        BY <2>1, <3>1, <3>4, Zenon DEF BlocksApart
      <4>2. g \in Nat
        <5>1. g \in Addresses
          BY <2>1 DEF TypeOK, Blocks, Free
        <5>2. QED BY <5>1 DEF Addresses
      <4>3. QED BY <4>1, <4>2, <3>1, <3>2 DEF HDR
    <3>5. QED BY <3>3, <3>4, Zenon
  <2>3. QED BY <2>2, Zenon DEF LiveApart
<1>2. QED BY <1>1, Invariance, PTL

\* Every byte below the bump pointer stays in a block that is in use or on the
\* free list: freeing and reusing loses no memory.
THEOREM NothingLost == Spec => []Tiled
<1>1. Inv => Tiled BY Zenon DEF Inv
<1>2. QED BY <1>1, Invariance, PTL

HIDE FirmwareHeapAssumption

-----------------------------------------------------------------------------
(***************************************************************************)
(* BootServices, for any layout of the machine, any size of RAM and any    *)
(* number and sizes of allocations.                                        *)
(***************************************************************************)

USE BootServicesAssumption

Allocs == [how : {"address", "max", "any"}, start : Int, end : Int]

\* The page pointer is past everything it has given out; the map key counts the
\* allocations, and a loader's key is one more than those before it.
PagesInv ==
  /\ allocs \in Seq(Allocs) /\ ram_end \in Nat /\ pg_bump \in Nat /\ HEAP_END_PAGE =< pg_bump
  /\ \A n \in DOMAIN allocs : allocs[n].how = "any" => allocs[n].end =< pg_bump
  /\ AnyPagesApart
KeyInv ==
  /\ pools \in Nat /\ map_key = Made + 1
  /\ key_at \in Nat /\ (key = 0 \/ key = key_at + 1)

\* The top of RAM in the memory map changes only with the end of RAM.
LEMMA RamTopFixed == UNCHANGED ram_end => memmap_ram_top' = memmap_ram_top
BY Zenon DEF memmap_ram_top, Conventional, inject_memmap, MemMap

\* The page pool and the map key are right when boot services start.
LEMMA ServicesStart == ServicesInit => PagesInv /\ KeyInv
BY DEF ServicesInit, PagesInv, KeyInv, AnyPagesApart, Made

\* One more allocation above the floor; without a place it is put at the pointer,
\* which moves behind it.
LEMMA GrantedKeeps ==
  ASSUME PagesInv, NEW how \in {"address", "max", "any"}, NEW addr \in Nat,
         NEW pages \in Nat, Granted(how, addr, pages), addr >= FLOOR,
         \/ how = "any" /\ addr = pg_bump /\ pg_bump' = pg_bump + pages
         \/ how # "any" /\ UNCHANGED pg_bump
  PROVE  PagesInv'
<1> DEFINE a == [how |-> how, start |-> addr, end |-> addr + pages]
<1>1. /\ allocs' = Append(allocs, a) /\ allocs \in Seq(Allocs) /\ a \in Allocs
      /\ ram_end' = ram_end /\ a.end =< memmap_ram_top
  BY DEF Granted, PagesInv, Allocs
<1>2. /\ allocs' \in Seq(Allocs) /\ Len(allocs) \in Nat
      /\ DOMAIN allocs = 1 .. Len(allocs) /\ DOMAIN allocs' = 1 .. Len(allocs) + 1
      /\ \A n \in DOMAIN allocs : allocs'[n] = allocs[n]
      /\ \A n \in DOMAIN allocs : allocs[n] \in Allocs
      /\ allocs'[Len(allocs) + 1] = a
  BY <1>1
<1>3. /\ ram_end' \in Nat /\ pg_bump' \in Nat /\ pg_bump \in Nat
      /\ HEAP_END_PAGE =< pg_bump' /\ pg_bump =< pg_bump'
  BY <1>1 DEF PagesInv
<1>a. a.how = how /\ a.start = addr /\ a.end = addr + pages
  BY Zenon
<1>b. \A n \in DOMAIN allocs : /\ allocs[n].start \in Int /\ allocs[n].end \in Int
                               /\ allocs[n].how = "any" => allocs[n].end =< pg_bump
  BY <1>2, Zenon DEF PagesInv, Allocs
<1>c. \A n \in DOMAIN allocs' : n \in DOMAIN allocs \/ n = Len(allocs) + 1
  BY <1>2
<1> HIDE DEF a
<1>4. \A n \in DOMAIN allocs' : allocs'[n].how = "any" => allocs'[n].end =< pg_bump'
  <2> TAKE n \in DOMAIN allocs'
  <2>1. CASE n \in DOMAIN allocs
    BY <1>2, <1>3, <1>b, <2>1, SMTT(30)
  <2>2. CASE n = Len(allocs) + 1
    BY <1>2, <1>3, <1>a, <2>2
  <2> QED  BY <1>c, <2>1, <2>2, Zenon
<1>5. \A n \in DOMAIN allocs' :
        FLOOR =< allocs'[n].start /\ allocs'[n].end =< memmap_ram_top
  BY <1>1, <1>2, <1>a, <1>c DEF PagesInv, AnyPagesApart
<1>6. \A n, j \in DOMAIN allocs' : (allocs'[n].how = "any" /\ allocs'[j].how = "any") =>
        /\ HEAP_END_PAGE =< allocs'[n].start
        /\ n < j => allocs'[n].end =< allocs'[j].start
  <2> SUFFICES ASSUME NEW n \in DOMAIN allocs', NEW j \in DOMAIN allocs',
                      allocs'[n].how = "any", allocs'[j].how = "any"
               PROVE  /\ HEAP_END_PAGE =< allocs'[n].start
                      /\ n < j => allocs'[n].end =< allocs'[j].start
    BY Zenon
  <2>0. \A k, l \in DOMAIN allocs : (allocs[k].how = "any" /\ allocs[l].how = "any") =>
          /\ HEAP_END_PAGE =< allocs[k].start
          /\ k < l => allocs[k].end =< allocs[l].start
    BY Zenon  DEF PagesInv, AnyPagesApart
  <2>1. CASE n \in DOMAIN allocs /\ j \in DOMAIN allocs
    BY <1>2, <2>0, <2>1
  <2>2. CASE n \in DOMAIN allocs /\ j = Len(allocs) + 1
    BY <1>2, <1>3, <1>a, <1>b, <2>0, <2>2, SMTT(30)
  <2>3. CASE n = Len(allocs) + 1
    <3>1. HEAP_END_PAGE =< allocs'[n].start
      BY <1>2, <1>a, <2>3, Zenon DEF PagesInv
    <3>2. ~(n < j)
      BY <1>2, <2>3
    <3> QED  BY <3>1, <3>2, Zenon
  <2> QED  BY <1>c, <2>1, <2>2, <2>3
<1>7. AnyPagesApart'
  BY <1>1, <1>5, <1>6, RamTopFixed, Zenon DEF AnyPagesApart
<1> QED  BY <1>2, <1>3, <1>4, <1>7, Zenon DEF PagesInv

\* Every boot service keeps the ranges handed out apart and inside the pool.
LEMMA PagesStep == PagesInv /\ [ServicesNext]_servicesVars => PagesInv'
<1> SUFFICES ASSUME PagesInv, [ServicesNext]_servicesVars PROVE PagesInv'
  BY Zenon
<1>1. ASSUME NEW pages \in Lengths, NEW addr \in 0 .. ram_end, AllocateAddress(pages, addr)
      PROVE  PagesInv'
  <2>1. addr \in Nat /\ addr >= FLOOR /\ pages \in Nat
    <3>1. addr >= FLOOR
      BY <1>1, Zenon DEF AllocateAddress
    <3>2. addr \in Nat /\ pages \in Nat
      BY DEF PagesInv
    <3> QED  BY <3>1, <3>2, Zenon
  <2>2. Granted("address", addr, pages) /\ UNCHANGED pg_bump
    BY <1>1, Zenon DEF AllocateAddress
  <2> QED  BY <2>1, <2>2, GrantedKeeps, Zenon
<1>2. ASSUME NEW pages \in Lengths, NEW max \in 0 .. ram_end, AllocateMaxAddress(pages, max)
      PROVE  PagesInv'
  <2> DEFINE at == IF max - pages < FLOOR THEN FLOOR ELSE max - pages
  <2>1. at \in Nat /\ at >= FLOOR /\ pages \in Nat
    <3>1. max >= pages
      BY <1>2, Zenon DEF AllocateMaxAddress
    <3>2. max \in Nat /\ pages \in Nat
      BY DEF PagesInv
    <3> QED  BY <3>1, <3>2
  <2>2. Granted("max", at, pages) /\ UNCHANGED pg_bump
    BY <1>2, Zenon DEF AllocateMaxAddress
  <2> HIDE DEF at
  <2> QED  BY <2>1, <2>2, GrantedKeeps, Zenon
<1>3. ASSUME NEW pages \in Lengths, AllocateAnyPages(pages)
      PROVE  PagesInv'
  <2>1. pg_bump \in Nat /\ pg_bump >= FLOOR /\ pages \in Nat
    <3>1. pg_bump \in Nat /\ HEAP_END_PAGE =< pg_bump
      BY Zenon DEF PagesInv
    <3> QED  BY <3>1
  <2> QED  BY <1>3, <2>1, GrantedKeeps, Zenon DEF AllocateAnyPages
<1>4. CASE UNCHANGED <<ram_end, pg_bump, allocs>>
  BY <1>4, RamTopFixed, Zenon DEF PagesInv, AnyPagesApart
<1> QED
  BY <1>1, <1>2, <1>3, <1>4, Zenon
  DEF ServicesNext, AllocatePool, GetMemoryMap, ExitBootServices, servicesVars

\* Every boot service keeps the map key in step with the allocations made.
LEMMA KeyStep == PagesInv /\ KeyInv /\ [ServicesNext]_servicesVars => KeyInv'
<1> SUFFICES ASSUME PagesInv, KeyInv, [ServicesNext]_servicesVars PROVE KeyInv'
  BY Zenon
<1>1. ASSUME NEW how, NEW addr, NEW pages, Granted(how, addr, pages) PROVE KeyInv'
  <2>1. Len(allocs) \in Nat /\ Len(allocs') = Len(allocs) + 1
    BY <1>1 DEF Granted, PagesInv
  <2> QED  BY <1>1, <2>1 DEF Granted, KeyInv, Made
<1>2. CASE AllocatePool
  <2>1. Len(allocs) \in Nat
    BY DEF PagesInv
  <2> QED  BY <1>2, <2>1 DEF AllocatePool, KeyInv, Made
<1>3. CASE GetMemoryMap
  <2>1. Len(allocs) \in Nat
    BY DEF PagesInv
  <2> QED  BY <1>3, <2>1 DEF GetMemoryMap, KeyInv, Made
<1>4. CASE UNCHANGED <<allocs, pools, map_key, key, key_at>>
  BY <1>4, Zenon DEF KeyInv, Made
<1> QED
  BY <1>1, <1>2, <1>3, <1>4, Zenon
  DEF ServicesNext, AllocateAddress, AllocateMaxAddress, AllocateAnyPages, ExitBootServices,
      servicesVars

\* Both hold throughout.
LEMMA ServicesInvariant == ServicesSpec => [](PagesInv /\ KeyInv)
BY ServicesStart, PagesStep, KeyStep, PTL DEF ServicesSpec

\* With any layout and any RAM, however many allocations of the three kinds are made:
\* all pages lie in RAM above the firmware's image, and those efi_AllocatePages places
\* by its pointer lie apart from one another and above the heap.
THEOREM PagesStayApart == ServicesSpec => []AnyPagesApart
<1>1. PagesInv => AnyPagesApart
  BY Zenon DEF PagesInv
<1> QED  BY ServicesInvariant, <1>1, PTL

\* Every successful efi_ExitBootServices is for a loader whose map is younger than
\* its last allocation: the key counts allocations of both kinds and never repeats.
THEOREM ExitIsCurrent == ServicesSpec => ExitKeepsMapCurrent
<1>1. PagesInv /\ KeyInv => [ExitBootServices => key_at = Made]_servicesVars
  <2> SUFFICES ASSUME PagesInv, KeyInv, ExitBootServices PROVE key_at = Made
    BY Zenon
  <2>1. Len(allocs) \in Nat
    BY DEF PagesInv
  <2> QED  BY <2>1 DEF ExitBootServices, KeyInv, Made
<1> QED  BY ServicesInvariant, <1>1, PTL DEF ExitKeepsMapCurrent

HIDE BootServicesAssumption

-----------------------------------------------------------------------------
(***************************************************************************)
(* ProtocolDb: an interface once found is found again, whatever is         *)
(* installed. The invariant is that what is looked up has a first entry: a *)
(* row installed goes behind it.                                           *)
(***************************************************************************)

Rows == [handle : Handles,
         guid : Guids \cup {"BlockIo", "DevicePath", "SimpleFileSystem"},
         iface : Ifaces \cup {gLoadedImageInstance, "gBlockIo", "gDiskPath", "gSfsp"}]

HasFirst(S) == S # {} => \E x \in S : \A y \in S : x =< y

Picked(handle, guid) == {k \in With(guid) : gProtocolDB[k].handle = handle}

\* What is looked up has a first entry.  A step adds at most one row, at the end.
ProtocolInv ==
  /\ gProtocolDB \in Seq(Rows)
  /\ \A guid \in Guids : /\ HasFirst(With(guid))
                         /\ \A handle \in Handles : HasFirst(Picked(handle, guid))

\* An entry behind the others takes nothing from the first of them.
LEMMA FirstKept ==
  ASSUME NEW N \in Nat, NEW S, S \subseteq 1 .. N, HasFirst(S), NEW T, T = S \/ T = S \cup {N + 1}
  PROVE  /\ HasFirst(T)
         /\ S # {} => T # {} /\ Min(S) \in S /\ Min(T) = Min(S)
<1>1. CASE S = {}
  <2>1. T = {} \/ T = {N + 1}
    BY <1>1, Zenon
  <2>2. N + 1 =< N + 1
    OBVIOUS
  <2> QED  BY <1>1, <2>1, <2>2, Zenon DEF HasFirst
<1>2. CASE S # {}
  <2>1. PICK x \in S : \A y \in S : x =< y
    BY <1>2, Zenon DEF HasFirst
  <2>2. x \in T /\ \A y \in T : x =< y
    <3>1. x \in 1 .. N
      BY <2>1, Zenon
    <3>2. x =< N + 1
      BY <3>1
    <3>3. \A y \in T : y \in S \/ y = N + 1
      BY Zenon
    <3> QED  BY <2>1, <3>2, <3>3, Zenon
  <2>3. ASSUME NEW U \in {S, T}, NEW z \in U, \A y \in U : z =< y
        PROVE  z = x
    <3>1. z =< x /\ x =< z /\ z \in Int /\ x \in Int
      BY <2>1, <2>2, <2>3
    <3> QED  BY <3>1
  <2>4. Min(S) = x
    BY <2>1, <2>3, Zenon DEF Min
  <2>5. Min(T) = x
    BY <2>2, <2>3, Zenon DEF Min
  <2> QED  BY <2>2, <2>4, <2>5, Zenon DEF HasFirst
<1> QED  BY <1>1, <1>2, Zenon

\* The handle database is sound when empty.
LEMMA ProtocolStarts == ProtocolInit => ProtocolInv
<1> SUFFICES ASSUME ProtocolInit PROVE ProtocolInv
  BY Zenon
<1>1. /\ Len(gProtocolDB) = 4 /\ DOMAIN gProtocolDB = 1 .. 4
      /\ gProtocolDB[1] = Entry(Image, LoadedImage, gLoadedImageInstance)
      /\ gProtocolDB[2] = Entry(Disk, "BlockIo", "gBlockIo")
      /\ gProtocolDB[3] = Entry(Disk, "DevicePath", "gDiskPath")
      /\ gProtocolDB[4] = Entry(Disk, "SimpleFileSystem", "gSfsp")
  BY DEF ProtocolInit
<1>2. \A k \in 1 .. 4 : gProtocolDB[k] \in Rows
  BY <1>1, ProtocolDbAssumption DEF Entry, Rows, Handles, Image, Disk
<1>3. gProtocolDB \in Seq(Rows)
  <2>1. gProtocolDB = [k \in 1 .. 4 |-> gProtocolDB[k]]
    BY <1>1 DEF ProtocolInit
  <2> HIDE DEF ProtocolInit
  <2> QED  BY <1>2, <2>1, IsASeq
<1>4. ASSUME NEW S, S \subseteq 1 .. 4 PROVE HasFirst(S)
  <2>1. CASE 1 \in S
    BY <1>4, <2>1 DEF HasFirst
  <2>2. CASE 1 \notin S /\ 2 \in S
    BY <1>4, <2>2 DEF HasFirst
  <2>3. CASE 1 \notin S /\ 2 \notin S /\ 3 \in S
    BY <1>4, <2>3 DEF HasFirst
  <2>4. CASE 1 \notin S /\ 2 \notin S /\ 3 \notin S
    <3>1. \A y \in S : y = 4
      BY <1>4, <2>4
    <3> QED  BY <3>1 DEF HasFirst
  <2> QED  BY <2>1, <2>2, <2>3, <2>4, Zenon
<1>5. \A guid, handle : With(guid) \subseteq 1 .. 4 /\ Picked(handle, guid) \subseteq 1 .. 4
  BY <1>1 DEF With, Picked
<1> QED  BY <1>3, <1>4, <1>5, Zenon DEF ProtocolInv

\* What an installation does to a lookup.
LEMMA Installed ==
  ASSUME ProtocolInv, NEW row \in Rows, gProtocolDB' = Append(gProtocolDB, row)
  PROVE  /\ gProtocolDB' \in Seq(Rows)
         /\ \A k \in DOMAIN gProtocolDB : gProtocolDB'[k] = gProtocolDB[k]
         /\ Len(gProtocolDB) \in Nat /\ DOMAIN gProtocolDB = 1 .. Len(gProtocolDB)
         /\ \A guid : \/ With(guid)' = With(guid)
                      \/ With(guid)' = With(guid) \cup {Len(gProtocolDB) + 1}
         /\ \A handle, guid : \/ Picked(handle, guid)' = Picked(handle, guid)
                              \/ Picked(handle, guid)' = Picked(handle, guid) \cup {Len(gProtocolDB) + 1}
<1> DEFINE N == Len(gProtocolDB)
<1>1. gProtocolDB \in Seq(Rows)
  BY Zenon DEF ProtocolInv
<1>2. /\ N \in Nat /\ DOMAIN gProtocolDB = 1 .. N
      /\ gProtocolDB' \in Seq(Rows) /\ DOMAIN gProtocolDB' = 1 .. N + 1
      /\ \A k \in 1 .. N : gProtocolDB'[k] = gProtocolDB[k]
      /\ gProtocolDB'[N + 1] = row
  BY <1>1, AppendProperties, LenProperties
<1> HIDE DEF N
<1>3. 1 .. N + 1 = (1 .. N) \cup {N + 1} /\ N + 1 \notin 1 .. N
  BY <1>2
<1>4. \A guid : With(guid)' = With(guid) \cup {k \in {N + 1} : row.guid = guid}
  BY <1>2, <1>3, Zenon DEF With
<1>5. \A guid, handle : Picked(handle, guid)' =
        Picked(handle, guid) \cup {k \in {N + 1} : row.guid = guid /\ row.handle = handle}
  BY <1>2, <1>3 DEF Picked, With
<1>6. \A guid : With(guid)' = With(guid) \/ With(guid)' = With(guid) \cup {N + 1}
  BY <1>4, Zenon
<1>7. \A handle, guid : Picked(handle, guid)' = Picked(handle, guid)
                        \/ Picked(handle, guid)' = Picked(handle, guid) \cup {N + 1}
  BY <1>5, Zenon
<1> QED  BY <1>2, <1>6, <1>7, Zenon DEF N

\* A step leaves the table alone or installs one row.
LEMMA ProtocolMoves ==
  ASSUME [ProtocolNext]_protocolVars
  PROVE  gProtocolDB' = gProtocolDB \/ \E row \in Rows : gProtocolDB' = Append(gProtocolDB, row)
<1>1. CASE UNCHANGED protocolVars
  BY <1>1, Zenon DEF protocolVars
<1>2. ASSUME NEW guid \in Guids, NEW handle \in Handles \cup {NULL}, NEW iface \in Ifaces,
             InstallProtocolInterface(handle, guid, iface)
      PROVE  gProtocolDB' = gProtocolDB \/ \E row \in Rows : gProtocolDB' = Append(gProtocolDB, row)
  <2> DEFINE h == IF handle = NULL THEN NewHandle ELSE handle
             row == Entry(h, guid, iface)
  <2>1. h \in Handles
    BY Zenon DEF Handles
  <2>2. row \in Rows
    BY <2>1, Zenon DEF Entry, Rows
  <2>3. gProtocolDB' = gProtocolDB \/ gProtocolDB' = Append(gProtocolDB, row)
    BY <1>2, Zenon DEF InstallProtocolInterface
  <2> QED  BY <2>2, <2>3, Zenon
<1>3. ASSUME NEW guid \in Guids, LocateProtocol(guid) PROVE gProtocolDB' = gProtocolDB
  BY <1>3, Zenon DEF LocateProtocol
<1>4. ASSUME NEW guid \in Guids, LocateHandle(guid) PROVE gProtocolDB' = gProtocolDB
  BY <1>4, Zenon DEF LocateHandle
<1>5. ASSUME NEW guid \in Guids, NEW handle \in Handles, HandleProtocol(handle, guid)
      PROVE  gProtocolDB' = gProtocolDB
  BY <1>5, Zenon DEF HandleProtocol
<1> QED  BY <1>1, <1>2, <1>3, <1>4, <1>5, Zenon DEF ProtocolNext

\* Every protocol service keeps the handle database sound.
LEMMA ProtocolStep == ASSUME ProtocolInv, [ProtocolNext]_protocolVars PROVE ProtocolInv'
<1>1. CASE gProtocolDB' = gProtocolDB
  BY <1>1 DEF ProtocolInv, With, Picked, HasFirst
<1>2. ASSUME NEW row \in Rows, gProtocolDB' = Append(gProtocolDB, row) PROVE ProtocolInv'
  <2> DEFINE N == Len(gProtocolDB)
  <2>1. /\ gProtocolDB' \in Seq(Rows) /\ N \in Nat
        /\ \A guid : With(guid)' = With(guid) \/ With(guid)' = With(guid) \cup {N + 1}
        /\ \A handle, guid : Picked(handle, guid)' = Picked(handle, guid)
                             \/ Picked(handle, guid)' = Picked(handle, guid) \cup {N + 1}
    BY <1>2, Installed, Zenon
  <2>2. \A guid, handle : With(guid) \subseteq 1 .. N /\ Picked(handle, guid) \subseteq 1 .. N
    BY <1>2, Installed, Zenon DEF With, Picked
  <2> HIDE DEF N
  <2>3. ASSUME NEW guid \in Guids PROVE HasFirst(With(guid))'
    <3>1. HasFirst(With(guid))
      BY Zenon DEF ProtocolInv
    <3>2. \A T : T = With(guid) \/ T = With(guid) \cup {N + 1} => HasFirst(T)
      BY <2>1, <2>2, <3>1, FirstKept, ZenonT(30)
    <3> QED  BY <2>1, <3>2, Zenon DEF HasFirst
  <2>4. ASSUME NEW guid \in Guids, NEW handle \in Handles PROVE HasFirst(Picked(handle, guid))'
    <3>1. HasFirst(Picked(handle, guid))
      BY Zenon DEF ProtocolInv
    <3>2. \A T : T = Picked(handle, guid) \/ T = Picked(handle, guid) \cup {N + 1} => HasFirst(T)
      BY <2>1, <2>2, <3>1, FirstKept, Zenon
    <3> QED  BY <2>1, <3>2, Zenon DEF HasFirst
  <2> QED  BY <2>1, <2>3, <2>4 DEF ProtocolInv
<1> QED  BY <1>1, <1>2, ProtocolMoves

\* The first entry of a lookup that finds something is still its first.
LEMMA FoundAgain ==
  ASSUME ProtocolInv, NEW row \in Rows, gProtocolDB' = Append(gProtocolDB, row),
         NEW guid \in Guids, NEW handle \in Handles
  PROVE  /\ With(guid) # {} => FirstOf(With(guid))' = FirstOf(With(guid))
         /\ Picked(handle, guid) # {} => FirstOf(Picked(handle, guid))' = FirstOf(Picked(handle, guid))
<1> DEFINE N == Len(gProtocolDB)
           W == With(guid)
           P == Picked(handle, guid)
<1>1. /\ N \in Nat /\ W \subseteq 1 .. N /\ P \subseteq 1 .. N
      /\ \A k \in 1 .. N : gProtocolDB'[k] = gProtocolDB[k]
      /\ W' = W \/ W' = W \cup {N + 1}
      /\ P' = P \/ P' = P \cup {N + 1}
  <2>1. /\ N \in Nat /\ DOMAIN gProtocolDB = 1 .. N
        /\ \A k \in 1 .. N : gProtocolDB'[k] = gProtocolDB[k]
        /\ W' = W \/ W' = W \cup {N + 1}
        /\ P' = P \/ P' = P \cup {N + 1}
    BY Installed, Zenon
  <2>2. W \subseteq DOMAIN gProtocolDB /\ P \subseteq DOMAIN gProtocolDB
    BY Zenon DEF With, Picked
  <2> QED  BY <2>1, <2>2, Zenon
<1>2. HasFirst(W) /\ HasFirst(P)
  BY Zenon DEF ProtocolInv
<1> DEFINE V == W'
           Q == P'
<1>3. /\ N \in Nat /\ W \subseteq 1 .. N /\ P \subseteq 1 .. N
      /\ V = W \/ V = W \cup {N + 1}
      /\ Q = P \/ Q = P \cup {N + 1}
  BY <1>1, Zenon
<1> HIDE DEF N, W, P, V, Q
<1>4. W # {} => V # {} /\ Min(W) \in W /\ Min(V) = Min(W)
  BY <1>2, <1>3, FirstKept, Zenon
<1>5. P # {} => Q # {} /\ Min(P) \in P /\ Min(Q) = Min(P)
  BY <1>2, <1>3, FirstKept, Zenon
<1>6. W # {} => gProtocolDB'[Min(V)].iface = gProtocolDB[Min(W)].iface
  BY <1>1, <1>3, <1>4, Zenon
<1>7. P # {} => gProtocolDB'[Min(Q)].iface = gProtocolDB[Min(P)].iface
  BY <1>1, <1>3, <1>5, Zenon
<1>8. W # {} => FirstOf(W)' = FirstOf(W)
  BY <1>4, <1>6, Zenon DEF FirstOf, V
<1>9. P # {} => FirstOf(P)' = FirstOf(P)
  BY <1>5, <1>7, Zenon DEF FirstOf, Q
<1> QED  BY <1>8, <1>9, Zenon DEF W, P

\* Loaders keep pointers: an interface HandleProtocol or LocateProtocol gave from the
\* table is what it gives ever after, whatever is installed, for any table size.
THEOREM PointersStayGood == ProtocolSpec => [][AnswersKept]_protocolVars
<1>1. ASSUME ProtocolInv, [ProtocolNext]_protocolVars PROVE [AnswersKept]_protocolVars
  <2> SUFFICES ASSUME NEW guid \in Guids
               PROVE  /\ \A handle \in Handles : efi_find_protocol(handle, guid) # NULL =>
                           HandleProtocolAnswer(handle, guid)' = HandleProtocolAnswer(handle, guid)
                      /\ LocateProtocolAnswer(guid) # NULL =>
                           LocateProtocolAnswer(guid)' = LocateProtocolAnswer(guid)
    BY Zenon DEF AnswersKept
  <2>1. CASE gProtocolDB' = gProtocolDB
    BY <2>1, Zenon DEF HandleProtocolAnswer, LocateProtocolAnswer, efi_find_protocol, FirstOf, With
  <2>2. ASSUME NEW row \in Rows, gProtocolDB' = Append(gProtocolDB, row)
        PROVE  /\ \A handle \in Handles : efi_find_protocol(handle, guid) # NULL =>
                    HandleProtocolAnswer(handle, guid)' = HandleProtocolAnswer(handle, guid)
               /\ LocateProtocolAnswer(guid) # NULL =>
                    LocateProtocolAnswer(guid)' = LocateProtocolAnswer(guid)
    <3>1. ASSUME NEW handle \in Handles, efi_find_protocol(handle, guid) # NULL
          PROVE  HandleProtocolAnswer(handle, guid)' = HandleProtocolAnswer(handle, guid)
      <4>1. efi_find_protocol(handle, guid) = FirstOf(Picked(handle, guid))
            /\ efi_find_protocol(handle, guid)' = FirstOf(Picked(handle, guid))'
        BY Zenon  DEF efi_find_protocol, Picked
      <4>2. Picked(handle, guid) # {}
        BY <3>1, <4>1, Zenon DEF FirstOf
      <4>3. efi_find_protocol(handle, guid)' = efi_find_protocol(handle, guid)
        BY <1>1, <2>2, <4>1, <4>2, FoundAgain, Zenon
      <4> QED  BY <4>3 DEF HandleProtocolAnswer
    <3>2. ASSUME LocateProtocolAnswer(guid) # NULL
          PROVE  LocateProtocolAnswer(guid)' = LocateProtocolAnswer(guid)
      <4>1. CASE guid = LoadedImage
        BY <4>1, Zenon DEF LocateProtocolAnswer
      <4>2. CASE guid # LoadedImage
        <5>1. LocateProtocolAnswer(guid) = FirstOf(With(guid))
              /\ LocateProtocolAnswer(guid)' = FirstOf(With(guid))'
          BY <4>2 DEF LocateProtocolAnswer
        <5>2. With(guid) # {}
          BY <3>2, <5>1, Zenon DEF FirstOf
        <5>3. Image \in Handles
          BY Zenon DEF Handles
        <5> QED  BY <1>1, <2>2, <5>1, <5>2, <5>3, FoundAgain, Zenon
      <4> QED  BY <4>1, <4>2, Zenon
    <3> QED  BY <3>1, <3>2, Zenon
  <2> QED  BY <1>1, <2>1, <2>2, ProtocolMoves, Zenon
<1>2. ProtocolInit => ProtocolInv
  BY ProtocolStarts, Zenon
<1>3. ProtocolInv /\ [ProtocolNext]_protocolVars => ProtocolInv'
  BY ProtocolStep, Zenon
<1> QED  BY <1>1, <1>2, <1>3, PTL DEF ProtocolSpec

-----------------------------------------------------------------------------
(***************************************************************************)
(* BootEvents: a key that is reported did come.                            *)
(***************************************************************************)

EventsInv ==
  /\ signaled \in [Events -> BOOLEAN] /\ ahead \in BOOLEAN
  /\ arrived \in Nat /\ read \in Nat
  /\ SignalsTrue

\* No event is signalled at the start.
LEMMA EventsStart == EventsInit => EventsInv
<1> SUFFICES ASSUME EventsInit PROVE EventsInv
  BY Zenon
<1>1. signaled \in [Events -> BOOLEAN] /\ ~signaled[WaitForKey]
  BY Zenon DEF EventsInit, Events
<1> QED  BY <1>1, Zenon DEF EventsInit, EventsInv, SignalsTrue

\* Every event service keeps the invariant of the event table.
LEMMA EventsStep == ASSUME EventsInv, [EventsNext]_eventsVars PROVE EventsInv'
<1> USE DEF EventsInv, SignalsTrue, serial_isdata
<1>0. WaitForKey \in Events /\ WaitForKey \notin Timers
  BY BootEventsAssumption, Zenon DEF Events
<1>1. CASE UNCHANGED eventsVars
  BY <1>1, Zenon DEF eventsVars
<1>2. CASE KeyArrives
  BY <1>2 DEF KeyArrives
<1>3. CASE WaitReturns
  <2> DEFINE e == wait[Min({k \in DOMAIN wait : signaled[wait[k]]})]
  <2>1. /\ signaled' = [signaled EXCEPT ![e] = FALSE]
        /\ ahead' = IF e = WaitForKey THEN FALSE ELSE ahead
        /\ UNCHANGED <<arrived, read>>
    BY <1>3, Zenon DEF WaitReturns
  <2> HIDE DEF e
  <2>2. signaled' \in [Events -> BOOLEAN] /\ ahead' \in BOOLEAN
    BY <2>1, Zenon
  <2>3. CASE e = WaitForKey
    <3>1. signaled'[WaitForKey] = FALSE
      BY <1>0, <2>1, <2>3, Zenon
    <3> QED  BY <2>1, <2>2, <3>1, Zenon
  <2>4. CASE e # WaitForKey
    <3>1. signaled'[WaitForKey] = signaled[WaitForKey]
      BY <1>0, <2>1, <2>4, Zenon
    <3> QED  BY <2>1, <2>2, <2>4, <3>1, Zenon
  <2> QED  BY <2>3, <2>4, Zenon
<1>4. CASE update_events
  <2>1. signaled' \in [Events -> BOOLEAN]
        /\ signaled'[WaitForKey] = (signaled[WaitForKey] \/ read < arrived)
    BY <1>0, <1>4, Zenon DEF update_events
  <2> QED  BY <1>4, <2>1, Zenon DEF update_events
<1>5. CASE ReadKeyStroke
  BY <1>0, <1>5 DEF ReadKeyStroke
<1>6. ASSUME NEW e \in Timers, CreateEvent(e) PROVE EventsInv'
  BY <1>0, <1>6, Zenon DEF CreateEvent
<1>7. ASSUME NEW e \in Timers, SetTimer(e) PROVE EventsInv'
  BY <1>0, <1>7, Zenon DEF SetTimer
<1>8. ASSUME NEW events \in Waits, CallWaitForEvent(events) PROVE EventsInv'
  BY <1>8, Zenon DEF CallWaitForEvent
<1> QED  BY <1>1, <1>2, <1>3, <1>4, <1>5, <1>6, <1>7, <1>8, Zenon DEF EventsNext

\* WaitForEvent does not report keys that never came: a signaled WaitForKey stands for
\* a key in the port or for one the loader took while the signal stood, for any timers
\* and any number of keys.
THEOREM SignalsAlwaysTrue == EventsSpec => []SignalsTrue
<1>1. EventsInit => EventsInv
  BY EventsStart, Zenon
<1>2. EventsInv /\ [EventsNext]_eventsVars => EventsInv'
  BY EventsStep, Zenon
<1>3. EventsInv => SignalsTrue
  BY Zenon DEF EventsInv
<1> QED  BY <1>1, <1>2, <1>3, PTL DEF EventsSpec
=============================================================================
