----------------------------- MODULE GpuTransfer -----------------------------
(***************************************************************************)
(* The geometry of the GPU's pictures: TRANSFER_TO_HOST_2D copies a        *)
(* rectangle from the guest's scattered pages to the resource              *)
(* (src/src/devices/virtio/devices/gpu.rs), RESOURCE_FLUSH copies the      *)
(* scanout's rectangle to the window (src/src/platform/sdl/context.rs).    *)
(*                                                                         *)
(* One resource, one scanout bound to it.  A pixel is one cell and holds   *)
(* the guest address it was read from, 0 when it is blank.  Memory entries *)
(* lie in guest memory.  Lives of resources and bindings are Gpu's.        *)
(***************************************************************************)
EXTENDS Integers, SequencesExt, FiniteSetsExt

CONSTANTS
  Width, Height,           \* of the resource
  WinWidth, WinHeight,     \* of the window
  Backings,                \* page lists: sequences of [addr, length]
  Offsets,                 \* offsets of a transfer
  ScanoutRects,            \* rectangles of the scanout
  USIZE_MAX,               \* largest word of the host
  MaxTransfers             \* bound: transfers that are carried out

ASSUME GpuTransferAssumption ==
  /\ {Width, Height, WinWidth, WinHeight, USIZE_MAX, MaxTransfers} \subseteq Nat \ {0}
  /\ Offsets \subseteq 0 .. USIZE_MAX
  /\ \A b \in Backings : \A i \in DOMAIN b : b[i].addr > 0 /\ b[i].addr + b[i].length =< USIZE_MAX

stride == Width
Cells == 0 .. stride * Height - 1
Window == (0 .. WinWidth - 1) \X (0 .. WinHeight - 1)
Rects == [x : 0 .. Width, y : 0 .. Height, width : 0 .. Width + 1, height : 0 .. Height]

VARIABLES
  backing,   \* the page list attached
  data,      \* pixels of the resource, row by row
  scanout,   \* rectangle of the scanout
  window,    \* pixels on the screen
  done       \* transfers carried out

transferVars == <<backing, data, scanout, window, done>>

TransferInit ==
  /\ backing = <<>>
  /\ data = [c \in Cells |-> 0]
  /\ scanout \in ScanoutRects
  /\ window = [p \in Window |-> 0]
  /\ done = 0

-----------------------------------------------------------------------------
contains(rect) ==
  /\ rect.width # 0 /\ rect.height # 0
  /\ rect.x < Width /\ rect.y < Height
  /\ rect.x + rect.width =< Width
  /\ rect.y + rect.height =< Height

backing_len == FoldLeft(LAMBDA n, entry : n + entry.length, 0, backing)

\* The row out with what the pages hold from start on; a row that the pages end
\* in keeps its last cells.
read_backing_range_flat(start, out) ==
  LET Step(acc, entry) ==
        LET n == Min({entry.length - start, Len(out) - acc.copied})
        IN IF start >= entry.length THEN acc
           ELSE [acc EXCEPT !.copied = @ + n,
                   !.out = [i \in DOMAIN out |->
                              IF i \in acc.copied + 1 .. acc.copied + n
                              THEN entry.addr + start + i - acc.copied - 1 ELSE @[i]]]
  IN FoldLeft(Step, [copied |-> 0, out |-> out], backing).out
read_backing_range(start, out) ==
  LET Step(acc, entry) ==
        LET entry_start == Max({start - acc.skipped, 0})
            n == Max({0, Min({entry.length - entry_start, Len(out) - acc.copied})})
        IN [skipped |-> acc.skipped + entry.length,
            copied |-> acc.copied + n,
            out |-> [i \in DOMAIN out |->
                       IF i \in acc.copied + 1 .. acc.copied + n
                       THEN entry.addr + entry_start + i - acc.copied - 1 ELSE acc.out[i]]]
  IN FoldLeft(Step, [skipped |-> 0, copied |-> 0, out |-> out], backing).out

\* One buffer serves every row of the rectangle.
CopyRows(rect, base) ==
  LET Step(acc, row) ==
        LET row_buf == read_backing_range(base + row * stride, acc.row_buf)
            dst_start == (rect.y + row) * stride + rect.x
        IN IF base + row * stride > USIZE_MAX THEN acc
           ELSE [row_buf |-> row_buf,
                 data |-> [c \in Cells |-> IF c \in dst_start .. dst_start + rect.width - 1
                                           THEN row_buf[c - dst_start + 1] ELSE acc.data[c]]]
  IN FoldLeft(Step, [row_buf |-> [i \in 1 .. rect.width |-> 0], data |-> data],
              [row \in 1 .. rect.height |-> row - 1]).data

TransferRect(rect, offset) ==
  LET base == offset + rect.y * stride + rect.x
  IN /\ done < MaxTransfers
     /\ contains(rect)
     /\ base =< USIZE_MAX /\ base =< backing_len
     /\ done' = done + 1
     /\ data' = CopyRows(rect, base)
     /\ UNCHANGED <<backing, scanout, window>>

AttachBacking(b) ==
  /\ backing' = b
  /\ UNCHANGED <<data, scanout, window, done>>

DetachBacking ==
  /\ backing' = <<>>
  /\ UNCHANGED <<data, scanout, window, done>>

\* The rectangle is stored as it comes.
SetScanoutRect(rect) ==
  /\ scanout' = rect
  /\ UNCHANGED <<backing, data, window, done>>

\* The window after the rectangle is drawn where it lies in the resource.  Rows
\* past the end of the pixels are blank.
blit_rect_at_origin(rect) ==
  LET src(x, y) == (y - rect.y) * stride + x - rect.x
      drawn == {p \in Window : /\ p[1] \in rect.x .. rect.x + rect.width - 1
                               /\ p[2] \in rect.y .. rect.y + rect.height - 1}
  IN [p \in Window |->
        IF p \in drawn THEN IF src(p[1], p[2]) \in Cells THEN data[src(p[1], p[2])] ELSE 0
        ELSE window[p]]
blit_rect(rect) ==
  LET src(x, y) == y * stride + x
      drawn == {p \in Window : /\ p[1] \in rect.x .. rect.x + rect.width - 1
                               /\ p[2] \in rect.y .. rect.y + rect.height - 1}
  IN [p \in Window |->
        IF p \in drawn THEN IF src(p[1], p[2]) \in Cells THEN data[src(p[1], p[2])] ELSE 0
        ELSE window[p]]

\* Draws the whole scanout, whatever region the guest says has changed.
FlushScanout ==
  /\ window' = blit_rect(scanout)
  /\ UNCHANGED <<backing, data, scanout, done>>

TransferNext ==
  \/ \E rect \in ScanoutRects : SetScanoutRect(rect)
  \/ \E rect \in Rects, offset \in Offsets : TransferRect(rect, offset)
  \/ \E b \in Backings : AttachBacking(b)
  \/ DetachBacking \/ FlushScanout

TransferSpec == TransferInit /\ [][TransferNext]_transferVars

-----------------------------------------------------------------------------
\* The page list as one run of addresses.
PageRun == FlattenSeq([i \in DOMAIN backing |->
                       [k \in 1 .. backing[i].length |-> backing[i].addr + k - 1]])

\* A transfer fills its rectangle with the bytes the page list holds at the
\* rectangle's place, across page boundaries, and touches no other pixel.  Where
\* the pages end it reads nothing: a cell is blank or repeats its column.
TransferExact ==
  [][done' # done =>
       \A rect \in Rects, offset \in Offsets : TransferRect(rect, offset) =>
         \A x \in 0 .. Width - 1, y \in 0 .. Height - 1 :
           LET At(v) == offset + v * stride + x + 1
               held(v) == At(v) =< Len(PageRun)
               cell == data'[y * stride + x]
           IN IF x \in rect.x .. rect.x + rect.width - 1 /\ y \in rect.y .. rect.y + rect.height - 1
              THEN IF held(y) THEN cell = PageRun[At(y)]
                   ELSE cell \in {0} \cup {PageRun[At(v)] : v \in {u \in rect.y .. y : held(u)}}
              ELSE cell = data[y * stride + x]]_transferVars

\* A flush shows every pixel of the scanout that the resource has and the window
\* has room for at its own place, and leaves the rest of the window alone.
FlushExact ==
  [][FlushScanout =>
       \A p \in Window :
         IF /\ p[1] \in scanout.x .. scanout.x + scanout.width - 1
            /\ p[2] \in scanout.y .. scanout.y + scanout.height - 1
         THEN (p[1] < Width /\ p[2] < Height) => window'[p] = data[p[2] * stride + p[1]]
         ELSE window'[p] = window[p]]_transferVars
==============================================================================
