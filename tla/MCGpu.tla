-------------------------------- MODULE MCGpu --------------------------------
(* The GPU device twice: the tables of resources, scanouts and backing pages *)
(* over sequences of commands (Gpu), and the pixels of one resource over     *)
(* transfers and flushes (GpuTransfer).  A behaviour follows one of them.    *)
EXTENDS Gpu, GpuTransfer, TLC

CONSTANTS p1, p2, s1, s2
VARIABLE view

\* Page lists: two pages out of order, and two that end inside a row.
\* Scanouts: the resource, and one that reaches beyond it.
Entry(a, n) == [addr |-> a, length |-> n]
MCBackings == { <<Entry(5, 1), Entry(1, 3)>>, <<Entry(7, 1), Entry(2, 2)>> }
Rect(x, y, w, h) == [x |-> x, y |-> y, width |-> w, height |-> h]
MCScanoutRects == {Rect(0, 0, 2, 2), Rect(1, 0, 2, 3)}

gpuVars == <<view, vars, transferVars>>

GpuInit ==
  /\ view \in {"tables", "pixels"}
  /\ view = "pixels" \/ scanout = Rect(0, 0, 2, 2)
  /\ Init /\ TransferInit

GpuNext ==
  \/ view = "tables" /\ Next /\ UNCHANGED <<view, transferVars>>
  \/ view = "pixels" /\ TransferNext /\ UNCHANGED <<view, vars>>

GpuSpec == GpuInit /\ [][GpuNext]_gpuVars

\* The entries of the scanout table are interchangeable, and so are the pages.
\* No action reads the last answer, so states that differ in it only are explored
\* once.
GpuSymmetry == Permutations(Scanouts) \cup Permutations(Pages)
GpuView == <<view, resources, scanouts, lent, own, transferVars>>
==============================================================================
