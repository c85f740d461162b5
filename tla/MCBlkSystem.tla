----------------------------- MODULE MCBlkSystem -----------------------------
(* The request slots of the driver are interchangeable. *)
EXTENDS BlkSystem, TLC

CONSTANTS s1, s2

SlotSymmetry == Permutations(Slots)
==============================================================================
