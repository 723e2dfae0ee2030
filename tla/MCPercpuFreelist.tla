--------------------------- MODULE MCPercpuFreelist ---------------------------
(* PercpuFreelist for TLC: slots are interchangeable, and so are threads    *)
(* that do the same things.                                                 *)
EXTENDS PercpuFreelist, TLC

Symmetry == Permutations(Slots) \cup Permutations(Poppers \cap Flushers)
            \cup Permutations(Threads \ (Poppers \cup Flushers))
=============================================================================
