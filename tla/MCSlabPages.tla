----------------------------- MODULE MCSlabPages -----------------------------
(* TLC instance of SlabPages: the pages of a class are interchangeable.    *)
EXTENDS SlabPages, TLC

PageSymmetry == Permutations(Pages)
=============================================================================
