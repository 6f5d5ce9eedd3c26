--------------------------- MODULE MCSambaShares ---------------------------
(* Small instances of SambaShares. *)
EXTENDS SambaShares, TLC

Symmetry == Permutations(Shares) \cup Permutations(Options)
=============================================================================
