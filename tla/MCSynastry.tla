----------------------------- MODULE MCSynastry -----------------------------
(* Small instances of Synastry. *)
EXTENDS Synastry, TLC

Symmetry == Permutations(Handlers) \cup Permutations(Users \ Buyers)
=============================================================================
