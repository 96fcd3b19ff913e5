--------------------------- MODULE MCDescriptors ---------------------------
(* An instance of Descriptors for TLC. *)
EXTENDS Descriptors, TLC

(* Connections and workers can be exchanged: no definition tells them      *)
(* apart.                                                                  *)
Symmetry == Permutations(Conns) \cup Permutations(Workers)
=============================================================================
