----------------------------- MODULE MCCatalog -----------------------------
(* Instances of Catalog: Names is one larger than what can be in use. *)
EXTENDS Catalog, TLC
CONSTANTS n1, n2, n3, n4
Symmetry == Permutations(Names)
=============================================================================
