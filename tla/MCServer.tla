------------------------------ MODULE MCServer ------------------------------
(* Instances of Server for model checking. *)
EXTENDS Server, TLC

CONSTANTS c1, c2, f1, f2, w1, w2

\* Connections, descriptors and workers are interchangeable.
Symmetry ==
  Permutations(Conns) \cup Permutations(Fds) \cup Permutations(Workers)
=============================================================================
