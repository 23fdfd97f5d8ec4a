----------------------------- MODULE MCRegistry -----------------------------
(* Instances of Registry: two identifiers that share a word of the filter  *)
(* and have one bit each of their own, and share a bucket.                 *)
EXTENDS Registry, TLC

CONSTANTS i1, i2, b0, b1, b2, w1, w2

Symmetry ==
  Permutations(Workers) \cup {i1 :> i2 @@ i2 :> i1 @@ b1 :> b2 @@ b2 :> b1}

MCHashes == [i \in {i1, i2} |-> IF i = i1 THEN {b0, b1} ELSE {b0, b2}]
MCPlace == [x \in {i1, i2, b0, b1, b2} |->
              CASE x \in {i1, i2} -> "bucket" [] x = b0 -> "word0" [] OTHER -> "word1"]
=============================================================================
