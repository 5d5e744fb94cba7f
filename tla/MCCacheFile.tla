-------------------------- MODULE MCCacheFile --------------------------
(* Instances of ShaderCacheFile: a small shader and one of two cells. *)
EXTENDS ShaderCacheFile, TLC

SmallAndLarge == [k \in Keys |-> IF k = "small" THEN 1 ELSE 2]


Symmetry == Permutations(Caches) \cup Permutations(Builds)

=============================================================================
