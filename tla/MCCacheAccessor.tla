--------------------------- MODULE MCCacheAccessor ---------------------------
(* Model-checking instances of CacheAccessor. *)
EXTENDS CacheAccessor, TLC

Symmetry == Permutations(Threads)

(* A cache that starts with no shader at all. *)
FreshSpec == /\ entry = [k \in Keys |-> None] /\ ext = [k \in Keys |-> NoBlob]
             /\ ASpec
==============================================================================
