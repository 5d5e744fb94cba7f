---------------------------- MODULE MCShaderCache ----------------------------
(* Model-checking instances of ShaderCache. *)
EXTENDS ShaderCache, TLC

Symmetry == Permutations(Threads) \cup Permutations(Keys)
==============================================================================
