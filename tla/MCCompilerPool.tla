---------------------------- MODULE MCCompilerPool ---------------------------
(* Model-checking instances of CompilerPool. *)
EXTENDS CompilerPool, TLC

Symmetry ==
  Permutations(Clients) \cup Permutations(Contexts) \cup Permutations(Options)
    \cup Permutations(GfxIps)
==============================================================================
