-------------------------- MODULE MCRayTracingBuild --------------------------
EXTENDS RayTracingBuild, TLC

NoTrace(vgprs, diag, meta) ==
  [traces |-> FALSE, set |-> {}, unset |-> {}, forces |-> FALSE, vgprs |-> vgprs,
   diag |-> diag, meta |-> meta]

shaders ==
  [gen    |-> [NoTrace(2, "none", "good") EXCEPT !.traces = TRUE, !.set = {1}, !.unset = {2}],
   hit    |-> [NoTrace(4, "none", "good") EXCEPT !.traces = TRUE, !.set = {1, 2}, !.forces = TRUE],
   miss   |-> NoTrace(3, "none", "good"),
   any    |-> NoTrace(5, "none", "good"),
   noread |-> NoTrace(3, "read", "good"),
   nogen  |-> NoTrace(3, "codegen", "good"),
   nometa |-> NoTrace(3, "none", "bad")]

Request(s, threads) ==
  [shaders |-> s, threads |-> threads, library |-> FALSE, indirect |-> TRUE,
   mode |-> "continuations", dvgpr |-> TRUE, persistent |-> FALSE, libs |-> {}]

(* A library, a pipeline that links it, pipelines with shaders that fail, and *)
(* the ways to run the loop.                                                  *)
requests ==
  [library  |-> [Request(<<"hit", "any">>, "provider") EXCEPT !.library = TRUE],
   linking  |-> [Request(<<"gen", "miss">>, "provider") EXCEPT !.libs = {"library"}],
   plainlib |-> [Request(<<"miss">>, "none") EXCEPT !.library = TRUE],
   linked   |-> [Request(<<"gen">>, "extra") EXCEPT !.libs = {"plainlib"}],
   inlined  |-> [Request(<<"gen", "miss">>, "none") EXCEPT !.indirect = FALSE],
   broken   |-> [Request(<<"gen", "nogen">>, "none") EXCEPT !.indirect = FALSE],
   spawning |-> [Request(<<"gen", "any", "hit">>, "extra") EXCEPT !.indirect = FALSE],
   launch   |-> [Request(<<"any", "miss">>, "provider") EXCEPT !.persistent = TRUE],
   nocps    |-> [Request(<<"gen", "miss">>, "provider") EXCEPT !.mode = "legacy"],
   continufy|-> [Request(<<"gen", "any">>, "extra") EXCEPT !.mode = "continufy"],
   merged   |-> [Request(<<"gen", "miss">>, "provider") EXCEPT !.indirect = FALSE],
   noread   |-> Request(<<"noread", "miss">>, "provider"),
   nogen    |-> Request(<<"nogen", "any", "miss">>, "provider"),
   nometa   |-> Request(<<"any", "nometa", "miss">>, "extra")]

plans == {<<"library", "linking">>, <<"plainlib", "linked">>, <<"broken", "inlined">>,
          <<"spawning">>, <<"launch">>, <<"nocps">>, <<"continufy">>, <<"merged", "inlined">>, <<"noread", "inlined">>, <<"nogen", "inlined">>,
          <<"nometa">>}
==============================================================================
