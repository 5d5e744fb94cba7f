--------------------------- MODULE MCPipelineBuild ---------------------------
EXTENDS PipelineBuild, TLC

CONSTANTS v1, v2, f1, f2, g1, b1, c1, vBad, fBad, cBad

writes == (v1 :> {1, 2}) @@ (v2 :> {1, 3}) @@ (vBad :> {1})
reads == (f1 :> {1}) @@ (f2 :> {1, 2}) @@ (g1 :> {1}) @@ (b1 :> {1}) @@ (fBad :> {1})

(* A well-formed request that has everything it needs. *)
Job(api, pre, fs, cs, reloc) ==
  [api |-> api, pre |-> pre, fs |-> fs, cs |-> cs, reloc |-> reloc, given |-> {},
   valid |-> TRUE, alloc |-> TRUE, links |-> TRUE]

Graphics(pre, fs) == Job("graphics", pre, fs, NoShader, FALSE)
Relocatable(pre, fs) == Job("graphics", pre, fs, NoShader, TRUE)

(* Pipelines that share stages, with interfaces that differ and that do not,  *)
(* and one whose modules do not link.                                         *)
wholeJobs == {Graphics(v1, f1), Graphics(v1, f2), Graphics(v2, f1), Graphics(v1, g1),
              Graphics(v2, g1), Graphics(v1, b1), Graphics(v2, b1), [Graphics(v2, f2) EXCEPT !.links = FALSE]}

(* Relocatable and single-stage builds, with stages that fail. *)
unlinkedJobs == {Relocatable(v1, f1), Relocatable(v1, b1), Relocatable(v1, NoShader),
                 [Relocatable(v2, f1) EXCEPT !.api = "withElf"],
                 [Relocatable(v2, fBad) EXCEPT !.api = "withElf", !.given = {"pre"}],
                 [Relocatable(v2, g1) EXCEPT !.api = "withElf"],
                 Job("stage", NoShader, f1, NoShader, TRUE),
                 Job("stage", vBad, NoShader, NoShader, TRUE),
                 Job("colorExport", NoShader, f1, NoShader, FALSE),
                 [Job("stage", v1, NoShader, NoShader, TRUE) EXCEPT !.alloc = FALSE]}

(* Part pipelines, compute pipelines, and an allocator that is missing. *)
partJobs == {Graphics(v1, f1), Graphics(v2, f1), Graphics(v1, f2), Graphics(v1, fBad),
             Graphics(vBad, f1),
             Job("compute", NoShader, NoShader, c1, FALSE),
             Job("compute", NoShader, NoShader, c1, TRUE),
             [Job("compute", NoShader, NoShader, c1, FALSE) EXCEPT !.valid = FALSE],
             [Graphics(v1, f1) EXCEPT !.alloc = FALSE]}

(* Pipelines with stages that fail, in relocatable stages and whole: a stage  *)
(* that others share, the last of its pipeline and the first.                 *)
failingJobs == {Relocatable(v1, g1), Relocatable(v1, fBad), Relocatable(vBad, f1),
                Graphics(v1, fBad), Graphics(v2, fBad), Graphics(vBad, f1), Graphics(v1, f1),
                Job("compute", NoShader, NoShader, cBad, TRUE),
                Job("compute", NoShader, NoShader, cBad, FALSE)}

Scenario(full, perStage, part, jobs) ==
  [full |-> full, perStage |-> perStage, part |-> part, jobs |-> jobs]

scenarios ==
  [whole |-> Scenario(TRUE, TRUE, FALSE, wholeJobs),
   unlinked |-> Scenario(FALSE, TRUE, FALSE, unlinkedJobs),
   part |-> Scenario(TRUE, TRUE, TRUE, partJobs),
   failing |-> Scenario(TRUE, TRUE, FALSE, failingJobs),
   uncached |-> Scenario(TRUE, FALSE, FALSE, failingJobs)]

(* The jobs of the runs keep what is assumed of the callers. *)
ASSUME \A s \in DOMAIN Scenarios : WellPosed(Scenarios[s])

(* A fragment shader whose code generation fails, with the stage cache on. *)
failingScenarios ==
  [failing |-> Scenario(TRUE, TRUE, FALSE, {Graphics(v1, fBad), Graphics(v2, fBad)})]

(* A relocatable build of a stage that needs the full pipeline. *)
relocatableScenarios ==
  [generic |-> Scenario(TRUE, TRUE, FALSE, {Relocatable(v1, g1)})]
==============================================================================
