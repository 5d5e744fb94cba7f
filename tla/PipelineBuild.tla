---------------------------- MODULE PipelineBuild ----------------------------
(***************************************************************************)
(* How the compiler (llpc/context/llpcCompiler.cpp) turns requests into    *)
(* ELFs while several threads share one cache: whole-pipeline compiles     *)
(* with a cache per group of stages, compiles of relocatable stages that   *)
(* are linked, compiles of two part pipelines that are linked, and the     *)
(* builds of a single stage or of the color export shader.                 *)
(*                                                                         *)
(* A request ("job") is a record: api, the shaders pre (everything before  *)
(* the rasteriser), fs and cs, and what decides the path it takes.  An ELF *)
(* is, for each part, the code it holds: a shader together with what the   *)
(* compile made that code depend on.  The cache is what CompileOnce        *)
(* promises: an entry is missing, being compiled by one holder (others     *)
(* wait), finished, or finished with the empty value of a holder that      *)
(* gave up.                                                                *)
(***************************************************************************)
EXTENDS Naturals, Sequences, FiniteSets

CONSTANTS
  Threads,     \* threads that call the compiler
  NoShader,    \* the job has no such part
  Writes,      \* for each pre-raster shader, the locations it writes
  Reads,       \* for each fragment shader, the locations it reads
  Generic,     \* fragment shaders with useGenericBuiltIn
  Barycentric, \* fragment shaders with useBarycentric
  Bad,         \* shaders whose code generation reports an error diagnostic
  Scenarios,   \* name -> [full, perStage, part, jobs]: options and jobs of a process
  Missing, Compiling, Empty,  \* states of a cache entry that holds no ELF
  MaxBuilds    \* bound: builds started

VARIABLES
  scenario,  \* the options of this process, and the jobs it is given
  cache,     \* entries that exist: key -> Compiling, Empty or an ELF
  pc,        \* where each thread is
  job,       \* the job of each thread
  todo,      \* parts the loop of the thread has still to visit
  elf,       \* the ELF the thread is putting together
  result,    \* Result of the thread's build
  acc,       \* the cache accessors of the thread
  ctx,       \* threads that have a context of the pool
  out,       \* what the thread's last build returned
  builds,    \* builds started
  aborted    \* an assert ended the process

vars == <<scenario, cache, pc, job, todo, elf, result, acc, ctx, out, builds, aborted>>

(* Compiled apart and linked: UnlinkedStageVertexProcess, -Fragment, -Compute. *)
PartSet == {"pre", "fs", "cs"}

NoCode == <<>>
NoElf == [p \in PartSet \cup {"glue"} |-> NoCode]

(* "full": of the whole pipeline.  "fs", "pre": m_fragmentCacheAccessor and    *)
(* m_nonFragmentCacheAccessor.  "unit": of one stage, part pipeline or glue.  *)
Accessors == {"full", "fs", "pre", "unit"}

(* "must": a miss, to be populated.  "hit": isInCache().  "held": an entry    *)
(* that holds no ELF and that is not ours to populate.  "none": no accessor.  *)
AccStates == {"none", "must", "hit", "held"}
NoAcc == [state |-> "none", key |-> <<>>]

Options == Scenarios[scenario]

Init ==
  /\ scenario \in DOMAIN Scenarios
  /\ cache = <<>>
  /\ pc = [t \in Threads |-> "idle"]
  /\ job = [t \in Threads |-> CHOOSE j \in Options.jobs : TRUE]
  /\ todo = [t \in Threads |-> <<>>]
  /\ elf = [t \in Threads |-> NoElf]
  /\ result = [t \in Threads |-> "Success"]
  /\ acc = [t \in Threads |-> [a \in Accessors |-> NoAcc]]
  /\ ctx = {}
  /\ out = [t \in Threads |-> [result |-> "none", elf |-> NoElf]]
  /\ builds = 0
  /\ aborted = FALSE

-----------------------------------------------------------------------------
(* The code a compile produces for part p of job j, and the hash it is kept   *)
(* under.  A whole-pipeline compile lays out the interface of the two halves, *)
(* and a fragment shader with generic built-in or barycentric inputs follows  *)
(* the shader before it.                                                      *)
Interface(j) ==
  IF j.pre # NoShader /\ j.fs # NoShader THEN Writes[j.pre] \cap Reads[j.fs] ELSE {}

Before(j, p) == IF p = "fs" /\ j.fs \in Generic \cup Barycentric THEN j.pre ELSE NoShader

WholeCode(j, p) == <<"whole", j[p], Interface(j), Before(j, p)>>

UnlinkedCode(j, p) == <<"unlinked", j[p]>>

(* The fragment part is compiled alone; the pre-raster part is given its      *)
(* input mappings.                                                            *)
PartCode(j, p) == <<"part", j[p], IF p = "pre" THEN Reads[j.fs] ELSE {}>>

(* The options are hashed too, and among them whether relocatable shaders are *)
(* asked for.                                                                 *)
FullKey(j) == <<"pipeline", j.pre, j.fs, j.cs, j.reloc>>

(* Mutant: the stage before a generic fragment shader is not hashed. *)
StageKeyAlone(j, p) == <<"stage", j[p], Interface(j), NoShader>>

(* buildShaderCacheHash, with the in/out usage CheckShaderCache streams. *)
StageKey(j, p) == <<"stage", j[p], Interface(j), Before(j, p)>>

UnlinkedKey(j, p) == <<"unlinked", j[p]>>

PartKey(j, p) == <<"part", j[p], IF p = "pre" THEN Reads[j.fs] ELSE {}>>

(* The color export shader of a fragment shader, or the null fragment shader. *)
GlueCode(j) == <<"glue", j.fs>>

GlueKey(j) == <<"glue", j.fs>>

(* Mutant: the error diagnostics of a part are ignored. *)
CompilesAnyway(j, p) == TRUE

(* The compile of one part alone reports no error diagnostic. *)
Compiles(j, p) == j[p] \notin Bad

Present(j) == {p \in PartSet : j[p] # NoShader}

TwoParts(j) == {"pre", "fs"} \subseteq Present(j)

(* The loop over the stages visits the parts that the job has in order. *)
IfPresent(j, p) == IF j[p] # NoShader THEN <<p>> ELSE <<>>
Loop(j) == IfPresent(j, "pre") \o IfPresent(j, "fs") \o IfPresent(j, "cs")

(* BuildGraphicsPipeline, BuildComputePipeline, buildGraphicsPipelineWithElf, *)
(* buildGraphicsShaderStage and BuildColorExportShader.                       *)
Apis == {"graphics", "compute", "withElf", "stage", "colorExport"}

(* The ELFs there can be, and the assumption that an entry without one can be *)
(* told from them: "Ready with a value" is a state of its own.                *)
Jobs == UNION {Scenarios[s].jobs : s \in DOMAIN Scenarios}
Codes ==
  {NoCode} \cup {GlueCode(j) : j \in Jobs}
    \cup {WholeCode(j, p) : j \in Jobs, p \in PartSet}
    \cup {UnlinkedCode(j, p) : j \in Jobs, p \in PartSet}
    \cup {PartCode(j, p) : j \in {x \in Jobs : TwoParts(x)}, p \in {"pre", "fs"}}
Elfs == [PartSet \cup {"glue"} -> Codes]

ASSUME EntriesAssumption ==
         /\ Missing \notin {Compiling, Empty} /\ Compiling # Empty
         /\ \A e \in {Missing, Compiling, Empty} : e \notin Elfs
ASSUME ScenariosAssumption ==
         \A s \in DOMAIN Scenarios :
           /\ Scenarios[s].jobs # {}
           /\ \A j \in Scenarios[s].jobs : j.api \in Apis

-----------------------------------------------------------------------------
(* CacheAccessor on the abstract cache. *)
Goto(t, l) == pc' = [pc EXCEPT ![t] = l]

Entry(k) == IF k \in DOMAIN cache THEN cache[k] ELSE Missing

Store(k, v) == [x \in DOMAIN cache \cup {k} |-> IF x = k THEN v ELSE cache[x]]

Found(k) == CASE Entry(k) = Missing -> "must"
              [] Entry(k) = Empty -> "held"
              [] OTHER -> "hit"

(* Mutant: a waiter also waits for the ELF of an entry that was given up. *)
LookUpElf(t, a, k) ==
  /\ Entry(k) \notin {Compiling, Empty}
  /\ acc' = [acc EXCEPT ![t][a] = [state |-> Found(k), key |-> k]]
  /\ cache' = IF Found(k) = "must" THEN Store(k, Compiling) ELSE cache

(* The constructor: GetEntry waits while another thread compiles the entry. *)
LookUp(t, a, k) ==
  /\ Entry(k) # Compiling
  /\ acc' = [acc EXCEPT ![t][a] = [state |-> Found(k), key |-> k]]
  /\ cache' = IF Found(k) = "must" THEN Store(k, Compiling) ELSE cache

(* setElfInCache on a miss. *)
SetElf(t, a, e) ==
  /\ acc[t][a].state = "must"
  /\ cache' = Store(acc[t][a].key, e)
  /\ acc' = [acc EXCEPT ![t][a].state = "hit"]

(* The destructor of accessors as: a miss nobody populated becomes Empty. *)
Dropped(t, as) ==
  LET ks == {acc[t][a].key : a \in {b \in as : acc[t][b].state = "must"}}
  IN  [k \in DOMAIN cache |-> IF k \in ks THEN Empty ELSE cache[k]]

Without(t, as) == [acc EXCEPT ![t] = [a \in Accessors |-> IF a \in as THEN NoAcc ELSE @[a]]]

(* setElfInCache on an entry that is held without having to populate it:      *)
(* assert(m_mustPopulate) of EntryHandle::SetValue.                           *)
Asserts(t, a) ==
  /\ acc[t][a].state = "held"
  /\ aborted' = TRUE
  /\ UNCHANGED <<scenario, cache, pc, job, todo, elf, result, acc, ctx, out, builds>>

-----------------------------------------------------------------------------
(* The entry points.                                                          *)

(* Graphics and compute: validation, whose failure ends only a compute build, *)
(* then the cache lookup.  A compute build with a transform vertex shader     *)
(* compiles it first, with a context of its own.  The others need an          *)
(* allocator, and the builds of one stage go to the context directly.         *)
Refused(j) == CASE j.api = "compute" -> ~j.valid
                [] j.api = "graphics" -> FALSE
                [] OTHER -> ~j.alloc

Begin(t, j) ==
  /\ pc[t] = "idle" /\ builds < MaxBuilds
  /\ builds' = builds + 1
  /\ job' = [job EXCEPT ![t] = j]
  /\ elf' = [elf EXCEPT ![t] = NoElf]
  /\ todo' = [todo EXCEPT ![t] = <<>>]
  /\ out' = [out EXCEPT ![t] = [result |-> "none", elf |-> NoElf]]
  /\ result' = [result EXCEPT ![t] = IF j.valid /\ ~Refused(j) THEN "Success" ELSE "Error"]
  /\ Goto(t, IF Refused(j) THEN "return" ELSE
             IF j.api \in {"stage", "colorExport"} THEN "acquire" ELSE "lookup")
  /\ UNCHANGED <<scenario, cache, acc, ctx, aborted>>

(* The full-pipeline accessor, with CacheFullPipelines; a hit keeps result. *)
LookUpFull(t) ==
  /\ pc[t] = "lookup"
  /\ IF Options.full
       THEN /\ LookUp(t, "full", FullKey(job[t]))
            /\ IF acc'[t]["full"].state = "hit"
                 THEN /\ elf' = [elf EXCEPT ![t] = cache[FullKey(job[t])]]
                      /\ Goto(t, "output")
                 ELSE /\ Goto(t, "acquire")
                      /\ UNCHANGED elf
       ELSE /\ Goto(t, "acquire")
            /\ UNCHANGED <<cache, acc, elf>>
  /\ UNCHANGED <<scenario, job, todo, result, ctx, out, builds, aborted>>

(* How job j is built with options o. *)
Way(o, j) ==
  IF j.api = "colorExport" THEN "glue"
  ELSE IF j.api \in {"stage", "withElf"} \/ j.reloc THEN "unlinked"
  ELSE IF o.part /\ TwoParts(j) THEN "part"
  ELSE "whole"

(* acquireContext, and the choice of the way to build. *)
Acquire(t) ==
  LET way == Way(Options, job[t])
  IN  /\ pc[t] = "acquire"
      /\ ctx' = ctx \cup {t}
      /\ result' = [result EXCEPT ![t] = "Success"]
      /\ todo' = [todo EXCEPT ![t] = CASE way = "part" -> <<"fs", "pre">>
                                       [] way = "unlinked" -> Loop(job[t])
                                       [] OTHER -> <<>>]
      /\ Goto(t, way)
      /\ UNCHANGED <<scenario, cache, job, elf, acc, out, builds, aborted>>

-----------------------------------------------------------------------------
(* buildUnlinkedShaderInternal for each part, as buildPipelineWithRelocatable-*)
(* Elf, buildGraphicsPipelineWithElf and buildGraphicsShaderStage call it.    *)
Visit(t, p, code) ==
  /\ elf' = [elf EXCEPT ![t][p] = code]
  /\ todo' = [todo EXCEPT ![t] = Tail(@)]

(* A stage that failed ends the loop; only the callers other than             *)
(* buildPipelineWithRelocatableElf return its result.                         *)
StageFailed(t) ==
  /\ todo' = [todo EXCEPT ![t] = <<>>]
  /\ IF job[t].api \in {"graphics", "compute"}
       THEN Goto(t, "unlinked") /\ UNCHANGED result
       ELSE Goto(t, "release") /\ result' = [result EXCEPT ![t] = "Error"]

(* The part was compiled earlier and came with the call. *)
UnlinkedGiven(t) ==
  /\ pc[t] = "unlinked" /\ todo[t] # <<>>
  /\ Head(todo[t]) \in job[t].given
  /\ Visit(t, Head(todo[t]), UnlinkedCode(job[t], Head(todo[t])))
  /\ UNCHANGED <<scenario, cache, pc, job, result, acc, ctx, out, builds, aborted>>

(* A fragment shader with generic built-in inputs, but not one that has only  *)
(* barycentric inputs, is refused with RequireFullPipeline.                   *)
NeedsFull(j, p) == p = "fs" /\ j.fs \in Generic

UnlinkedRefused(t) ==
  /\ pc[t] = "unlinked" /\ todo[t] # <<>>
  /\ Head(todo[t]) \notin job[t].given /\ NeedsFull(job[t], Head(todo[t]))
  /\ StageFailed(t)
  /\ UNCHANGED <<scenario, cache, job, elf, acc, ctx, out, builds, aborted>>

(* The stage cache is not used for compute. *)
UnlinkedLookUp(t) ==
  LET p == Head(todo[t])
      k == UnlinkedKey(job[t], p)
  IN  /\ pc[t] = "unlinked" /\ todo[t] # <<>>
      /\ p \notin job[t].given /\ ~NeedsFull(job[t], p)
      /\ IF p = "cs" THEN UNCHANGED <<cache, acc>> ELSE LookUp(t, "unit", k)
      /\ IF p # "cs" /\ Found(k) = "hit"
           THEN Visit(t, p, cache[k][p]) /\ UNCHANGED pc
           ELSE Goto(t, "unlinkedCompile") /\ UNCHANGED <<elf, todo>>
      /\ UNCHANGED <<scenario, job, result, ctx, out, builds, aborted>>

(* buildPipelineInternal of one stage; a success is put in the cache. *)
UnlinkedCompile(t) ==
  LET p == Head(todo[t])
      e == [NoElf EXCEPT ![p] = UnlinkedCode(job[t], p)]
  IN  /\ pc[t] = "unlinkedCompile"
      /\ IF Compiles(job[t], p)
           THEN /\ Visit(t, p, e[p])
                /\ IF p = "cs" THEN UNCHANGED <<cache, acc>> ELSE SetElf(t, "unit", e)
                /\ Goto(t, "unlinked")
                /\ UNCHANGED result
           ELSE /\ cache' = Dropped(t, {"unit"})
                /\ acc' = Without(t, {"unit"})
                /\ StageFailed(t)
                /\ UNCHANGED elf
      /\ UNCHANGED <<scenario, job, ctx, out, builds, aborted>>

(* The stages that there are go to linkRelocatableShaderElf, which takes the  *)
(* glue from the cache.  The linker creates a null fragment shader for a      *)
(* pipeline without one, and a color export shader for one with exports.      *)
Linkable(t) ==
  \/ pc[t] = "glue"
  \/ pc[t] = "unlinked" /\ todo[t] = <<>> /\ job[t].api # "stage"

NeedsGlue(t) ==
  \/ job[t].api = "colorExport"
  \/ job[t].api # "compute" /\ (job[t].fs = NoShader \/ elf[t]["fs"] # NoCode)

LinkPlain(t) ==
  /\ pc[t] = "unlinked" /\ todo[t] = <<>>
  /\ job[t].api = "stage" \/ ~NeedsGlue(t)
  /\ Goto(t, "release")
  /\ UNCHANGED <<scenario, cache, job, todo, elf, result, acc, ctx, out, builds, aborted>>

GlueLookUp(t) ==
  /\ Linkable(t) /\ NeedsGlue(t)
  /\ LookUp(t, "unit", GlueKey(job[t]))
  /\ IF Found(GlueKey(job[t])) = "hit"
       THEN /\ elf' = [elf EXCEPT ![t]["glue"] = cache[GlueKey(job[t])]["glue"]]
            /\ Goto(t, "release")
       ELSE Goto(t, "glueCompile") /\ UNCHANGED elf
  /\ UNCHANGED <<scenario, job, todo, result, ctx, out, builds, aborted>>

(* compileGlue, whose result goes to the cache. *)
GlueCompile(t) ==
  /\ pc[t] = "glueCompile"
  /\ SetElf(t, "unit", [NoElf EXCEPT !["glue"] = GlueCode(job[t])])
  /\ elf' = [elf EXCEPT ![t]["glue"] = GlueCode(job[t])]
  /\ Goto(t, "release")
  /\ UNCHANGED <<scenario, job, todo, result, ctx, out, builds, aborted>>

-----------------------------------------------------------------------------
(* buildGraphicsPipelineWithPartPipelines: fragment part, then the rest. *)
PartLookUp(t) ==
  LET p == Head(todo[t])
      k == PartKey(job[t], p)
  IN  /\ pc[t] = "part" /\ todo[t] # <<>>
      /\ LookUp(t, "unit", k)
      /\ IF Found(k) = "hit"
           THEN Visit(t, p, cache[k][p]) /\ UNCHANGED pc
           ELSE Goto(t, "partCompile") /\ UNCHANGED <<elf, todo>>
      /\ UNCHANGED <<scenario, job, result, ctx, out, builds, aborted>>

PartCompile(t) ==
  LET p == Head(todo[t])
      e == [NoElf EXCEPT ![p] = PartCode(job[t], p)]
  IN  /\ pc[t] = "partCompile"
      /\ IF Compiles(job[t], p)
           THEN /\ Visit(t, p, e[p])
                /\ SetElf(t, "unit", e)
                /\ Goto(t, "part")
                /\ UNCHANGED result
           ELSE /\ cache' = Dropped(t, {"unit"})
                /\ acc' = Without(t, {"unit"})
                /\ result' = [result EXCEPT ![t] = "Error"]
                /\ Goto(t, "release")
                /\ UNCHANGED <<elf, todo>>
      /\ UNCHANGED <<scenario, job, ctx, out, builds, aborted>>

PartLink(t) ==
  /\ pc[t] = "part" /\ todo[t] = <<>>
  /\ Goto(t, "release")
  /\ UNCHANGED <<scenario, cache, job, todo, elf, result, acc, ctx, out, builds, aborted>>

-----------------------------------------------------------------------------
(* buildPipelineInternal of the whole pipeline.                               *)
UsesStageCache(o, j) == o.perStage /\ ~o.part /\ j.api = "graphics"

PerStage(t) == UsesStageCache(Options, job[t])

IrLinkFails(t) ==
  /\ pc[t] = "whole" /\ ~job[t].links
  /\ result' = [result EXCEPT ![t] = "Error"]
  /\ Goto(t, "release")
  /\ UNCHANGED <<scenario, cache, job, todo, elf, acc, ctx, out, builds, aborted>>

(* GraphicsShaderCacheChecker::check, called by generate: the fragment entry, *)
(* then the entry of the other stages.                                        *)
CheckFragment(t) ==
  /\ pc[t] = "whole" /\ job[t].links
  /\ Goto(t, "checkPre")
  /\ IF PerStage(t) /\ job[t].fs # NoShader
       THEN LookUp(t, "fs", StageKey(job[t], "fs"))
       ELSE UNCHANGED <<cache, acc>>
  /\ UNCHANGED <<scenario, job, todo, elf, result, ctx, out, builds, aborted>>

CheckNonFragment(t) ==
  /\ pc[t] = "checkPre"
  /\ Goto(t, "generate")
  /\ IF PerStage(t) /\ job[t].pre # NoShader
       THEN LookUp(t, "pre", StageKey(job[t], "pre"))
       ELSE UNCHANGED <<cache, acc>>
  /\ UNCHANGED <<scenario, job, todo, elf, result, ctx, out, builds, aborted>>

InStageCache(t, p) == p \in {"fs", "pre"} /\ acc[t][p].state = "hit"

(* Code is generated for the stages that were not found.  hasError is set by  *)
(* the diagnostics of those stages.                                           *)
Generate(t) ==
  LET left == {p \in Present(job[t]) : ~InStageCache(t, p)}
  IN  /\ pc[t] = "generate"
      /\ elf' = [elf EXCEPT ![t] = [p \in DOMAIN @ |->
                   IF p \in left THEN WholeCode(job[t], p) ELSE NoCode]]
      /\ result' = [result EXCEPT ![t] =
                      IF \A p \in left : job[t][p] \notin Bad THEN "Success" ELSE "Error"]
      /\ Goto(t, "setPre")
      /\ UNCHANGED <<scenario, cache, job, todo, acc, ctx, out, builds, aborted>>

(* GraphicsShaderCacheChecker::updateAndMerge, whatever the diagnostics said. *)
SetNonFragment(t) ==
  /\ pc[t] = "setPre"
  /\ Goto(t, "setFs")
  /\ IF acc[t]["pre"].state = "must" THEN SetElf(t, "pre", elf[t]) ELSE UNCHANGED <<cache, acc>>
  /\ UNCHANGED <<scenario, job, todo, elf, result, ctx, out, builds, aborted>>

(* The half of the pipeline that p is in comes from the cache if it is there. *)
Merged(t, e, p) == IF InStageCache(t, p) THEN cache[acc[t][p].key][p] ELSE e[p]

SetFragment(t) ==
  /\ pc[t] = "setFs"
  /\ Goto(t, "release")
  /\ IF acc[t]["fs"].state = "must" THEN SetElf(t, "fs", elf[t]) ELSE UNCHANGED <<cache, acc>>
  /\ elf' = [elf EXCEPT ![t] = [p \in DOMAIN @ |-> Merged(t, @, p)]]
  /\ UNCHANGED <<scenario, job, todo, result, ctx, out, builds, aborted>>

-----------------------------------------------------------------------------
(* Mutant: a build that failed keeps its context. *)
ReleaseOnSuccess(t) ==
  /\ pc[t] = "release"
  /\ ctx' = IF result[t] = "Success" THEN ctx \ {t} ELSE ctx
  /\ cache' = Dropped(t, {"fs", "pre", "unit"})
  /\ acc' = Without(t, {"fs", "pre", "unit"})
  /\ Goto(t, "output")
  /\ UNCHANGED <<scenario, job, todo, elf, result, out, builds, aborted>>

(* The accessors of the stages are gone; releaseContext on every path. *)
Release(t) ==
  /\ pc[t] = "release"
  /\ ctx' = ctx \ {t}
  /\ cache' = Dropped(t, {"fs", "pre", "unit"})
  /\ acc' = Without(t, {"fs", "pre", "unit"})
  /\ Goto(t, "output")
  /\ UNCHANGED <<scenario, job, todo, elf, result, out, builds, aborted>>

(* The ELF is copied to the caller and a miss of the full pipeline populated; *)
(* without an allocator, or after an error, its entry is given up.            *)
Output(t) ==
  LET ok == result[t] = "Success" /\ job[t].alloc
  IN  /\ pc[t] = "output"
      /\ ok => acc[t]["full"].state # "held"
      /\ cache' = IF ok /\ acc[t]["full"].state = "must"
                    THEN Store(acc[t]["full"].key, elf[t])
                    ELSE Dropped(t, {"full"})
      /\ acc' = Without(t, {"full"})
      /\ out' = [out EXCEPT ![t] = IF ok THEN [result |-> "Success", elf |-> elf[t]]
                                        ELSE [result |-> "Error", elf |-> NoElf]]
      /\ Goto(t, "idle")
      /\ UNCHANGED <<scenario, job, todo, elf, result, ctx, builds, aborted>>

(* The early return of a refused call. *)
Return(t) ==
  /\ pc[t] = "return"
  /\ out' = [out EXCEPT ![t] = [result |-> "Error", elf |-> NoElf]]
  /\ Goto(t, "idle")
  /\ UNCHANGED <<scenario, cache, job, todo, elf, result, acc, ctx, builds, aborted>>

(* setElfInCache is reached with accessor a. *)
Populating(t, a) ==
  IF a = "full" THEN pc[t] = "output" /\ result[t] = "Success" /\ job[t].alloc
  ELSE \/ pc[t] = "glueCompile"
       \/ pc[t] \in {"unlinkedCompile", "partCompile"} /\ Compiles(job[t], Head(todo[t]))

AssertFails(t) == \E a \in {"full", "unit"} : Populating(t, a) /\ Asserts(t, a)

Step(t) ==
  \/ LookUpFull(t) \/ Acquire(t) \/ Release(t) \/ Output(t) \/ Return(t) \/ AssertFails(t)
  \/ UnlinkedGiven(t) \/ UnlinkedRefused(t) \/ UnlinkedLookUp(t) \/ UnlinkedCompile(t)
  \/ LinkPlain(t) \/ GlueLookUp(t) \/ GlueCompile(t)
  \/ PartLookUp(t) \/ PartCompile(t) \/ PartLink(t)
  \/ IrLinkFails(t) \/ CheckFragment(t) \/ CheckNonFragment(t) \/ Generate(t)
  \/ SetNonFragment(t) \/ SetFragment(t)

Next == ~aborted /\ \E t \in Threads : Step(t) \/ \E j \in Options.jobs : Begin(t, j)

(* A started build is scheduled until it returns; nobody has to start one. *)
Fairness == \A t \in Threads : WF_vars(~aborted /\ Step(t))

Spec == Init /\ [][Next]_vars /\ Fairness

-----------------------------------------------------------------------------
(* The state has its types; a thread only works on parts its job has, and a  *)
(* context belongs to the build of one thread.                              *)
TypeOK ==
  /\ pc \in [Threads -> {"idle", "lookup", "acquire", "return", "unlinked", "unlinkedCompile",
                         "glue", "glueCompile", "part", "partCompile", "whole", "checkPre",
                         "generate", "setPre", "setFs", "release", "output"}]
  /\ result \in [Threads -> {"Success", "Error"}]
  /\ \A t \in Threads : /\ job[t] \in Options.jobs
                         /\ \A a \in Accessors : acc[t][a].state \in AccStates
                         /\ DOMAIN elf[t] = DOMAIN NoElf
                         /\ todo[t] # <<>> => Head(todo[t]) \in Present(job[t])
  /\ ctx \subseteq Threads /\ builds \in 0..MaxBuilds /\ aborted \in BOOLEAN

(* A part that a build in relocatable stages has to compile and cannot, and   *)
(* the parts that the loop over the stages has when it ends.                  *)
Fails(j, p) == p \notin j.given /\ (NeedsFull(j, p) \/ j[p] \in Bad)

Linked(j) ==
  {p \in Present(j) : ~Fails(j, p) /\ ~(p = "fs" /\ "pre" \in Present(j) /\ Fails(j, "pre"))}

NoneBad(j) == \A p \in Present(j) : j[p] \notin Bad

(* The ELF that answers job j: the code of its parts, all of it compiled in   *)
(* one way and against each other, with the glue that linking separately      *)
(* compiled stages takes.                                                     *)
Glued(o, j) ==
  \/ Way(o, j) = "glue"
  \/ Way(o, j) = "unlinked" /\ j.api \in {"graphics", "withElf"} /\ (j.fs = NoShader \/ "fs" \in Linked(j))

Answer(o, j) ==
  [p \in PartSet \cup {"glue"} |->
     IF p = "glue" THEN IF Glued(o, j) THEN GlueCode(j) ELSE NoCode
     ELSE IF p \notin Present(j) THEN NoCode
     ELSE CASE Way(o, j) = "whole" -> WholeCode(j, p)
            [] Way(o, j) = "part" -> PartCode(j, p)
            [] Way(o, j) = "unlinked" -> IF p \in Linked(j) THEN UnlinkedCode(j, p) ELSE NoCode
            [] Way(o, j) = "glue" -> NoCode]

(* The jobs that a build may return Success for.  Two ways are lenient with a *)
(* stage that fails: a relocatable pipeline is linked without that stage and  *)
(* the ones after it, and with the cache for stages its code may be found.    *)
MayBuild(o, j) ==
  /\ j.links
  /\ j.api = "compute" => j.valid
  /\ CASE Way(o, j) = "whole" -> NoneBad(j) \/ UsesStageCache(o, j)
       [] Way(o, j) = "part" -> NoneBad(j)
       [] Way(o, j) = "unlinked" -> Linked(j) = Present(j) \/ j.api \in {"graphics", "compute"}
       [] Way(o, j) = "glue" -> TRUE

(* The jobs that have everything they need and no stage that fails. *)
Buildable(j) ==
  /\ j.alloc /\ j.links
  /\ NoneBad(j) \/ j.api = "colorExport"
  /\ j.api = "compute" => j.valid
  /\ j.api \in {"stage", "withElf"} => \A p \in Present(j) \ j.given : ~NeedsFull(j, p)

(* What the callers are taken to ensure.  A shader is one of one stage, and a *)
(* pipeline a graphics or a compute one.  Jobs with the hash of one pipeline  *)
(* differ in the client's buffers and in nothing else.  A part that is given  *)
(* was compiled without an error, and only whole pipelines have interfaces    *)
(* that fail to link.  A build that may find its pipeline is valid, for a hit *)
(* leaves the result of the validation.                                       *)
WellFormed(o, j) ==
  /\ j.cs # NoShader => j.pre = NoShader /\ j.fs = NoShader
  /\ Way(o, j) # "whole" => j.links
  /\ \A p \in j.given : j[p] \notin Bad
  /\ o.full /\ j.api \notin {"stage", "colorExport", "compute"} => j.valid

SamePipeline(i, j) == i.api = j.api /\ (i.links <=> j.links) /\ i.given = j.given

WellPosed(o) ==
  /\ \A j \in o.jobs : WellFormed(o, j)
  /\ \A i, j \in o.jobs : \A p, q \in PartSet : i[p] = j[q] /\ i[p] # NoShader => p = q
  /\ \A i, j \in o.jobs : o.full /\ {i.api, j.api} \cap {"stage", "colorExport"} = {}
                           /\ FullKey(i) = FullKey(j) => SamePipeline(i, j)

(* A build of a job without a fault returns Success.  Whatever was taken from *)
(* the cache for other pipelines, merged or linked, the ELF of a build that   *)
(* returns Success is exactly the one that answers its job, every stage       *)
(* compiled against the others.  A stage that fails is reported by every way  *)
(* to build except two: the pipeline of relocatable stages, which then lacks  *)
(* that stage and the ones after it, and the pipeline whose stages are looked *)
(* up in the cache for stages.                                                *)
AnswersRequest ==
  \A t \in Threads : pc[t] = "idle" /\ out[t].result # "none" =>
    /\ Buildable(job[t]) => out[t].result = "Success"
    /\ out[t].result = "Success" => /\ job[t].alloc /\ MayBuild(Options, job[t])
                                    /\ out[t].elf = Answer(Options, job[t])

(* Success means that the pipeline is complete: there is code for each of its *)
(* stages, as "other return codes indicate failure" says.                     *)
SuccessIsComplete ==
  \A t \in Threads : pc[t] = "idle" /\ out[t].result = "Success" =>
    \A p \in Present(job[t]) : job[t].api = "colorExport" \/ out[t].elf[p] # NoCode

(* The shaders of the code that the entry of k is looked up for. *)
ShadersIn(k) == IF k[1] = "pipeline" THEN {k[2], k[3], k[4]} ELSE {k[2]}

(* The entry of k holds, as what it is looked up for, the code of a shader    *)
(* whose compile reported an error.                                           *)
FailedCodeAt(k, p) ==
  /\ cache[k] \notin {Compiling, Empty} /\ cache[k][p] # NoCode
  /\ cache[k][p][2] \in ShadersIn(k) \cap Bad

(* "With the compiled pipeline or with a failure state": entries never hold   *)
(* the code of a shader whose compile reported an error.                      *)
NoFailedCodeCached == \A k \in DOMAIN cache : \A p \in PartSet : ~FailedCodeAt(k, p)

(* Code of a shader whose compile reported an error gets into the cache only  *)
(* by way of the cache for stages: no build in relocatable stages or part     *)
(* pipelines, and no process without that cache, leaves any for later builds, *)
(* whichever threads, failures and hits the entries come from.                *)
FailedCodeConfined ==
  \A k \in DOMAIN cache : \A p \in PartSet : FailedCodeAt(k, p) =>
    /\ k[1] \in {"stage", "pipeline"} /\ cache[k][p][1] = "whole"
    /\ Options.perStage /\ ~Options.part

(* An entry is being compiled exactly while one thread that is inside a build *)
(* has to populate it, and the context of a build is released when it         *)
(* returns, on every error path.                                              *)
NothingLeftBehind ==
  /\ \A k \in DOMAIN cache : cache[k] = Compiling <=>
       Cardinality({x \in Threads \X Accessors :
                     acc[x[1]][x[2]] = [state |-> "must", key |-> k]}) = 1
  /\ \A t \in Threads : pc[t] = "idle" =>
       t \notin ctx /\ acc[t] = [a \in Accessors |-> NoAcc]

(* Threads that wait for each other's entries while they hold entries of      *)
(* their own never all wait: every build that is started returns.             *)
BuildsReturn == \A t \in Threads : pc[t] # "idle" ~> (pc[t] = "idle" \/ aborted)
==============================================================================
