# A TLA+ model of LLPC

LLPC is the LLVM-based shader compiler of AMD's Vulkan and OpenGL drivers. Most
of it is a pipeline of IR transformations by one thread. What is hard to test is
of two kinds, and this project models both:

* what several threads, compilers or processes **share** around that pipeline:
  the shader cache in memory and on disk, the handles through which builds fill
  it, the builds themselves, the helper threads of a ray tracing build, and the
  process-wide compiler state with its pool of LLVM contexts;
* the **parallel programs the compiler emits**: the code that LGC wraps around
  mesh shaders and NGG primitive shaders, run by waves that share LDS, meet at
  barriers and share stream-out counters. No test of the repository runs that
  code; the lit tests compare its text.

## Inventory

| Component | State | Operations | Interacts with |
|---|---|---|---|
| `ShaderCache`, in memory (`llpc/tool/llpcShaderCache.cpp`) | index map of entries (New, Compiling, Ready; blob), one mutex, one condition variable, callbacks of the client's external cache | `findShader`, `insertShader`, `resetShader`, `retrieveShader`, `Merge`, `Serialize`, `waitForEntry` | the client's store through two callbacks; the file; `ShaderCacheWrap` |
| `ShaderCache`, on disk (same file, `llpc/util/llpcFile.cpp`) | file header (build, count, end of data), records, CRCs, stdio's buffer | `init`, `loadCacheFromFile`, `loadCacheFromBlob`, `populateIndexMap`, `addShaderToFile`, `resetCacheFile` | in-memory half; other processes with the same file |
| `ShaderCacheWrap` (`llpc/tool/llpcShaderCacheWrap.cpp`) | none of its own | `GetEntry`, `ReleaseEntry`, `WaitForEntry`, `GetValueZeroCopy`, `SetValue` | implements `ICache` over `ShaderCache` |
| `EntryHandle` (`include/vkgcDefs.h`), `CacheAccessor` (`llpc/util/llpcCacheAccessor.cpp`) | handle, `m_mustPopulate`, lookup result, ELF pointer | construct (look up), `isInCache`, `setElfInCache`, destructor (`Put`) | build functions on one side, `ICache` on the other |
| Parallel for (`llpc/util/llpcThreading.cpp`) | joined / unlocked / error flags, the error, task counters, a condition variable and an event | `parallelForWithContextImpl`, `runHelperThread`, `runInnerLoop`, `recordError` | the client's `IHelperThreadProvider`, or the internal one; ray tracing builds |
| Compiler instances and context pool (`llpc/context/llpcCompiler.cpp`) | parsed options and their hash, two counters, LLVM's fatal error handler, contexts with in-use flags and use counts | `ICompiler::Create`, `~Compiler`, `acquireContext`, `releaseContext` | all builds of all compilers in the process |
| Pipeline building (`llpcCompiler.cpp`, `lgc/lowering/CheckShaderCache.cpp`, `lgc/elfLinker`) | nested cache accessors (pipeline, stages, relocatable ELFs, glue, parts), a context | `BuildGraphicsPipeline`, `BuildComputePipeline`, `buildPipelineWithRelocatableElf`, `buildPipelineWithPartPipelines`, `GraphicsShaderCacheChecker`, color export | cache, pool, ELF linker |
| Ray tracing building (`llpcCompiler.cpp`, `llpcRayTracingContext`, `RayTracingLibrarySummary`) | modules and ELFs per shader, the shared context and library summary | `BuildRayTracingPipeline` and its task function | parallel for, pool |
| Mesh shaders (`lgc/lowering/MeshTaskShader.cpp`) | per workgroup: LDS (counts, primitives, vertex and primitive outputs, barrier toggle and flag); exports | the blocks emitted before, within and after the API shader | waves of a workgroup; amplification factor of `CollectResourceUsage` |
| NGG primitive shaders (`lgc/lowering/NggPrimShader.cpp`) | per subgroup: LDS regions that share their place; stream-out counters and buffers of a draw | the blocks of the three kinds of shader, the cullers | waves of a subgroup, subgroups of a draw |
| `Context` (`llpc/context/llpcContext.cpp`) | LGC context, GPURT library | `getLgcContext`, `loadLibrary`, `reset` | pool |
| SPIR-V translator, other front-end and LGC passes, builder, disassembler, continuations, compiler utilities | the IR module being transformed | one pass each | called in sequence by pipeline building |
| amdllpc, VFX parser, pipeline dumper | command line, files | drivers of the above | compiler interface |

What makes it hard: `findShader` drops and retakes its mutex and sleeps while
another thread compiles; `retrieveShader` looks at an entry without the mutex;
a file is appended to by three buffered writes, any of which may fail or be
lost; a build holds an open entry while it waits for others; notifications are
sent outside of mutexes; helper threads come when they like; the last
compiler's shutdown runs without a lock; emitted code has waves the API shader
does not know of, regions of LDS that succeed each other in one place, and a
hand-written ordering of subgroups. `PROJECT.json` lists each hazard at its line.

What makes each component correct:

* **cache**: a shader is compiled by one thread at a time, those who wait for it
  wake up, and what a reader was given stays;
* **cache file**: what was inserted and flushed is found again after a crash or
  failure, unless it was reported lost; a file of another build is not used; a
  serialized cache loads; loading stays within the data that was read;
* **accessor**: the obligation to populate an entry is with exactly one handle
  until it is discharged, and an ELF from the cache is a finished shader;
* **pipeline build**: the ELF returned is that of the request, whatever others
  put into the cache; a stage that fails is reported; what a failed compile
  leaves in the cache is not taken for code; entries and contexts are released on
  every path; builds that wait for each other return;
* **parallel for**: each claimed task is completed exactly once, the exclusion the
  caller asked for is kept, the caller gets the outcome when nobody has a task in
  hand any more, and it returns;
* **ray tracing build**: result, output and summary are those of a sequential
  build, and no helper clones out of the main thread's context while the main
  thread compiles in it;
* **pool**: a context serves one build at a time and outlives it, the pool and
  the handler are there while a compiler is, and options are never changed
  under a live compiler;
* **mesh and primitive shaders**: the hardware receives the primitives and
  vertices that the API says, with one request for space, in any interleaving;
  no wave uses what another may be overwriting in LDS; stream-out is in draw
  order; every wave ends; a culler takes away nothing that would show.

## Modules

| Module | Models | Variables and steps |
|---|---|---|
| `CompileOnce` | what a cache promises (abstract) | per key the set of builders and the finished shader; `Start`, `Finish`, `GiveUp`, `Import` |
| `ShaderCache` | in-memory cache, external cache, success or failure of the file | `entry` is `m_shaderIndexMap`, `lock` is `m_lock` between steps, `pc` where a thread is; `Find*` are the outcomes of `findShader`, `Insert*` the parts of `insertShader`, `Retrieve*` the unlocked and the locked half of `retrieveShader` |
| `ShaderCacheFile` | the file and the serialized blob | the file as a header and cells, per cache its copy in memory, where it is, and the writes still in stdio's buffer; `past`, the caches that loaded from beyond the end of their data; loading and appending write by write, `Serialize`, `Merge`, `ResetShader`; `ReadPast` and `InitPast` load a torn file or blob; `Crash`, failed opens, reads and writes, and `WriteLost` are the faults |
| `CacheAccessor` | `CacheAccessor`, `EntryHandle` and `ShaderCacheWrap`, composed with `ShaderCache` | `phase`, `result` (`m_cacheResult`), `handle` (with `m_mustPopulate`), `elf` (`m_elf`); its actions call those of `ShaderCache` |
| `PipelineBuild` | graphics and compute builds of several threads | per thread its job, place and four accessors (whole pipeline, fragment and pre-raster stages, one unit of a link); the cache as `CompileOnce` promises it; the contexts taken |
| `ParallelFor` | `parallelForWithContextImpl` with both providers | the flags of `ParallelForWithContextState`, the provider's counters, `pc` and the local variables; one step per access to an atomic, notification or wait |
| `RayTracingBuild` | `BuildRayTracingPipeline` with its helpers | claimed tasks, contexts, the gate with its test, sleep and notification, the two locks of the build, shared flags and summary, ELFs and output of a caller's successive requests |
| `CompilerPool` | `Create`, `~Compiler`, `acquireContext`, `releaseContext` | the statics of `llpcCompiler.cpp`, the set of command lines LLVM's options come from (`inEffect`), the contexts on the heap, the compilers of the clients; `rejected` and `raced` remember a rejected line and a creation during a shutdown |
| `MeshShader` | emitted mesh shader code | per wave its place, barrier and registers; LDS or per-thread memory; requests and exports; the hardware barrier releases waves |
| `PrimShaderInput` | what a primitive shader is compiled from, layout of LDS, one GS thread | operators; `Primitives` is the reference assembly of strips as the API defines it |
| `Cullers` | the five cullers in exact arithmetic | operators; `Visible` is the reference: which triangles a rasterizer may show |
| `PrimShader` | emitted primitive shader code | per wave the blocks left (`Program` is the compiler's choice of blocks); LDS with what was touched since the last barrier, by whom, and whether the value was used, registers, stream-out counters and buffers, exports |
| `ShaderCacheFileProofs`, `CacheAccessorProofs`, `CompilerPoolProofs`, `ParallelForProofs`, `RayTracingBuildProofs`, `PipelineBuildProofs`, `MeshShaderProofs`, `PrimShaderProofs` | theorems about the module they are named after; `CacheAccessorProofs` also holds those about `ShaderCache` | |
| `MC*` | instances for TLC (symmetry, shaders, requests) | |

Each module keeps a `TypeOK`, on which proofs build; the runs spend their
properties on behaviour. Each module also holds, before the definition they
vary, a few definitions marked *Mutant*: the definition as a plausible bug would
have it. Every property of every passing run is violated when the mutant that
`PROJECT.json` names takes the definition's place.

### Abstractions

* **Cache.** Blobs and ELFs are model values. `EmptyBlob` is a value of size 0,
  for which `retrieveShader` returns `ErrorUnknown`; `NoBlob` is
  `dataBlob = nullptr`. A critical section is one step, except `insertShader`'s,
  in which an unlocked reader can see the entry Ready before the file is
  written. Read and write locking of the cache map are the same: `CacheMapLock`
  uses one mutex for both. `useExt` turns false when a callback says the
  external cache is unavailable.
* **File.** A record takes a few cells and a write may stop after some; the CRC
  is taken to tell a whole record from anything else within the data.
  `populateIndexMap` has no check against the end of the data in a release build:
  where the count of the header leads it to or beyond the end, it reads whatever
  is there, and the process stops, fails to load, or goes on with an index of
  which only the part read from the data is known (`Guesses`). `Merge` happens
  between whole operations of other threads.
* **Accessor.** An assertion that does not hold is a phase in which the thread
  stops, so that the runs can say when it happens.
* **Pipeline build.** An ELF is, for each part, its shader and what its code
  depends on. A shader whose compile reports an error still yields code, as in
  the code of the compiler: what happens to it differs between the ways to build.
  `Generic` are the fragment shaders with generic built-in inputs, `Barycentric`
  those with barycentric ones: the first are refused by relocatable builds, both
  have the stage before them in their key. The link never fails recoverably;
  textual output, unlinked pipelines of the client and the debugging limit on
  relocatable ELFs are left out; the transform vertex shader option has no effect.
* **Parallel for.** The mutex of the gate's wait is not a variable: only helpers
  take it, for a test and the beginning of the wait. The client's
  `IHelperThreadProvider` is taken to implement the counters correctly; its
  threads enter after they saw a remaining task, as `llpc.h` asks of them. A
  setup says which helpers are extra threads and whose provider is used.
* **Ray tracing build.** The loop is that of `ParallelFor` with its flags, gate and
  claims; what is one step here are the completion of a task and the record of
  its error. Extra threads together with a client's provider are left to
  `ParallelFor`. A shader is what it does to flags, VGPR count and diagnostics.
  Left out are a missing output allocator, after which the code copies through a
  null pointer (`llpcCompiler.cpp:2872-2889`), and errors in the module state
  metadata of traversal and entry (3369, 3388), modules that the compiler itself
  writes.
* **Pool.** The vector is a set, so the context found first is any. A compiler's
  builds may hold several contexts, as ray tracing builds do. A rejected
  command line is only seen by ICD clients; for others LLVM exits. Of a line
  that is rejected the options before the error may have been accepted, or none.
* **Mesh shader.** An API shader is a trace of operations that a wave executes
  for all its threads. `IsShader` says what SPIR-V asks of one: the output counts
  are set at most once and are within the declared maxima, only invocations of
  the workgroup write, and two of them write one output only with a barrier in
  between. An operation is `direct` when its index is `LocalInvocationIndex` itself,
  which is what `meshOutputsToAllocas` looks for. Reading a per-thread output that
  was never written gives zero, the choice LLVM's optimizer makes.
* **Primitive shader.** A read without a guard is recorded for all lanes of the
  wave, also those whose offset is beyond the region; what a later block does not
  look at is marked unused. The signs of cull distances decide nothing by
  themselves: they are among what a culled primitive is read from. One dword
  stands for the outputs, and one for the inputs, of a vertex. In most draws the
  set of culled primitives is given, any set; in those with positions it is what
  `Cullers` computes. Coordinates are integers and `w` a power of two, so that the
  float arithmetic is exact; `VTX_XY_FMT` and `VTX_Z_FMT` are 0.

## Runs

| Run | Bounds | Shows |
|---|---|---|
| `cache_file` | 3 threads, 2 shaders, 2 blobs, 2 failures | one compiler per entry, no lost wake-up, hits and blobs stay valid across others' rollbacks, `CompileOnce` is implemented |
| `cache_runtime` | 3 threads, 1 shader, 2 failed compiles, no file | the unlocked test of `retrieveShader` is harmless without a file; `findShader` always returns |
| `file` | 2 caches, 2 builds one at a time, a small and a large shader, 3 sessions, 4 counted shaders, 1 fault (1 279 071 states) | durability, no foreign build within the data, serialized caches load |
| `accessor` | 2 threads, 2 shaders, 2 failed writes (400 752 states) | the obligation to populate, validity of what a lookup found, every accessor finishes |
| `pipeline` | 2 threads, 3 builds, of whole, relocatable or part pipelines, with and without stages that fail and with and without the cache for stages (305 256 states) | answers, where failed code may be, nothing left behind, builds return |
| `parallel` | 2 helpers, extra threads, the client's or one of each, 3 tasks, each exclusion, any set of failing tasks (494 261 states) | completion, exclusion, outcome, no task or error in hand after the wait; without exclusion the call returns |
| `raytracing` | 2 helpers, requests of up to 3 shaders, up to 2 requests, each mode, 1 fault (137 868 states) | result, summary, output, exclusive main context, everything returned unless a helper is stranded |
| `pool` | 3 clients, 2 command lines, 2 chips, 2 contexts, reuse limit 1 (814 788 states) | exclusive use; pool and handler alive until a creation overlaps a shutdown; own options until a line is rejected |
| `mesh` | workgroups of 1 to 4 waves of 2 threads, barriers executed 0 to 3 times, both ways of export (9 694 states) | barriers in step, exports right, one request, waves end |
| `prim` | 1 to 3 waves of 4 threads, 2 streams, 2 buffers, up to 3 subgroups; 210 triangles under 12 or 33 settings of the culling registers (20 633 states) | exports, the space for them and one request for it, nothing used that another wave may write, stream-out with its counters on GFX12, no visible triangle culled, waves end |
| `parallel_no_first_task` (violation) | 1 helper, 1 task | the gate is never unlocked |
| `mesh_wide_array` (violation) | 1 wave | an element of an array of 64-bit vectors is stored over another |

Why the bounds are enough. Three threads give an owner, a sleeper and a third
that acts between the two; two failures let an entry be rolled back, taken up
by another thread and rolled back again; two keys show that notifications and
locks of one entry do not disturb another. Three sessions are a cache that
writes, one that finds what a crash left and one that finds what *it* made of
that; a large record can be torn where a small one cannot. Three builds on two
threads let one finish while two share entries. Three tasks let one be claimed
by each thread, or all by one. Reuse limit 1 with at most three uses lets a
context be used, reused and replaced. Three waves let a primitive's vertices
lie in two waves with a wave between that loses all of its own; three subgroups
let a buffer fill up in the one that is neither first nor last. The points of
the culled triangles lie on pixel centres and edges, around each border of the
viewport and beyond the far plane, and behind the eye. For the safety properties
that are proved (see Proofs) the bounds do not matter at all: they are left for
liveness and for most of what is said of primitive shaders.

Bounds by name: `MaxFailures` (failing compiles and writes), `MaxFaults` (crashes,
failed I/O; bitcode that does not load), `MaxSessions`, `MaxShaders`, `MaxBuilds`,
`MaxUses` (with reuse limit 1 never reached), `Contexts`.

Deadlock is checked in the cache's runs. The others say `CHECK_DEADLOCK FALSE`:
loops, builds, sessions and waves come to an end, and a thread stops at an
assertion or `llvm_unreachable`.

### Fairness

* `cache_runtime`, `accessor`: a thread in an operation is scheduled, a mutex
  that is free is given to a thread that asks for it, and a compile ends. The
  last is the code's own rule: the destructor of `EntryHandle` settles every
  entry it owes. No thread is obliged to start another operation. A thread that
  sleeps on the condition variable is under no fairness at all: it wakes up by a
  notification, and spurious wake-ups happen but are not relied on. Weak fairness
  suffices for the mutex because its only holder between two steps finishes its
  insertion without waiting.
* `parallel`, `raytracing`: every thread that has entered is scheduled; helpers
  are not obliged to come; spurious wake-ups happen but are not relied on. A ray
  tracing build under a client's provider may hang as `ParallelFor` shows: a
  helper sleeps at the gate with a claimed task and the main thread waits for it
  (`Stranded`). `ReturnsUnlessStranded` says that nothing else keeps a build from
  returning with all its contexts in the pool.
* `pipeline`: the thread of a build that was started is scheduled. Nobody is
  obliged to start one.
* `mesh`, `prim`: the hardware runs its waves, and a barrier that all have reached
  opens. A wave that spins for its turn holds up no other wave: subgroups are
  launched in order, so the one whose turn it is runs.

## Proofs

Each theorem holds for every value of the constants that satisfies the named
`ASSUME`s of the module, so for any number of threads, shaders, tasks, sessions
and faults. The assumptions are of three kinds: special values differ from
ordinary ones (`NoBlob`, `Hole`, `Missing`...); numbers and flags have their
type; and a few sets are finite because they are counted: the compilers of a
process, the helper threads of a call, the 64-bit hashes that are keys of a cache
file, the libraries a ray tracing pipeline links. `RayTracingBuild` also takes over
an assertion of the code, that a library is indirect; that what is linked are
libraries of the request's own mode, which the driver sets for the device
(`LinkingAssumption`); and that a bit of a ray flag is not known to be set and to
be unset (`BitsAssumption`). Of mesh and of primitive shaders it is assumed that
they are `IsShader` of their module (`ShadersAssumption`).

A theorem has a further hypothesis only where the property fails without it; how
it fails is under Disagreements found, except for what `WellPosed` asks of the
callers. TLC evaluates that the instances of the runs satisfy `WellPosed` and
`IsRegular`. `Durable` and `BlobLoads` carry their own conditions: no fault hit an
insertion, no entry without data was merged.

| Theorem | Property | Hypothesis |
|---|---|---|
| `CacheAccessorProofs!CompiledByOne` | `OneCompiler` | |
| `CacheAccessorProofs!WakeupsNotLost` | `NoMissedWakeup` | |
| `CacheAccessorProofs!HitsStay`, `BlobsStay` | `HitRetrieves`, `HandedOutBlobStays` | |
| `CacheAccessorProofs!RuntimeNeverNull` | `RetrieveNeverNull` | no file (`~FileOpen`) |
| `CacheAccessorProofs!Refinement` | `ImplementsCompileOnce` | |
| `ShaderCacheFileProofs!FileDurable` | `Durable` | |
| `ShaderCacheFileProofs!OwnBuildOnly` | `OnlyOwnBuild`, of caches that loaded nothing from beyond their data | builds do not have the file open at one time (`~MixedBuilds`) |
| `ShaderCacheFileProofs!BlobsLoad` | `BlobLoads` | |
| `CacheAccessorProofs!AccessorsUseCache`, `AccessorsCompileOnce` | `ShaderCache` and `CompileOnce` are implemented | |
| `CacheAccessorProofs!ObligationKept`, `ElfKept` | `ObligationTracked`, `ElfStaysValid` | |
| `CacheAccessorProofs!ReadBack` | `ReadBackSucceeds` | no file |
| `CompilerPoolProofs!UsedExclusively`, `ReuseKept` | `ExclusiveUse`, `ReuseBounded` | |
| `CompilerPoolProofs!OptionsKept` | `OptionsNotMixed`, which ends when a command line is rejected | |
| `CompilerPoolProofs!PoolKept` | `PoolAlive`, which ends when a creation overlaps the shutdown | |
| `ParallelForProofs!CompletedOnce`, `ExclusionKept`, `OutcomeReturned`, `TasksEnd` | `CompletedOncePerClaim`, `ExclusionRespected`, `ReturnsOutcome`, `TasksOver` | |
| `RayTracingBuildProofs!MainContextKept`, `ResultKept` | `MainContextExclusive`, `ResultRight` | |
| `RayTracingBuildProofs!SummaryKept`, `OutputKept` | `SummaryComplete`, `OutputComplete` | |
| `RayTracingBuildProofs!MergesKept` | every step respects `MergesIntoCurrent` | |
| `PipelineBuildProofs!NothingKept` | `NothingLeftBehind` | |
| `PipelineBuildProofs!AnswersKept`, `FailuresKept` | `AnswersRequest`, `FailedCodeConfined` | the jobs are `WellPosed` |
| `MeshShaderProofs!InStepKept`, `OneRequestKept` | `InStep`, `OneRequest` | |
| `MeshShaderProofs!ExportsKept` | `ExportsRight` | the shaders are regular (`IsRegular`) |
| `PrimShaderProofs!RequestKept` | `RequestFirst` | |

`TypeCorrect` (twice), `Inductive`, `AccessorInductive`, `PoolInductive`,
`ParallelInductive`, `RayTracingInductive`, `SummaryInductive`, `PipelineInductive`,
`PipelineAnswers`, `StagesInductive`, `RequestInductive` and `WavesInductive` state
the invariants these rest on.

### The arguments

None of the properties is inductive alone. What each inductive invariant adds:

* **Cache** (`IInv`): the shape of entries (a blob exactly when Ready), the use of
  the mutex (held between steps exactly by the thread that writes the file, whose
  entry is Ready), and what a reader knows: an entry announced as Ready is Ready
  *and* no insertion of it is pending, so no rollback can withdraw it. Without a
  file there is no rollback, hence an entry that was Ready at the unlocked test
  of `retrieveShader` still is at the read. In the refinement a shader counts as
  done once it is Ready and nobody inserts it any more; the builders of a key are
  the threads that compile or insert it. A find that sleeps or hits, readers and
  notifications are stutters; a rollback is `GiveUp`; an external hit is `Import`.
* **Accessor** (`AInv`): the cache's `IInv`, with, per phase of an accessor, what
  the thread inside the cache has been told. Each action of an accessor is an
  action of `ShaderCache` or leaves its variables alone, so every theorem about
  the cache holds for a cache with accessors.
* **Cache file** (`BaseInv`, `OwnInv`, `BlobInv`, `FileInv`): where a cache has the
  file open and what for; whose records are where; that allocations and blobs are
  whole records, at least as many as they count; and, as long as nothing
  disturbed the file, that its records are those reported as added, up to the
  record that is being written, whose place the header does not yet count. The
  property is about a loop (`populateIndexMap`) over any number of records, so it
  takes induction: `Least` and `Induction` get it from the well-foundedness of
  the naturals, for the *set* of numbers for which a claim holds. With it, the
  recursion for the offsets of records is shown to define a function
  (`OffsetDef`); records that lie one behind the other parse (`ChainSteps`); a
  record appended to a parsed file adds its key to the index and changes nothing
  else (`ParsedAppend`, `IndexAppend`); `Merge` concatenates whole records
  (`MergeParsed`). One lemma per action says what it does to memory, file and blob
  (`...Effect`), and four say that the invariants survive.
* **Pool** (`IInv`): the two counters count the compilers that have not come to
  their decrement in `~Compiler` (hence the finite clients), only live compilers
  hold contexts, and compilers that redirect output share the command line whose
  hash is kept, until a line is rejected. Shutdown runs without a lock; whoever
  shuts down is the last instance until it is done, unless a creation comes in
  between, which `raced` remembers.
* **Parallel for** (`IInv`): no task is lost (it ran, or is drained because of an
  error, or is with a thread, or has yet to be claimed), with the provider's
  counters as cardinalities of sets of threads, hence the finite helpers; helpers
  past the gate found the main thread unlocked; the main thread has a context in
  its second pass; once a task failed there is an error or a thread is about to
  record one, and the error is that of a failed task once it is stored.
* **Ray tracing build** (`IInv`): a helper has a context of its own and runs tasks
  only after the main thread gave up the main context, which it does before it
  takes its next task; an error is with the context that saw it until
  the loop's outcome has it; whoever merges holds the lock since it read. On top
  of it `SumInv` says what the shared summary is while it is being put together:
  the ray flags are those that the libraries and the shaders read so far have in
  common (`FlagInv`); merged are the libraries to begin with and every shader
  whose task got that far (`MergeInv`, `ElfInv`), so all of them when the loop
  has ended; the traversal module and the entry are built from that (`LastInv`);
  and a library leaves the summary of all its shaders to those that link it
  (`BuiltInv`). The libraries of a library are in it: `LibsOf` is a least closed
  set, and `AllShadersOf` gives the equation a build follows. The fold over the
  linked libraries is shown to be the union and the maximum by an induction over
  the subsets of a finite set (`SubsetInduction`, from `Least`).
* **Pipeline build** (`IInv`, `AnswerInv`): what each accessor of a build may hold
  at each place, that an entry that is being compiled is owed by one accessor and
  one that was hit has an ELF (so the cache's entries and the threads' accessors
  determine each other); then, that what is under a key was stored there by a
  build of a job with that key (`ContentInv`), and that what a thread has put
  together so far is right for the stages it has visited (`WorkInv`). That keys
  say enough about the code they stand for is the step from one job with a key to
  another: `HitFull`, `HitStage`, `HitUnlinked`, `HitPart` and `HitGlue`.
* **Mesh shader** (`StageInv`): the workgroup is in one stage: before the first
  barrier; between API barriers, with the *set* of barriers that all waves have
  behind them, the parity of the toggle, and the flag once a wave has ended; past
  the completion barrier; or exporting. In each, where a wave may be follows from
  that set, for API waves by their place in the trace, for extra waves by its
  cardinality or by the toggle. `Asked` and `Late` add the request for space. The
  exports need what memory holds: for each output the last operation on it among
  those *executed*, which are not a prefix of the trace, as waves run apart
  (`Executed`, `PrimsInv`, `OutsInv`). That a later write is a later operation is
  where the barrier between racing writes comes in (`Ordered`), and that the two
  halves of an update of a primitive do not interleave with another of the same
  bits is `NoClash`. `ExportInv` then says which indices a wave has behind it by
  its export and row, with each index owned by one wave (`Owner`).
* **Primitive shader** (`IInv`): what is left of a wave's program is in order: the
  request at most once and only in the first wave, exports after the last barrier,
  and in a culling shader a barrier after the request (`ProgramInv`); the waves of
  a subgroup, those that have ended or left early too, have the same number of
  barriers ahead, counted from the end of the program, where a block that is
  executed leaves them in place (`StepInv`); the request is made or ahead
  (`RequestInv`); what was exported was exported past all barriers (`ExportInv`).
  So, if some wave has exported, the first wave has no barrier ahead, hence not
  the request either. That the programs begin that way is shown piece by piece,
  as they are concatenations (`PassthroughProper`, `CullingProper`, `GsProper`).

`WellPosed` is what the callers are taken to ensure: a shader is of one stage, and
jobs with the hash of one pipeline are one pipeline. It says nothing about which
shaders fail. Two ways to build do not report a stage that fails, and
`AnswersRequest` says what they return instead: a relocatable pipeline lacks that
stage and those after it (`Linked`), and one that uses the cache for stages may
find the code of the failed compile. Every other success is the complete ELF.
The jobs of `pipeline` are `WellPosed`, which TLC evaluates.

The refinement is what connects the modules: `PipelineBuild` uses the cache as
`CompileOnce` describes it, which the cache with its accessors implements.

### Only model-checked

* All liveness (`FindReturns`, `AccessorsFinish`, `ReturnsUngated`, `BuildsReturn`,
  `ReturnsUnlessStranded`, `WavesEnd`): TLAPS proves nothing about fairness and
  `ENABLED`.
* Of `PrimShader`: `ExportsRight` (with its part `AllocationRight`), `UsedNotRaced`,
  `StreamOutRight` and `VisibleExported`. They are about what LDS holds: that takes
  an invariant per block and wave for all the programs the compiler may put
  together, and, for exports, stream-out and culling, sums and arithmetic over
  lists of lanes.

## Disagreements found

The two violation runs, of `MainReturns` and of `ExportsRight`, are under `findings`
in `PROJECT.json` with the lines of the repository they contradict. The others
below are instances kept beside them: TLC finds each property violated under the
named configuration.

* `MainReturns` (run `parallel_no_first_task`): the main thread waits for helpers
  that wait at its gate (`llpcThreading.cpp:214`). It is why `ReturnsUngated` is
  about calls without exclusion and `ReturnsUnlessStranded` excepts stranded
  builds.
* `StateOutlivesHelpers` (`MCParallelForLate.cfg`): a client's helper that comes
  late, or has completed the last task, accesses the state of a call that has
  returned (`llpcThreading.cpp:141`), although `llpc.h:172-173` allows it to come
  when other threads have taken the tasks it saw. `TasksOver` says what the call
  does ensure.
* `OptionsOwn` (`MCCompilerPoolOptions.cfg`): of a command line that is rejected,
  the options before the error stay in effect, `HaveParsedOptions` and
  `SOptionHash` being left as they were (`llpcCompiler.cpp:371-378`), and the next
  compiler runs with them; line 364 takes such a mix for one that never happens.
* `HandlerOnce` (`MCCompilerPoolHandler.cfg`): a creation that overlaps the last
  destruction installs a second handler (`llpcCompiler.cpp:477`), which "only can
  be installed once" (418). In the same race the new compiler can lose
  its pool and handler, which is where `PoolAlive` ends.
* `NoOverrun` (`MCCacheFileTorn.cfg`): loading a torn file reads beyond its data
  (`llpcShaderCache.cpp:763-791`). The guard is an assertion, which a release
  build does not have and which holds when a record would begin right at the end.
  What is read there is not of any build, so `OnlyOwnBuild` excepts the caches
  that did so.
* `NoFailedCodeCached` (`MCPipelineBuildFailing.cfg`): the cache for stages stores
  the ELF of a stage after a compile that reported an error
  (`llpcCompiler.cpp:2188-2203`), not "a failure state" as 2183 says.
  From there it comes into the entries of whole pipelines; `FailedCodeConfined`
  says that it gets no further.
* `SuccessIsComplete` (`MCPipelineBuildReloc.cfg`): a stage that cannot be
  relocatable, or fails, leaves the loop by `break` with `Result::Success`
  (`llpcCompiler.cpp:1717-1718`); failure has other codes (`llpc.h:279`).
* `ExportsRight` (run `mesh_wide_array`): the shift of a location offset
  (`MeshTaskShader.cpp:2127`).
* `NoRace` (`MCPrimShaderRace.cfg`): every wave reads `PrimitiveCounts`
  (`NggPrimShader.cpp:8311`) while the first one may already write `VertexCounts`
  in its place (2471), and lanes beyond a region read without a guard (1778, 2651,
  7061, 7368, 7440). The values are not used (`UsedNotRaced`), so only the comment
  at 8574 is not kept.
* `DwordsCounted` (`MCPrimShaderUnequal.cfg`): on GFX11 the counter of an earlier
  buffer of a stream is advanced before a later, smaller one limits the primitives
  (`NggPrimShader.cpp:7673-7748`; 7624-7625 has the steps the other way). On GFX12
  the counters are right (`StreamOutRight`).

The following can be seen by checking the named property with other constants.
None depends on the abstractions above: each trace is a schedule of the statements
in the named lines.

* `RetrieveNeverNull` with `FileOpen = TRUE`, two failed writes: the unlocked test
  of `retrieveShader` (`llpcShaderCache.cpp:612`) is not harmless with a file.
* `MustPopulateHolds` (`accessor`): a failed compile is cached as an empty value,
  and the next success asserts (`vkgcDefs.h:1948`).
* `ReadBackSucceeds` (`accessor`, one failed write): reading back what was stored
  asserts (`llpcCacheAccessor.cpp:101`).
* `ReadOnlyKeepsFile` (`file`): a read-only cache whose file does not load resets,
  and so truncates, the file (`llpcShaderCache.cpp:712`).
* `OnlyOwnBuild` with `MixedBuilds = TRUE`: two builds that have the file open at a
  time mix their records under one header.
* `ReadyHasData` (`file`): `Merge` copies an entry whose compile failed
  (`llpcShaderCache.cpp:224`) as Ready without data, which line 492 asserts
  against.
* `MainReturns` with one helper, an extra thread of the internal provider, and two
  tasks: the provider's wake-up is lost between test and wait
  (`llpcThreading.cpp:53`).
* `MainReturns` with `ClientSetup`, `Exclusions = {"Task"}` and two tasks: the
  main thread sets `mainThreadUnlocked` and notifies without the mutex
  (`llpcThreading.cpp:237-238`), between a helper's test and its sleep.
* `ResidentsReachable` (`pool`) with `MaxResident = 1`: contexts that `~Compiler`
  keeps are leaked with the pool of the last instance (`llpcCompiler.cpp:440-441`,
  479).
* `ExportsRight` (`mesh`) with a shader of row export whose outputs are in registers
  and whose counts go beyond its threads: a thread has registers for one index,
  and exports them again for the indices of its further rows
  (`MeshTaskShader.cpp:616`, 3374, 3421). The API shader has not written those
  outputs, so the API leaves them undefined; with outputs in LDS the code makes
  primitives that were not set degenerate, here they are copies. `IsRegular`
  leaves such shaders out.
* `VisibleExported` with `dxClipSpace |-> FALSE` and the frustum or box filter
  culler: `zNear` is -1 for DX and 0 for OGL clip space
  (`NggPrimShader.cpp:5030-5036`), so triangles between -w and 0, inside the OGL
  clip space, are culled. In DX clip space the test is only weaker than needed.
* `VisibleExported` with the box filter and a vertex behind the eye, such as
  `(10, -12, 4, 8)`, `(10, 12, 4, 8)`, `(-4, 0, -1, -2)`: the filter compares
  divided coordinates without looking at the sign of `w`
  (`NggPrimShader.cpp:5313-5405`), unlike the small primitive filter. The
  passing run gives the box filter vertices in front of the eye only.

Four comments with pseudo-code say something else than the code below them, which
is what the model follows: `NggPrimShader.cpp:2223-2225` has a barrier after the
request for space of a geometry shader, where the code has one before it and none
after, and the one only when it compacts vertices (2714, 2725); 4304 ends a strip
when the number of emitted vertices reaches the maximum, the code (4375) when it
exceeds it; 4809 calls a counter-clockwise triangle of positive area front-facing,
the code (4873) one of negative area, unless the viewport is mirrored, which the
comment leaves out; and 5279 has `min(z0/w0, ...) < zNear`, the code (5399-5405)
the maximum.

## Plan

Done: the cache, accessor, parallel for, pool, cache file with its faults,
pipeline and ray tracing builds, the emitted code of mesh and primitive shaders
with the cullers; then the proofs of all safety properties of all of them, of the
primitive shaders that of the request for space only. Next, in this order:

1. Proofs: `UsedNotRaced` and `AllocationRight` of `PrimShader`, on top of the
invariant of `PrimShaderProofs`, with one that gives, for each block, the regions
of LDS a wave may touch until the next barrier. 2. The task shader's rings and
their ready bit; concurrent `Merge` in opposite directions; `waitForEntry`. 3. The
pure algorithms of LGC (in/out packing, ELF section layout) against reference
definitions; the critical section of `LowerPopsInterlock`.

## Not modelled, and why

The SPIR-V translator, the other lowering passes of front end and LGC, the
builder, continuations and the disassembler transform one IR module in one
thread; what they must preserve is the semantics of shaders, which is not a
state machine over small data. They are most of the repository's lines, so the
map covers a small share of it. The graphics runtime library is shader code.
amdllpc and the VFX parser are command-line and text handling. Within modelled
components: the disabled cache mode (every operation returns at once),
`waitForEntry` (no caller), merges during a compile, the sequential path of
`parallelForWithContextImpl`, statistics of mesh shaders, the sphere culler
(half-precision floats), logging and profiling.
