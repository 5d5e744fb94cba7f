--------------------------- MODULE RayTracingBuild ---------------------------
(***************************************************************************)
(* Compiler::BuildRayTracingPipeline (llpc/context/llpcCompiler.cpp): a    *)
(* pipeline of many shaders, each compiled to an ELF of its own by the     *)
(* main thread and by helper threads, in contexts of their own, that merge *)
(* what they learn into one shared library summary.  The traversal module  *)
(* and the kernel entry are compiled from that summary at the end, and a   *)
(* library hands its summary on to the pipelines that link it.             *)
(*                                                                         *)
(* The parallel loop is what ParallelFor promises: a task is claimed once, *)
(* the first error takes the tasks that are left, and the main thread      *)
(* waits until the claimed ones are complete.                              *)
(***************************************************************************)
EXTENDS Integers, Sequences, FiniteSets, FiniteSetsExt

CONSTANTS
  Main, Helpers,   \* the calling thread, the threads that may help
  Requests,        \* name -> request: see the fields used below
  Shader,          \* name -> [traces, set, unset, forces, vgprs, diag, meta]
  Plans,           \* sequences of requests a caller makes one after the other
  FlagBits,        \* bits of the ray flags
  NoThread, NoRequest,
  MaxFaults        \* bound: bitcode that does not load

Threads == {Main} \cup Helpers

ASSUME ThreadsAssumption == Main \notin Helpers /\ {NoThread, "main"} \cap Threads = {}
ASSUME ShadersAssumption ==
         /\ {"entry", "traversal"} \cap DOMAIN Shader = {}
         /\ \A x \in DOMAIN Shader : Shader[x].diag \in {"none", "read", "codegen"}
ASSUME RequestsAssumption ==
         /\ Plans \subseteq Seq(DOMAIN Requests)
         /\ \A r \in DOMAIN Requests : Requests[r].shaders \in Seq(DOMAIN Shader)
ASSUME FaultsAssumption == MaxFaults \in Nat

(* A library is indirect: "assert(indirectStageMask == ...AllRayTracingBit)". *)
ASSUME LibrariesAssumption ==
         \A r \in DOMAIN Requests : Requests[r].library => Requests[r].indirect

(* What the driver links are libraries of the request's own mode, which it     *)
(* sets for the device.                                                        *)
ASSUME LinkingAssumption ==
         \A r \in DOMAIN Requests :
           /\ Requests[r].libs \subseteq DOMAIN Requests /\ IsFiniteSet(Requests[r].libs)
           /\ \A l \in Requests[r].libs :
                /\ Requests[l].library
                /\ Requests[l].mode = Requests[r].mode /\ Requests[l].dvgpr = Requests[r].dvgpr

(* Continufy transforms "legacy indirect-call based ray-tracing shaders".      *)
ASSUME ModesAssumption ==
         \A r \in DOMAIN Requests :
           /\ Requests[r].mode \in {"legacy", "continufy", "continuations"}
           /\ Requests[r].mode = "continufy" => Requests[r].indirect

(* The known bits of the ray flags of a shader do not contradict each other.   *)
ASSUME BitsAssumption ==
         /\ FlagBits # {}
         /\ \A x \in DOMAIN Shader :
              /\ Shader[x].vgprs \in Nat /\ Shader[x].traces \in BOOLEAN
              /\ Shader[x].set \subseteq FlagBits /\ Shader[x].unset \subseteq FlagBits
              /\ Shader[x].set \cap Shader[x].unset = {}

VARIABLES
  plan,      \* the requests that are left to make
  req,       \* the request that is being built
  phase,     \* of the main thread: "loop" over the shaders, "traversal", "entry"
  summary,   \* RayTracingLibrarySummary of the RayTracingContext
  flags,     \* m_rayFlagsKnownBits; known: has_value()
  hasError,  \* error diagnostics of the main context and of the threads' own
  pc, task,  \* of each thread: where it is, and the index of its module
  own,       \* threads that run with a context of their own
  pool,      \* contexts in use: "main" and the ones of the threads
  next,      \* next task of the loop
  open,      \* tasks claimed and not completed
  unlocked,  \* mainThreadUnlocked
  joined,    \* helperThreadJoined
  failed,    \* haveError
  lock, seen,  \* holder of getHelperThreadMutex, the summary each thread last read
  elfs,      \* pipelineElfs, index -> code
  built,     \* summaries of the requests that succeeded
  out,       \* what the last build returned
  faults

fixed == <<plan, req, built, out>>
contexts == <<hasError, own, pool>>
claims == <<task, next, open>>
gate == <<unlocked, joined>>
shared == <<summary, lock, seen>>
vars == <<fixed, contexts, claims, gate, shared, phase, flags, failed, pc, elfs, faults>>

NoOut == [result |-> "none", elfs |-> <<>>, props |-> <<>>]
NoFlags == [known |-> FALSE, set |-> {}, unset |-> {}]

Max2(a, b) == IF a > b THEN a ELSE b

(* What BuildRayTracingPipeline starts with: all ray flags known both ways.  *)
NoSummary == [traces |-> FALSE, set |-> FlagBits, unset |-> FlagBits, vgprs |-> 0,
              state |-> {}, kernelEntry |-> FALSE, traceModule |-> FALSE]

Init ==
  /\ plan \in Plans
  /\ req = NoRequest /\ phase = "loop"
  /\ summary = NoSummary
  /\ flags = NoFlags
  /\ hasError = {}
  /\ pc = [t \in Threads |-> IF t = Main THEN "idle" ELSE "gone"]
  /\ task = [t \in Threads |-> 0]
  /\ own = {} /\ pool = {}
  /\ next = 0 /\ open = {}
  /\ unlocked = FALSE /\ joined = FALSE /\ failed = FALSE
  /\ lock = NoThread
  /\ seen = [t \in Threads |-> NoSummary]
  /\ elfs = <<>>
  /\ built = <<>>
  /\ out = NoOut
  /\ faults = 0

Goto(t, l) == pc' = [pc EXCEPT ![t] = l]

R == Requests[req]
N == Len(R.shaders)
ShadersOf(r) == {Requests[r].shaders[i] : i \in 1..Len(Requests[r].shaders)}

-----------------------------------------------------------------------------
(* RayTracingLibrarySummary::merge. *)
Merged(s, other) ==
  [s EXCEPT !.traces = @ \/ other.traces,
            !.set = IF other.traces THEN @ \cap other.set ELSE @,
            !.unset = IF other.traces THEN @ \cap other.unset ELSE @,
            !.vgprs = Max2(@, other.vgprs),
            !.state = @ \cup other.state,
            !.kernelEntry = FALSE, !.traceModule = FALSE]

(* updateRayFlagsKnownBits. *)
Updated(f, set, unset) ==
  IF f.known THEN [f EXCEPT !.set = @ \cap set, !.unset = @ \cap unset]
             ELSE [known |-> TRUE, set |-> set, unset |-> unset]

(* The summaries of the libraries of a request, merged. *)
LibrarySummary(r) ==
  FoldSet(LAMBDA l, acc : Merged(acc, built[l]), NoSummary, Requests[r].libs)

(* BuildRayTracingPipeline up to the internal build: the summary starts from *)
(* the libraries, which also give the first known ray flags.  The result of  *)
(* validatePipelineShaderInfo is overwritten by that of the build.           *)
Begin ==
  LET r == Head(plan)
      s == LibrarySummary(r)
      shaders == ShadersOf(r) IN
  /\ pc[Main] = "idle" /\ plan # <<>> /\ Requests[r].libs \subseteq DOMAIN built
  /\ req' = r /\ plan' = Tail(plan)
  /\ summary' = [NoSummary EXCEPT !.traces = s.traces \/ \E x \in shaders : Shader[x].traces,
                                  !.set = s.set, !.unset = s.unset,
                                  !.vgprs = s.vgprs, !.state = s.state]
  /\ flags' = IF s.set # FlagBits \/ s.unset # FlagBits
                THEN Updated(NoFlags, s.set, s.unset) ELSE NoFlags
  /\ hasError' = hasError \ {"main"}
  /\ pool' = pool \cup {"main"}
  /\ task' = [task EXCEPT ![Main] = 1] /\ phase' = "loop"
  /\ elfs' = <<>> /\ out' = NoOut
  /\ Goto(Main, "read")
  /\ UNCHANGED <<gate, own, next, open, failed, lock, seen, built, faults>>

(* Step 1 for one shader: the translator reports its diagnostics and the     *)
(* known bits of the ray flags of its TraceRay calls.                        *)
Read ==
  LET s == Shader[R.shaders[task[Main]]] IN
  /\ pc[Main] = "read" /\ task[Main] <= N
  /\ flags' = IF s.traces THEN Updated(flags, s.set, s.unset) ELSE flags
  /\ hasError' = hasError \cup (IF s.diag = "read" THEN {"main"} ELSE {})
  /\ task' = [task EXCEPT ![Main] = @ + 1]
  /\ UNCHANGED <<fixed, gate, shared, pc, own, pool, next, open, failed, elfs, faults, phase>>

(* Indirect: by request, or because of what the shaders do. *)
Indirect(r) == Requests[r].indirect \/ \E x \in ShadersOf(r) : Shader[x].forces
Cps(r) == Indirect(r) /\ Requests[r].mode = "continuations"
Dvgpr(r) == (Cps(r) \/ Requests[r].mode = "continufy") /\ Requests[r].dvgpr

(* Mutant: a library gets a traversal module, too. *)
NeedTraversalInLibrary(s) == s.traces \/ (Cps(req) /\ R.persistent)

NeedTraversal(s) == ~R.library /\ (s.traces \/ (Cps(req) /\ R.persistent))

Tasks == IF Indirect(req) THEN N + 1 ELSE 1

(* Steps 2 to 4 and the start of step 5: everything is merged into the entry *)
(* unless the pipeline is indirect; the traversal module is set aside.  The  *)
(* loop starts unlocked if it is to spawn threads of its own.                *)
Lower ==
  /\ pc[Main] = "read" /\ task[Main] > N
  /\ summary' = IF Indirect(req) /\ NeedTraversal(summary) THEN [summary EXCEPT !.traceModule = TRUE]
                                                            ELSE summary
  /\ elfs' = [i \in 0..Tasks - 1 + (IF summary'.traceModule THEN 1 ELSE 0) |-> <<>>]
  /\ next' = 0 /\ open' = {}
  /\ unlocked' = (R.threads = "extra") /\ joined' = (R.threads = "extra") /\ failed' = FALSE
  /\ pc' = [t \in Threads |-> IF t = Main THEN "start"
                              ELSE IF pc[t] \notin {"gone", "out"} THEN pc[t]
                              ELSE IF R.threads = "none" THEN "gone" ELSE "out"]
  /\ UNCHANGED <<fixed, contexts, flags, task, lock, seen, faults, phase>>

-----------------------------------------------------------------------------
(* parallelForWithContext, exclusion Task.                                   *)

Claim(t) ==
  /\ task' = [task EXCEPT ![t] = next]
  /\ next' = next + 1
  /\ open' = open \cup {next}

NoClaim == UNCHANGED <<task, next, open>>

(* The first task of the main thread, which spawns threads and runs with a   *)
(* context of its own, or runs alone with the main context at first.         *)
Start ==
  /\ pc[Main] = "start"
  /\ IF next < Tasks
       THEN Claim(Main) /\ Goto(Main, IF R.threads = "extra" THEN "create" ELSE "task")
       ELSE NoClaim /\ Goto(Main, "wait")
  /\ UNCHANGED <<fixed, contexts, gate, shared, flags, failed, elfs, faults, phase>>

Join(t) ==
  /\ pc[t] = "out" /\ phase = "loop" /\ pc[Main] \notin {"idle", "read"}
  /\ joined' = TRUE
  /\ IF next < Tasks THEN Claim(t) /\ Goto(t, "create") ELSE NoClaim /\ Goto(t, "gone")
  /\ UNCHANGED <<fixed, contexts, shared, flags, unlocked, failed, elfs, faults, phase>>

(* createContext: a context of the pool. *)
Create(t) ==
  /\ pc[t] = "create"
  /\ own' = own \cup {t} /\ pool' = pool \cup {t}
  /\ Goto(t, "gate")
  /\ UNCHANGED <<fixed, claims, gate, shared, hasError, flags, failed, elfs, faults, phase>>

(* Mutant: helpers do not wait for the main thread. *)
GateOpen(t) ==
  /\ pc[t] = "gate"
  /\ Goto(t, "task")
  /\ UNCHANGED <<fixed, contexts, claims, gate, shared, flags, failed, elfs, faults, phase>>

(* A helper waits while the main thread may run with the main context.  It   *)
(* tests the flag outside of the mutex and then as the predicate of the wait;*)
(* between a failed test and the wait the main thread may set the flag and   *)
(* notify.                                                                   *)
Gate(t) ==
  /\ pc[t] = "gate"
  /\ Goto(t, IF t = Main \/ unlocked THEN "task" ELSE "gateSleep")
  /\ UNCHANGED <<fixed, contexts, claims, gate, shared, flags, failed, elfs, faults, phase>>

GateSleep(t) ==
  /\ pc[t] = "gateSleep"
  /\ Goto(t, "asleep")
  /\ UNCHANGED <<fixed, contexts, claims, gate, shared, flags, failed, elfs, faults, phase>>

SpuriousWakeup(t) ==
  /\ pc[t] = "asleep"
  /\ Goto(t, "gate")
  /\ UNCHANGED <<fixed, contexts, claims, gate, shared, flags, failed, elfs, faults, phase>>

(* The task function: nothing for the entry; else the module itself, or its  *)
(* clone in the thread's own context.                                        *)
StartTask(t) ==
  /\ pc[t] = "task"
  /\ Goto(t, IF task[t] = 0 THEN "after" ELSE IF t \in own THEN "clone" ELSE "lower")
  /\ UNCHANGED <<fixed, contexts, claims, gate, shared, flags, failed, elfs, faults, phase>>

Clone(t) ==
  /\ pc[t] = "clone"
  /\ \/ Goto(t, "lower") /\ UNCHANGED faults
     \/ Goto(t, "error") /\ faults < MaxFaults /\ faults' = faults + 1
  /\ UNCHANGED <<fixed, contexts, claims, gate, shared, flags, failed, elfs, phase>>

-----------------------------------------------------------------------------
(* buildRayTracingPipelineElf, of module task[t] in the context of t.        *)

(* The modules by index: the entry, the shaders, the traversal module. *)
ModuleAt(i) == CASE i = 0 -> "entry" [] i \in 1..N -> R.shaders[i] [] OTHER -> "traversal"

(* Continuations: the state of the module goes into the summary, except for  *)
(* a module whose metadata cannot be read.                                   *)
LowerRayTracing(t) ==
  LET m == ModuleAt(task[t]) IN
  /\ pc[t] = "lower"
  /\ Goto(t, CASE ~Cps(req) -> "generate"
               [] Cps(req) /\ m \in DOMAIN Shader /\ Shader[m].meta = "bad" -> "error"
               [] OTHER -> "lockState")
  /\ UNCHANGED <<fixed, contexts, claims, gate, shared, flags, failed, elfs, faults, phase>>

(* Mutant: the summary is read without the mutex. *)
LockNot(t) ==
  /\ pc[t] \in {"lockState", "lockVgprs"}
  /\ lock' = t
  /\ seen' = [seen EXCEPT ![t] = summary]
  /\ Goto(t, IF pc[t] = "lockState" THEN "mergeState" ELSE "mergeVgprs")
  /\ UNCHANGED <<fixed, contexts, claims, gate, summary, flags, failed, elfs, faults, phase>>

(* getHelperThreadMutex, and the read of the summary. *)
Lock(t) ==
  /\ pc[t] \in {"lockState", "lockVgprs"} /\ lock = NoThread
  /\ lock' = t
  /\ seen' = [seen EXCEPT ![t] = summary]
  /\ Goto(t, IF pc[t] = "lockState" THEN "mergeState" ELSE "mergeVgprs")
  /\ UNCHANGED <<fixed, contexts, claims, gate, summary, flags, failed, elfs, faults, phase>>

(* llvmRaytracingState.merge. *)
MergeState(t) ==
  /\ pc[t] = "mergeState"
  /\ summary' = [summary EXCEPT !.state = seen[t].state \cup {ModuleAt(task[t])}]
  /\ lock' = NoThread /\ seen' = [seen EXCEPT ![t] = NoSummary]
  /\ Goto(t, "generate")
  /\ UNCHANGED <<fixed, contexts, claims, gate, flags, failed, elfs, faults, phase>>

ContextOf(t) == IF t \in own THEN t ELSE "main"

(* The shaders whose code is generated with module i. *)
ShadersIn(i) == IF i = 0 THEN (IF Indirect(req) THEN {} ELSE ShadersOf(req)) ELSE {ModuleAt(i)}

Diagnosed(i) == \E x \in ShadersIn(i) \cap DOMAIN Shader : Shader[x].diag = "codegen"

(* What goes into module i besides its own code: the merged state and the    *)
(* known ray flags into the traversal module, the VGPRs into the entry.      *)
Code(i) == CASE ModuleAt(i) = "traversal" -> <<"traversal", summary.state, flags.set, flags.unset>>
             [] i = 0 -> <<"entry", ShadersIn(0), IF Dvgpr(req) THEN summary.vgprs ELSE 0>>
             [] OTHER -> <<ModuleAt(i)>>

(* generatePipeline; a diagnostic sets the flag of the context.  Then        *)
(* adjustRayTracingElf collects the VGPRs that calls pass on.                *)
Generate(t) ==
  /\ pc[t] = "generate"
  /\ elfs' = [elfs EXCEPT ![task[t]] = Code(task[t])]
  /\ hasError' = hasError \cup (IF Diagnosed(task[t]) THEN {ContextOf(t)} ELSE {})
  /\ Goto(t, IF task[t] > 0 /\ Dvgpr(req) THEN "lockVgprs" ELSE "built")
  /\ UNCHANGED <<fixed, claims, gate, shared, flags, own, pool, failed, faults, phase>>

VgprsOf(m) == IF m \in DOMAIN Shader THEN Shader[m].vgprs ELSE 1

MergeVgprs(t) ==
  /\ pc[t] = "mergeVgprs"
  /\ summary' = [summary EXCEPT !.vgprs = Max2(seen[t].vgprs, VgprsOf(ModuleAt(task[t])))]
  /\ lock' = NoThread /\ seen' = [seen EXCEPT ![t] = NoSummary]
  /\ Goto(t, "built")
  /\ UNCHANGED <<fixed, contexts, claims, gate, flags, failed, elfs, faults, phase>>

(* After the task function, or after the module was built: an error of the   *)
(* module or of an earlier diagnostic of the same context.                   *)
Bad(t) == pc[t] = "error" \/ (pc[t] = "built" /\ ContextOf(t) \in hasError)

(* Mutant: the diagnostics of the context are not looked at. *)
FinishTaskGoesOn(t) ==
  /\ pc[t] \in {"after", "built", "error"} /\ (t = Main => phase = "loop")
  /\ failed' = (failed \/ pc[t] = "error")
  /\ IF next < Tasks
       THEN /\ task' = [task EXCEPT ![t] = next]
            /\ next' = next + 1
            /\ open' = (open \ {task[t]}) \cup {next}
            /\ Goto(t, "task")
       ELSE /\ open' = open \ {task[t]}
            /\ Goto(t, IF t \in own THEN "destroy" ELSE "switch")
            /\ UNCHANGED <<task, next>>
  /\ UNCHANGED <<fixed, contexts, gate, shared, phase, flags, elfs, faults>>

(* One round of runInnerLoop: the first error takes the tasks that are left. *)
(* The main thread breaks off to get a context once a helper has joined.     *)
FinishTask(t) ==
  LET more == ~Bad(t) /\ ~failed /\ next < Tasks /\ (t \in own \/ ~joined) IN
  /\ pc[t] \in {"after", "built", "error"} /\ (t = Main => phase = "loop")
  /\ failed' = (failed \/ Bad(t))
  /\ IF more
       THEN /\ task' = [task EXCEPT ![t] = next]
            /\ next' = next + 1
            /\ open' = (open \ {task[t]}) \cup {next}
            /\ Goto(t, "task")
       ELSE /\ next' = IF Bad(t) /\ ~failed THEN Tasks ELSE next
            /\ open' = open \ {task[t]}
            /\ Goto(t, IF t \in own THEN "destroy" ELSE "switch")
            /\ UNCHANGED task
  /\ UNCHANGED <<fixed, contexts, gate, shared, phase, flags, elfs, faults>>

(* The main thread claims the task to go on with, if there is one left, and  *)
(* opens the gate.                                                           *)
Switch ==
  /\ pc[Main] = "switch"
  /\ unlocked' = TRUE
  /\ IF next < Tasks THEN Claim(Main) /\ Goto(Main, "notify") ELSE NoClaim /\ Goto(Main, "notifyLast")
  /\ UNCHANGED <<fixed, contexts, shared, phase, flags, joined, failed, elfs, faults>>

(* cvar.notify_all, without the mutex; the main thread goes on with a        *)
(* context of its own.                                                       *)
Notify ==
  /\ pc[Main] \in {"notify", "notifyLast"}
  /\ pc' = [t \in Threads |-> IF t = Main THEN (IF pc[t] = "notify" THEN "create" ELSE "wait")
                              ELSE IF pc[t] = "asleep" THEN "gate" ELSE pc[t]]
  /\ UNCHANGED <<fixed, contexts, claims, gate, shared, phase, flags, failed, elfs, faults>>

(* Mutant: a context in which an error was reported is not given back. *)
DestroyClean(t) ==
  /\ pc[t] = "destroy"
  /\ own' = own \ {t} /\ pool' = IF t \in hasError THEN pool ELSE pool \ {t}
  /\ hasError' = hasError \ {t} /\ task' = [task EXCEPT ![t] = 0]
  /\ Goto(t, IF t = Main THEN "wait" ELSE "gone")
  /\ UNCHANGED <<fixed, next, open, gate, shared, phase, flags, failed, elfs, faults>>

(* destroyContext: the diagnostics go with the HelperContext. *)
Destroy(t) ==
  /\ pc[t] = "destroy"
  /\ own' = own \ {t} /\ pool' = pool \ {t}
  /\ hasError' = hasError \ {t} /\ task' = [task EXCEPT ![t] = 0]
  /\ Goto(t, IF t = Main THEN "wait" ELSE "gone")
  /\ UNCHANGED <<fixed, next, open, gate, shared, phase, flags, failed, elfs, faults>>

-----------------------------------------------------------------------------
(* The end of the loop: an error ends the build; else the traversal module,  *)
(* the entry, or neither is left to build.  Threads the loop spawned have    *)
(* ended by now; threads of the provider may still destroy their contexts.   *)
Wait ==
  /\ pc[Main] = "wait" /\ open = {} /\ next >= Tasks
  /\ R.threads = "extra" => \A h \in Helpers : pc[h] = "gone"
  /\ IF failed THEN Goto(Main, "fail") /\ UNCHANGED <<phase, task>>
     ELSE IF summary.traceModule
            THEN phase' = "traversal" /\ task' = [task EXCEPT ![Main] = Tasks] /\ Goto(Main, "lower")
            ELSE phase' = "entry" /\ task' = [task EXCEPT ![Main] = 0]
                 /\ Goto(Main, IF R.library THEN "return" ELSE "lower")
  /\ UNCHANGED <<fixed, contexts, gate, shared, next, open, flags, failed, elfs, faults>>

(* The traversal module is built: the entry is left, but not for a library.  *)
TraversalBuilt ==
  /\ pc[Main] = "built" /\ phase = "traversal"
  /\ phase' = "entry" /\ task' = [task EXCEPT ![Main] = 0]
  /\ Goto(Main, "lower")
  /\ UNCHANGED <<fixed, contexts, gate, shared, next, open, flags, failed, elfs, faults>>

EntryBuilt ==
  /\ pc[Main] = "built" /\ phase = "entry"
  /\ summary' = [summary EXCEPT !.kernelEntry = TRUE]
  /\ Goto(Main, "return")
  /\ UNCHANGED <<fixed, contexts, claims, gate, lock, seen, phase, flags, failed, elfs, faults>>

(* pipelineElfs; without the place of the entry for a library. *)
Elfs == IF R.library THEN [i \in 1..Cardinality(DOMAIN elfs) - 1 |-> elfs[i]]
                     ELSE [i \in 1..Cardinality(DOMAIN elfs) |-> elfs[i - 1]]

Props == [i \in 1..Cardinality(DOMAIN elfs) - 1 |-> ModuleAt(i)]

(* The end of a build, which gives back the main context: the summary of a   *)
(* success keeps the ray flags known in the shaders and the libraries.       *)
Return ==
  LET ok == pc[Main] = "return" /\ "main" \notin hasError IN
  /\ pc[Main] \in {"return", "fail"}
  /\ pool' = pool \ {"main"}
  /\ out' = IF ok THEN [result |-> "Success", elfs |-> Elfs, props |-> Props]
                  ELSE [NoOut EXCEPT !.result = "Error"]
  /\ built' = IF ok THEN [r \in DOMAIN built \cup {req} |->
                            IF r = req THEN [summary EXCEPT !.set = @ \cap flags.set,
                                                            !.unset = @ \cap flags.unset]
                                       ELSE built[r]]
                    ELSE built
  /\ Goto(Main, "idle")
  /\ UNCHANGED <<claims, gate, shared, plan, req, phase, flags, hasError, own, failed, elfs, faults>>

Step(t) ==
  \/ Create(t) \/ Gate(t) \/ GateSleep(t) \/ StartTask(t) \/ Clone(t) \/ LowerRayTracing(t)
  \/ Lock(t) \/ MergeState(t) \/ Generate(t) \/ MergeVgprs(t) \/ FinishTask(t) \/ Destroy(t)

MainStep ==
  \/ Read \/ Lower \/ Start \/ Switch \/ Notify \/ Wait \/ TraversalBuilt \/ EntryBuilt \/ Return
  \/ Step(Main)

HelperStep(t) == Step(t) \/ Join(t)

Next == MainStep \/ (\E t \in Helpers : HelperStep(t) \/ SpuriousWakeup(t)) \/ Begin

(* A build that was begun is scheduled, and so are threads that have joined  *)
(* or that the loop spawned.  Nothing wakes a sleeper but its notification.  *)
Fairness == WF_vars(MainStep) /\ \A t \in Helpers : WF_vars(HelperStep(t))

Spec == Init /\ [][Next]_vars /\ Fairness
-----------------------------------------------------------------------------
(* The state has its types: the contexts of the helpers are taken from the   *)
(* pool, and a thread that generates code has a place for its ELF.           *)
TypeOK ==
  /\ req \in DOMAIN Requests \cup {NoRequest} /\ phase \in {"loop", "traversal", "entry"}
  /\ own \subseteq pool /\ pool \subseteq Threads \cup {"main"}
  /\ hasError \subseteq Threads \cup {"main"}
  /\ open \subseteq DOMAIN elfs
  /\ summary.state \subseteq DOMAIN Shader \cup {"entry", "traversal"}
  /\ \A t \in Threads : pc[t] = "generate" => task[t] \in DOMAIN elfs
  /\ lock \in Threads \cup {NoThread}

(* A request and the libraries it reaches: the least set with it that links  *)
(* nothing outside.                                                          *)
LibsOf ==
  [r \in DOMAIN Requests |->
    {l \in DOMAIN Requests :
       \A S \in SUBSET DOMAIN Requests :
         r \in S /\ (\A x \in S : Requests[x].libs \subseteq S) => l \in S}]
AllShaders(r) == UNION {ShadersOf(l) : l \in LibsOf[r]}
Tracing(r) == {x \in AllShaders(r) : Shader[x].traces}

Fails(r) ==
  \E x \in ShadersOf(r) : Shader[x].diag # "none" \/ (Cps(r) /\ Shader[x].meta = "bad")

(* A build succeeds exactly when no shader reports an error, whichever       *)
(* thread and context met it, and however many later modules of the same     *)
(* context were built without one.                                           *)
ResultRight ==
  /\ out.result = "Success" => ~Fails(req)
  /\ out.result = "Error" => Fails(req) \/ faults > 0

(* The traversal module is compiled with the merged state of every shader    *)
(* and library, and with the ray flags that are known in all TraceRay calls; *)
(* the kernel entry is compiled for the most VGPRs any of them passes on.    *)
(* Threads that merge at the same time lose nothing.                         *)
SummaryComplete ==
  out.result = "Success" => \A i \in DOMAIN out.elfs :
    LET e == out.elfs[i] IN
    /\ e[1] = "traversal" =>
         /\ Cps(req) => AllShaders(req) \subseteq e[2]
         /\ e[3] = {b \in FlagBits : Tracing(req) # {} /\ \A x \in Tracing(req) : b \in Shader[x].set}
         /\ e[4] = {b \in FlagBits : Tracing(req) # {} /\ \A x \in Tracing(req) : b \in Shader[x].unset}
    /\ e[1] = "entry" /\ Dvgpr(req) =>
         e[3] = Max({0} \cup {Shader[x].vgprs : x \in AllShaders(req)}
                    \cup (IF summary.traceModule THEN {1} ELSE {}))

(* The ELFs of a success are complete, each one built and at the place that  *)
(* the shader properties name for it: the entry first, except in a library,  *)
(* then the shaders as requested and the traversal module that an indirect   *)
(* pipeline with TraceRay calls needs.                                       *)
OutputComplete ==
  out.result = "Success" =>
    LET first == IF R.library THEN 0 ELSE 1
        modules == IF ~Indirect(req) THEN <<>>
                   ELSE R.shaders \o (IF ~R.library /\ (Tracing(req) # {} \/ (Cps(req) /\ R.persistent))
                                        THEN <<"traversal">> ELSE <<>>)
    IN  /\ out.props = modules
        /\ Len(out.elfs) = Len(modules) + first
        /\ \A i \in 1..Len(modules) : out.elfs[i + first] # <<>> /\ out.elfs[i + first][1] = modules[i]
        /\ ~R.library => out.elfs[1][1] = "entry"

(* "All modules were in the same LLVMContext, which is not thread safe": no  *)
(* thread writes the bitcode of a module of the main context while the main  *)
(* thread compiles in it.                                                    *)
MainContextExclusive ==
  \A h \in Threads : pc[h] = "clone" =>
    ~(Main \notin own /\ pc[Main] \in {"read", "lower", "lockState", "mergeState", "generate",
                                       "lockVgprs", "mergeVgprs", "return", "fail"})

(* A helper sleeps at the gate with a task it has claimed while the main     *)
(* thread, which alone opens the gate and notifies, already waits for that   *)
(* task: it found none for itself and left the gate shut, or it notified     *)
(* between the helper's test and its wait.                                   *)
Stranded ==
  /\ R.threads = "provider" /\ pc[Main] = "wait"
  /\ \E h \in Helpers : pc[h] = "asleep" /\ task[h] \in open

(* A build that was begun returns, and every context it took from the pool,  *)
(* those of the helpers included, is given back, unless a helper of the      *)
(* provider is stranded at the gate: nothing else keeps a build, of whatever *)
(* errors, waiting.                                                          *)
ReturnsUnlessStranded == []<>((pool = {} /\ pc[Main] = "idle") \/ Stranded)
=============================================================================
