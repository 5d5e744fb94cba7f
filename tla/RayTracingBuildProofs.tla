------------------------ MODULE RayTracingBuildProofs ------------------------
(***************************************************************************)
(* Proofs about RayTracingBuild, for any requests, shaders, libraries and  *)
(* threads: who may compile in the main context and when, that the result  *)
(* tells whether a shader failed, and that a success returns every ELF at  *)
(* its place, made from everything the threads and libraries know.         *)
(***************************************************************************)
EXTENDS RayTracingBuild, FiniteSetTheorems, NaturalsInduction, WellFoundedInduction, TLAPS

-----------------------------------------------------------------------------
(* The inductive invariant *)

(* The places of a module that is being compiled, and of a claimed task. *)
Building == {"lower", "lockState", "mergeState", "generate", "lockVgprs", "mergeVgprs",
             "built", "error"}
InTask == Building \cup {"task", "clone", "after"}
AtGate == {"gate", "gateSleep", "asleep"}
Claiming == InTask \cup AtGate \cup {"create", "notify"}

(* Places of the main thread outside of the loop over the tasks. *)
Outside == {"idle", "read", "fail", "return"}

(* The main thread is in the loop, and its task is one of the loop's. *)
InLoop == phase = "loop" /\ pc[Main] \notin Outside

(* Thread t has a task of the loop. *)
HasTask(t) == pc[t] \in Claiming /\ (t = Main => phase = "loop")

PlaceInv ==
  /\ pc \in [Threads -> Claiming \cup Outside \cup {"gone", "out", "start", "switch",
                                                    "destroy", "wait", "notifyLast"}]
  /\ pc[Main] \notin {"gone", "out", "gateSleep", "asleep"}
  /\ \A h \in Helpers : pc[h] \notin Outside \cup {"start", "switch", "notify", "notifyLast", "wait"}
  /\ phase \in {"loop", "traversal", "entry"}
  /\ phase # "loop" => pc[Main] \in (Building \ {"error"}) \cup {"idle", "return"}
  /\ pc[Main] # "idle" => req \in DOMAIN Requests
  /\ plan \in Seq(DOMAIN Requests)

(* Every thread in a task has claimed it, no other thread has it, and nobody  *)
(* has one outside of the loop.                                               *)
ClaimInv ==
  /\ task \in [Threads -> Nat] /\ next \in Nat
  /\ \A i \in open : i \in Nat /\ i < next /\ (InLoop => i < Tasks)
  /\ ~InLoop => open = {}
  /\ pc[Main] = "fail" => next >= Tasks
  /\ pc[Main] \notin {"idle", "read"} => next <= Tasks
  /\ \A t \in Threads : HasTask(t) => task[t] \in open
  /\ \A t, u \in Threads : HasTask(t) /\ HasTask(u) /\ t # u => task[t] # task[u]

(* A thread has a context of its own from createContext to destroyContext;    *)
(* without one the main thread runs tasks only before it unlocks, and helpers *)
(* run tasks only after that.                                                 *)
ContextInv ==
  /\ \A t \in Threads : pc[t] \in AtGate \cup {"destroy", "clone"} => t \in own
  /\ \A h \in Helpers : pc[h] \in InTask => h \in own /\ unlocked
  /\ Main \in own => phase = "loop" /\ pc[Main] \in InTask \cup AtGate \cup {"destroy"}
  /\ Main \notin own /\ pc[Main] \in InTask \cup {"switch"} /\ phase = "loop" => ~unlocked
  /\ pc[Main] = "start" /\ unlocked => R.threads = "extra"

(* A shader of the request failed, or bitcode did not load. *)
Wrong == Fails(req) \/ faults > 0

(* An error that somebody knows of is one: those that a thread's own context  *)
(* has seen go with the context, before the next request.                     *)
ErrorInv ==
  /\ faults \in Nat
  /\ "main" \in hasError => Wrong
  /\ \A t \in Threads : /\ t \in hasError => t \in own
                        /\ t \in own => pc[t] \in InTask \cup AtGate \cup {"destroy"}
                        /\ t \in hasError /\ pc[t] # "destroy" => Wrong
                        /\ pc[t] = "error" => Wrong
  /\ failed /\ pc[Main] \notin {"idle", "read"} => Wrong
  /\ pc[Main] = "fail" => failed

(* Shader i of the request fails when it is read, or when its own module is   *)
(* lowered or generated.                                                      *)
ReadFails(i) == Shader[R.shaders[i]].diag = "read"
MetaFails(i) == Cps(req) /\ Shader[R.shaders[i]].meta = "bad"
CodeFails(i) == Shader[R.shaders[i]].diag = "codegen"

(* Once the code of a module is generated. *)
Generated == {"lockVgprs", "mergeVgprs", "built"}

(* An error is found: by the main context when it is read, by the thread that *)
(* has the module while it is compiled, and by everyone when that is over.    *)
FoundInv ==
  /\ pc[Main] = "read" => task[Main] >= 1
  /\ pc[Main] # "idle" => \A i \in 1..N :
       /\ ReadFails(i) /\ (pc[Main] = "read" => i < task[Main]) => "main" \in hasError
       /\ pc[Main] # "read" /\ Indirect(req) /\ i < next /\ i \notin open
          /\ (MetaFails(i) \/ CodeFails(i)) => failed
       /\ \A t \in Threads : HasTask(t) /\ task[t] = i =>
            /\ pc[t] # "after"
            /\ CodeFails(i) /\ pc[t] \in Generated => ContextOf(t) \in hasError
            /\ MetaFails(i) => pc[t] \in Claiming \ (Generated \cup {"lockState", "mergeState", "generate"})
  /\ phase # "loop" /\ pc[Main] # "idle" => ~failed /\ next >= Tasks
  /\ pc[Main] = "return" => phase = "entry"
  /\ phase = "traversal" => task[Main] = Tasks
  /\ phase = "entry" /\ pc[Main] # "idle" =>
       /\ task[Main] = 0
       /\ ~Indirect(req) /\ Diagnosed(0) /\ pc[Main] \in Generated \cup {"return"}
            => "main" \in hasError

(* There is a result when the build has returned, and it is right. *)
OutInv == (out.result # "none" => pc[Main] = "idle") /\ ResultRight

(* The mutex of the summary: whoever merges has read what it merges into. *)
Fields == {"traces", "set", "unset", "vgprs", "state", "kernelEntry", "traceModule"}

LockInv ==
  /\ DOMAIN summary = Fields
  /\ seen = [t \in Threads |-> seen[t]]
  /\ \A t \in Threads : pc[t] \in {"mergeState", "mergeVgprs"} => lock = t /\ seen[t] = summary

IInv == PlaceInv /\ ClaimInv /\ ContextInv /\ ErrorInv /\ FoundInv /\ OutInv /\ LockInv

-----------------------------------------------------------------------------
(* What the request says about tasks and failures *)

(* The tasks after the first one are the shaders of an indirect pipeline; a   *)
(* shader that fails does so in one of three ways; only shaders fail.         *)
LEMMA RequestFacts ==
  ASSUME req \in DOMAIN Requests
  PROVE  /\ N \in Nat /\ Tasks \in Nat \ {0}
         /\ \A i \in Nat : 0 < i /\ i < Tasks => i \in 1..N /\ Indirect(req)
         /\ \A i \in 1..N : /\ Indirect(req) => i < Tasks
                            /\ Diagnosed(i) <=> CodeFails(i)
                            /\ ModuleAt(i) = R.shaders[i] /\ R.shaders[i] \in DOMAIN Shader
         /\ Indirect(req) => Tasks = N + 1 /\ ModuleAt(Tasks) \notin DOMAIN Shader
         /\ ModuleAt(0) \notin DOMAIN Shader
<1>1. R.shaders \in Seq(DOMAIN Shader)
  BY RequestsAssumption DEF R
<1>2. N \in Nat /\ \A i \in 1..N : R.shaders[i] \in DOMAIN Shader
  BY <1>1 DEF N
<1>3. Tasks = (IF Indirect(req) THEN N + 1 ELSE 1)
  BY DEF Tasks
<1>4. \A i \in 1..N : ModuleAt(i) = R.shaders[i]
  BY <1>2 DEF ModuleAt
<1>5. \A i \in 1..N : Diagnosed(i) <=> CodeFails(i)
  BY <1>2, <1>4 DEF Diagnosed, ShadersIn, CodeFails
<1>6. ModuleAt(0) = "entry" /\ ModuleAt(N + 1) = "traversal"
  BY <1>2 DEF ModuleAt
<1> QED
  BY <1>2, <1>3, <1>4, <1>5, <1>6, ShadersAssumption

LEMMA Failures ==
  ASSUME req \in DOMAIN Requests
  PROVE  /\ Fails(req) <=> \E i \in 1..N : ReadFails(i) \/ MetaFails(i) \/ CodeFails(i)
         /\ \A i \in Nat : Diagnosed(i) => Fails(req)
         /\ \A i \in Nat : Cps(req) /\ ModuleAt(i) \in DOMAIN Shader
                           /\ Shader[ModuleAt(i)].meta = "bad" => Fails(req)
         /\ ~Indirect(req) => ~Cps(req)
         /\ ~Indirect(req) => \A i \in 1..N : CodeFails(i) => Diagnosed(0)
<1>1. R.shaders \in Seq(DOMAIN Shader)
  BY RequestsAssumption DEF R
<1>2. N \in Nat /\ \A i \in 1..N : R.shaders[i] \in DOMAIN Shader
  BY <1>1 DEF N
<1>3. ShadersOf(req) = {R.shaders[i] : i \in 1..N}
  BY DEF ShadersOf, R, N
<1>4. Fails(req) <=> \E i \in 1..N : ReadFails(i) \/ MetaFails(i) \/ CodeFails(i)
  <2>1. Fails(req) <=> \E i \in 1..N : \/ Shader[R.shaders[i]].diag # "none"
                                       \/ Cps(req) /\ Shader[R.shaders[i]].meta = "bad"
    BY <1>3 DEF Fails
  <2> QED
    BY <1>2, <2>1, ShadersAssumption DEF ReadFails, MetaFails, CodeFails
<1>5. \A i \in Nat : ModuleAt(i) \in DOMAIN Shader => ModuleAt(i) \in ShadersOf(req)
  BY <1>2, <1>3, ShadersAssumption DEF ModuleAt
<1>6. \A i \in Nat : ShadersIn(i) \cap DOMAIN Shader \subseteq ShadersOf(req)
  BY <1>5 DEF ShadersIn
<1>7. ASSUME ~Indirect(req), NEW i \in 1..N, CodeFails(i)  PROVE Diagnosed(0)
  BY <1>2, <1>3, <1>7 DEF CodeFails, Diagnosed, ShadersIn
<1> QED
  BY <1>4, <1>5, <1>6, <1>7 DEF Fails, Diagnosed, Cps

(* Nothing of this changes while the request is the same. *)
LEMMA SameRequest ==
  ASSUME UNCHANGED req
  PROVE  /\ N' = N /\ Tasks' = Tasks /\ R' = R
         /\ \A i : /\ ReadFails(i)' = ReadFails(i) /\ MetaFails(i)' = MetaFails(i)
                   /\ CodeFails(i)' = CodeFails(i) /\ Diagnosed(i)' = Diagnosed(i)
                   /\ ModuleAt(i)' = ModuleAt(i)
  BY DEF N, Tasks, R, ReadFails, MetaFails, CodeFails, Diagnosed, ShadersIn, ModuleAt

-----------------------------------------------------------------------------
(* A thread goes on with its task *)

TaskStep(t) ==
  \/ Create(t) \/ Gate(t) \/ GateSleep(t) \/ StartTask(t) \/ Clone(t) \/ LowerRayTracing(t)
  \/ Lock(t) \/ MergeState(t) \/ Generate(t) \/ MergeVgprs(t)

(* The thread moves on by itself, in a context that it has or creates. *)
LEMMA TaskMoves ==
  ASSUME PlaceInv, NEW t \in Threads, TaskStep(t)
  PROVE  /\ UNCHANGED <<fixed, claims, gate, phase, flags, failed>>
         /\ \A u \in Threads \ {t} : pc'[u] = pc[u]
         /\ pc' \in [Threads -> Claiming \cup Outside \cup {"gone", "out", "start", "switch",
                                                           "destroy", "wait", "notifyLast"}]
         /\ pc[t] \in Claiming \ {"after", "built", "error"}
         /\ pc'[t] \in Claiming \ {"create"}
         /\ pc'[t] = "gate" <=> pc[t] = "create"
         /\ pc[t] # "notify" /\ pc'[t] # "notify"
         /\ pc'[t] \in AtGate => pc[t] \in AtGate \cup {"create"}
         /\ pc[t] \in AtGate => pc'[t] \in AtGate \cup {"task"}
         /\ t = Main => pc'[t] \notin {"gateSleep", "asleep"}
         /\ own' = IF pc[t] = "create" THEN own \cup {t} ELSE own
         /\ pc'[t] \in InTask => pc[t] \in InTask \/ (pc[t] = "gate" /\ (t = Main \/ unlocked))
         /\ pc[t] \in InTask => pc'[t] \in InTask
         /\ pc[t] \in Building => pc'[t] \in Building
         /\ pc'[t] = "clone" => t \in own
<1> USE DEF PlaceInv, Goto, Claiming, AtGate, InTask, Building, fixed, contexts, claims, gate, shared
<1>1. CASE Create(t)
  BY <1>1 DEF Create
<1>2. CASE Gate(t) \/ GateSleep(t)
  BY <1>2 DEF Gate, GateSleep
<1>3. CASE StartTask(t)
  BY <1>3 DEF StartTask
<1>4. CASE Clone(t)
  BY <1>4 DEF Clone
<1>5. CASE LowerRayTracing(t)
  BY <1>5 DEF LowerRayTracing
<1>6. CASE Lock(t)
  BY <1>6 DEF Lock
<1>7. CASE MergeState(t)
  BY <1>7 DEF MergeState
<1>8. CASE Generate(t)
  BY <1>8 DEF Generate
<1>9. CASE MergeVgprs(t)
  BY <1>9 DEF MergeVgprs
<1> QED
  BY <1>1, <1>2, <1>3, <1>4, <1>5, <1>6, <1>7, <1>8, <1>9 DEF TaskStep

(* A thread has a task only while a request is being built. *)
LEMMA Busy ==
  ASSUME PlaceInv, ClaimInv, NEW t \in Threads, pc[t] \in Claiming
  PROVE  req \in DOMAIN Requests /\ pc[Main] \notin Outside
<1>1. CASE t = Main
  BY <1>1 DEF PlaceInv, Claiming, InTask, AtGate, Building, Outside
<1>2. CASE t # Main
  BY <1>2 DEF PlaceInv, ClaimInv, HasTask, InLoop, Outside
<1> QED
  BY <1>1, <1>2

(* What it learns about errors: they are failures of its module, or bitcode   *)
(* that does not load.                                                        *)
LEMMA TaskErrors ==
  ASSUME IInv, NEW t \in Threads, TaskStep(t)
  PROVE  /\ faults' \in Nat /\ faults' >= faults
         /\ hasError \subseteq hasError' /\ hasError' \subseteq hasError \cup {ContextOf(t)}
         /\ hasError' # hasError => Fails(req) /\ pc[t] = "generate"
         /\ pc'[t] = "error" => Fails(req) \/ faults' > 0
         /\ t = Main /\ phase # "loop" => pc'[t] # "error"
         /\ pc'[t] = "after" => task[t] = 0
         /\ pc'[t] \in Generated /\ pc[t] \notin Generated =>
              pc[t] = "generate" /\ (Diagnosed(task[t]) => ContextOf(t) \in hasError')
         /\ pc'[t] \in {"lockState", "mergeState", "generate"}
               /\ pc[t] \notin {"lockState", "mergeState", "generate"}
              => ~Cps(req) \/ ModuleAt(task[t]) \notin DOMAIN Shader
                 \/ Shader[ModuleAt(task[t])].meta # "bad"
         /\ pc[t] \in Generated => pc'[t] \in Generated
<1> USE DEF IInv, Goto, Generated, fixed, contexts, claims, gate, shared
<1>1. req \in DOMAIN Requests
  BY TaskMoves, Busy
<1>2. task[t] \in Nat /\ faults \in Nat /\ pc = [u \in Threads |-> pc[u]]
  BY DEF ClaimInv, ErrorInv, PlaceInv
<1>3. CASE Create(t) \/ Gate(t) \/ GateSleep(t) \/ StartTask(t)
  BY <1>2, <1>3 DEF Create, Gate, GateSleep, StartTask
<1>4. CASE Clone(t)
  <2>1. t = Main => phase = "loop"
    BY <1>4 DEF Clone, ContextInv
  <2> QED
    BY <1>2, <1>4, <2>1 DEF Clone
<1>5. CASE LowerRayTracing(t)
  <2>1. t = Main /\ phase # "loop" => ~Cps(req) \/ ModuleAt(task[t]) \notin DOMAIN Shader
    BY <1>1, <1>5, RequestFacts, Failures DEF LowerRayTracing, PlaceInv, FoundInv
  <2>2. /\ UNCHANGED <<faults, hasError>>
        /\ pc[t] = "lower" /\ pc'[t] \in {"generate", "error", "lockState"}
        /\ pc'[t] = "error" <=> /\ Cps(req) /\ ModuleAt(task[t]) \in DOMAIN Shader
                                /\ Shader[ModuleAt(task[t])].meta = "bad"
    <3> DEFINE bad == ModuleAt(task[t]) \in DOMAIN Shader /\ Shader[ModuleAt(task[t])].meta = "bad"
    <3>1. /\ UNCHANGED <<faults, hasError>> /\ pc[t] = "lower"
          /\ pc' = [pc EXCEPT ![t] = CASE ~Cps(req) -> "generate"
                                       [] Cps(req) /\ bad -> "error" [] OTHER -> "lockState"]
      BY <1>5 DEF LowerRayTracing
    <3> HIDE DEF bad
    <3>2. CASE ~Cps(req)
      BY <1>2, <3>1, <3>2
    <3>3. CASE Cps(req) /\ bad
      BY <1>2, <3>1, <3>3 DEF bad
    <3>4. CASE Cps(req) /\ ~bad
      BY <1>2, <3>1, <3>4 DEF bad
    <3> QED
      BY <3>2, <3>3, <3>4
  <2> QED
    BY <1>1, <1>2, <2>1, <2>2, Failures
<1>6. CASE Lock(t) \/ MergeState(t) \/ MergeVgprs(t)
  BY <1>2, <1>6 DEF Lock, MergeState, MergeVgprs
<1>7. CASE Generate(t)
  BY <1>1, <1>2, <1>7, Failures DEF Generate
<1> QED
  BY <1>3, <1>4, <1>5, <1>6, <1>7 DEF TaskStep

(* Its lock: the summary changes in the hands of the thread that has it. *)
LEMMA TaskLocks ==
  ASSUME IInv, NEW t \in Threads, TaskStep(t)
  PROVE  LockInv'
<1> USE DEF IInv, PlaceInv, LockInv, Goto, fixed, contexts, claims, gate, shared
<1>0. \A u \in Threads : NoThread # u
  BY ThreadsAssumption
<1>1. CASE Create(t)
  BY <1>1 DEF Create
<1>2. CASE Gate(t) \/ GateSleep(t)
  BY <1>2 DEF Gate, GateSleep
<1>3. CASE StartTask(t)
  BY <1>3 DEF StartTask
<1>4. CASE Clone(t)
  BY <1>4 DEF Clone
<1>5. CASE LowerRayTracing(t)
  BY <1>5 DEF LowerRayTracing
<1>6. CASE Lock(t)
  BY <1>0, <1>6 DEF Lock
<1>7. CASE MergeState(t)
  BY <1>0, <1>7 DEF MergeState
<1>8. CASE Generate(t)
  BY <1>8 DEF Generate
<1>9. CASE MergeVgprs(t)
  BY <1>0, <1>9 DEF MergeVgprs
<1> QED
  BY <1>1, <1>2, <1>3, <1>4, <1>5, <1>6, <1>7, <1>8, <1>9 DEF TaskStep

LEMMA TaskKeeps ==
  ASSUME IInv, NEW t \in Threads, TaskStep(t)
  PROVE  IInv'
<1> USE DEF IInv
<1>1. req \in DOMAIN Requests /\ pc[Main] \notin Outside
  BY TaskMoves, Busy
<1>2. UNCHANGED <<plan, req, built, out, task, next, open, unlocked, joined, phase, flags, failed>>
  BY TaskMoves DEF fixed, claims, gate
<1>3. Main \in Threads /\ Helpers \subseteq Threads /\ Main \notin Helpers
  BY ThreadsAssumption DEF Threads
<1>4. PlaceInv'
  BY <1>1, <1>2, <1>3, TaskMoves, TaskErrors DEF PlaceInv, Claiming, InTask, AtGate, Building, Outside
<1>5. ClaimInv'
  <2>1. \A u \in Threads : HasTask(u)' => HasTask(u)
    BY <1>2, TaskMoves DEF HasTask
  <2>2. InLoop' = InLoop /\ Tasks' = Tasks /\ pc'[Main] # "fail"
    BY <1>1, <1>2, <1>3, TaskMoves, SameRequest DEF InLoop, Claiming, InTask, AtGate, Building, Outside
  <2> QED
    BY <1>1, <1>2, <2>1, <2>2 DEF ClaimInv, Outside
<1>6. ContextInv'
  <2> USE <1>2, <1>3, TaskMoves DEF ContextInv
  <2>1. \A u \in Threads : pc'[u] \in AtGate \cup {"destroy", "clone"} => u \in own'
    BY DEF Claiming, InTask, AtGate, Building
  <2>2. \A h \in Helpers : pc'[h] \in InTask => h \in own' /\ unlocked
    BY DEF AtGate
  <2>3. Main \in own' => phase = "loop" /\ pc'[Main] \in InTask \cup AtGate \cup {"destroy"}
    BY DEF PlaceInv, Claiming, InTask, AtGate, Building
  <2>4. Main \notin own' /\ pc'[Main] \in InTask \cup {"switch"} /\ phase = "loop" => ~unlocked
    BY DEF Claiming, InTask, AtGate, Building
  <2>5. pc'[Main] = "start" => pc[Main] = "start" /\ R' = R
    BY SameRequest DEF Claiming, InTask, AtGate, Building
  <2> QED
    BY <2>1, <2>2, <2>3, <2>4, <2>5
<1>7. ErrorInv'
  <2> USE <1>1, <1>2, <1>3, TaskMoves, TaskErrors DEF ErrorInv
  <2>1. Wrong => Wrong'
    BY DEF Wrong
  <2>2. hasError' # hasError => Wrong'
    BY DEF Wrong
  <2>3. pc'[t] = "error" => Wrong'
    BY DEF Wrong
  <2>4. hasError' # hasError => ContextOf(t) = "main" \/ (ContextOf(t) = t /\ t \in own')
    BY DEF ContextOf
  <2>5. ASSUME NEW u \in Threads
        PROVE  /\ u \in hasError' => u \in own'
               /\ u \in own' => pc'[u] \in InTask \cup AtGate \cup {"destroy"}
               /\ u \in hasError' /\ pc'[u] # "destroy" => Wrong'
               /\ pc'[u] = "error" => Wrong'
    <3>1. u # "main"
      BY ThreadsAssumption
    <3>2. CASE u = t
      BY <2>1, <2>2, <2>3, <2>4, <3>1, <3>2 DEF Claiming, InTask, AtGate, Building
    <3>3. CASE u # t
      BY <2>1, <2>2, <2>4, <3>1, <3>3 DEF Claiming
    <3> QED
      BY <3>2, <3>3
  <2>6. pc'[Main] # "fail"
    BY DEF Outside, Claiming, InTask, AtGate, Building
  <2> QED
    BY <2>1, <2>2, <2>4, <2>5, <2>6 DEF Outside
<1>8. FoundInv'
  <2> USE <1>1, <1>2, <1>3, TaskMoves, TaskErrors DEF FoundInv
  <2>1. N' = N /\ Tasks' = Tasks /\ Indirect(req)' = Indirect(req)
    BY SameRequest
  <2>2. /\ pc[Main] \notin {"idle", "read", "return"}
        /\ pc'[Main] \notin {"idle", "read", "return"}
    BY DEF Outside, Claiming, InTask, AtGate, Building
  <2>3. ASSUME NEW i \in 1..N
        PROVE  /\ ReadFails(i)' => "main" \in hasError'
               /\ Indirect(req) /\ i < next /\ i \notin open
                  /\ (MetaFails(i)' \/ CodeFails(i)') => failed
    BY <2>2, SameRequest
  <2>4. ASSUME NEW i \in 1..N, NEW u \in Threads, HasTask(u)', task[u] = i
        PROVE  /\ pc'[u] # "after"
               /\ CodeFails(i)' /\ pc'[u] \in Generated => ContextOf(u)' \in hasError'
               /\ MetaFails(i)' => pc'[u] \in Claiming \ (Generated \cup {"lockState", "mergeState", "generate"})
    <3>1. HasTask(u) /\ ContextOf(u)' = (IF u \in own' THEN u ELSE "main")
      BY <2>4 DEF HasTask, ContextOf
    <3>2. /\ pc[u] # "after"
          /\ CodeFails(i) /\ pc[u] \in Generated => ContextOf(u) \in hasError
          /\ MetaFails(i) => pc[u] \in Claiming \ (Generated \cup {"lockState", "mergeState", "generate"})
      BY <2>2, <2>4, <3>1
    <3>3. CASE u # t
      BY <2>4, <3>1, <3>2, <3>3, SameRequest DEF ContextOf
    <3>4. CASE u = t
      <4>1. pc'[u] # "after"
        BY <2>4, <3>4, RequestFacts
      <4>2. pc[u] \in Generated \cup {"generate"} => ContextOf(u)' = ContextOf(u)
        BY <3>4 DEF ContextOf, Generated
      <4>3. ASSUME CodeFails(i)', pc'[u] \in Generated  PROVE ContextOf(u)' \in hasError'
        BY <2>4, <3>2, <3>4, <4>2, <4>3, RequestFacts, SameRequest
      <4>4. ASSUME MetaFails(i)'
            PROVE  pc'[u] \in Claiming \ (Generated \cup {"lockState", "mergeState", "generate"})
        BY <2>4, <3>2, <3>4, <4>4, RequestFacts, SameRequest DEF MetaFails
      <4> QED
        BY <4>1, <4>3, <4>4
    <3> QED
      BY <3>3, <3>4
  <2>5. phase = "entry" /\ ~Indirect(req) /\ Diagnosed(0)' /\ pc'[Main] \in Generated
          => "main" \in hasError'
    <3> SUFFICES ASSUME phase = "entry", ~Indirect(req), Diagnosed(0), pc'[Main] \in Generated
                 PROVE  "main" \in hasError'
      BY SameRequest
    <3>1. task[Main] = 0 /\ ContextOf(Main) = "main"
      BY <2>2 DEF ContextInv, ContextOf
    <3> QED
      BY <2>2, <3>1
  <2> QED
    BY <2>1, <2>2, <2>3, <2>4, <2>5
<1>9. OutInv'
  BY <1>1, <1>2, TaskErrors DEF OutInv, ResultRight, Outside
<1> QED
  BY <1>4, <1>5, <1>6, <1>7, <1>8, <1>9, TaskLocks

-----------------------------------------------------------------------------
(* The end of a task, and of a thread's part of the loop *)

(* The thread goes on with the next task if there is one and it may. *)
LEMMA FinishMoves ==
  ASSUME IInv, NEW t \in Threads, FinishTask(t)
  PROVE  /\ UNCHANGED <<fixed, contexts, gate, shared, phase, flags, elfs, faults>>
         /\ HasTask(t) /\ pc[t] \in {"after", "built", "error"}
         /\ \A u \in Threads \ {t} : pc'[u] = pc[u] /\ task'[u] = task[u]
         /\ pc' \in [Threads -> Claiming \cup Outside \cup {"gone", "out", "start", "switch",
                                                           "destroy", "wait", "notifyLast"}]
         /\ task' \in [Threads -> Nat] /\ next' \in Nat
         /\ failed' <=> failed \/ Bad(t)
         /\ \/ /\ pc'[t] = "task" /\ task'[t] = next /\ next' = next + 1 /\ next < Tasks
               /\ open' = (open \ {task[t]}) \cup {next}
            \/ /\ pc'[t] = IF t \in own THEN "destroy" ELSE "switch"
               /\ next' = next \/ (next' = Tasks /\ failed')
               /\ next' >= next
               /\ open' = open \ {task[t]}
<1> DEFINE more == ~Bad(t) /\ ~failed /\ next < Tasks /\ (t \in own \/ ~joined)
<1>1. req \in DOMAIN Requests
  BY Busy DEF IInv, FinishTask, Claiming, InTask, AtGate, Building
<1>2. /\ pc \in [Threads -> Claiming \cup Outside \cup {"gone", "out", "start", "switch",
                                                        "destroy", "wait", "notifyLast"}]
      /\ task \in [Threads -> Nat] /\ next \in Nat /\ Tasks \in Nat
  BY <1>1, RequestFacts DEF IInv, PlaceInv, ClaimInv
<1>3. HasTask(t) /\ pc[t] \in {"after", "built", "error"}
  BY DEF FinishTask, HasTask, Claiming, InTask, AtGate, Building
<1>4. failed' <=> failed \/ Bad(t)
  BY DEF FinishTask
<1>5. UNCHANGED <<fixed, contexts, gate, shared, phase, flags, elfs, faults>>
  BY DEF FinishTask
<1>6. CASE more
  <2>1. /\ pc' = [pc EXCEPT ![t] = "task"] /\ task' = [task EXCEPT ![t] = next]
        /\ next' = next + 1 /\ open' = (open \ {task[t]}) \cup {next}
    BY <1>6 DEF FinishTask, Goto
  <2> QED
    BY <1>2, <1>3, <1>4, <1>5, <1>6, <2>1 DEF Claiming, InTask
<1>7. CASE ~more
  <2>1. /\ pc' = [pc EXCEPT ![t] = IF t \in own THEN "destroy" ELSE "switch"] /\ task' = task
        /\ next' = (IF Bad(t) /\ ~failed THEN Tasks ELSE next) /\ open' = open \ {task[t]}
    BY <1>7 DEF FinishTask, Goto
  <2>2. next' >= next
    <3>1. next <= Tasks
      BY <1>3, Busy DEF IInv, HasTask, ClaimInv, Outside
    <3> QED
      BY <1>2, <2>1, <3>1
  <2>3. /\ task' \in [Threads -> Nat] /\ next' \in Nat
        /\ \A u \in Threads \ {t} : pc'[u] = pc[u] /\ task'[u] = task[u]
        /\ pc' \in [Threads -> Claiming \cup Outside \cup {"gone", "out", "start", "switch",
                                                           "destroy", "wait", "notifyLast"}]
        /\ pc'[t] = IF t \in own THEN "destroy" ELSE "switch"
    BY <1>2, <2>1
  <2>4. next' = next \/ (next' = Tasks /\ failed')
    BY <1>4, <2>1
  <2> QED
    BY <1>3, <1>4, <1>5, <2>1, <2>2, <2>3, <2>4
<1> QED
  BY <1>6, <1>7

LEMMA FinishKeeps ==
  ASSUME IInv, NEW t \in Threads, FinishTask(t)
  PROVE  IInv'
<1> USE DEF IInv
<1>1. HasTask(t) /\ req \in DOMAIN Requests /\ pc[Main] \notin Outside /\ InLoop
  BY FinishMoves, Busy DEF HasTask, ClaimInv
<1>2. /\ UNCHANGED <<plan, req, built, out, hasError, own, pool, unlocked, joined, summary, lock, seen>>
      /\ UNCHANGED <<phase, flags, elfs, faults>>
  BY FinishMoves DEF fixed, contexts, gate, shared
<1>3. Main \in Threads /\ Helpers \subseteq Threads /\ Main \notin Helpers
  BY ThreadsAssumption DEF Threads
<1>4. t \in Helpers => t \in own
  BY FinishMoves DEF ContextInv, InTask, AtGate, Building
<1>5. N' = N /\ Tasks' = Tasks /\ Indirect(req)' = Indirect(req) /\ Tasks \in Nat
  BY <1>1, <1>2, SameRequest, RequestFacts
<1>6. PlaceInv'
  BY <1>1, <1>2, <1>3, <1>4, FinishMoves DEF PlaceInv, InLoop, Claiming, InTask, AtGate, Building, Outside
<1>7. pc'[Main] \notin Outside /\ InLoop'
  BY <1>1, <1>2, <1>3, FinishMoves DEF InLoop, Outside
<1>8. ClaimInv'
  <2> USE <1>1, <1>2, <1>3, <1>5, <1>7, FinishMoves DEF ClaimInv
  <2>1. \A u \in Threads \ {t} : HasTask(u)' <=> HasTask(u)
    BY DEF HasTask
  <2>2. HasTask(t)' => pc'[t] = "task"
    BY DEF HasTask, Claiming, InTask, AtGate, Building
  <2>3. \A i \in open' : i \in Nat /\ i < next' /\ i < Tasks
    OBVIOUS
  <2>4. \A u \in Threads : HasTask(u)' => task'[u] \in open'
    BY <2>1, <2>2
  <2>5. \A u, v \in Threads : HasTask(u)' /\ HasTask(v)' /\ u # v => task'[u] # task'[v]
    BY <2>1, <2>2
  <2>6. next' <= Tasks
    BY DEF Outside
  <2> QED
    BY <2>3, <2>4, <2>5, <2>6 DEF Outside
<1>9. ContextInv'
  BY <1>2, <1>3, <1>4, FinishMoves, SameRequest DEF ContextInv, InTask, AtGate, Building
<1>10. Wrong' = Wrong /\ (Bad(t) => Wrong)
  <2>1. Wrong' = Wrong
    BY <1>2 DEF Wrong
  <2> QED
    BY <2>1, FinishMoves DEF Bad, ErrorInv, ContextOf
<1>11. ErrorInv'
  BY <1>1, <1>2, <1>3, <1>4, <1>7, <1>10, FinishMoves DEF ErrorInv, Outside, InTask, AtGate, Building
<1>12. FoundInv'
  <2> USE <1>1, <1>2, <1>3, <1>5, <1>7, FinishMoves DEF FoundInv
  <2>1. /\ phase = "loop" /\ pc[Main] \notin {"idle", "read", "return"}
        /\ pc'[Main] \notin {"idle", "read", "return"}
    BY DEF Outside, InLoop
  <2>2. ASSUME NEW i \in 1..N
        PROVE  ReadFails(i)' => "main" \in hasError'
    BY <2>1, SameRequest
  <2>3. ASSUME NEW i \in 1..N, Indirect(req), i < next', i \notin open', MetaFails(i)' \/ CodeFails(i)'
        PROVE  failed'
    <3>1. MetaFails(i) \/ CodeFails(i)
      BY <2>3, SameRequest
    <3>2. CASE i \notin open /\ i < next
      BY <2>1, <2>3, <3>1, <3>2
    <3>3. CASE i \in open
      <4>1. i = task[t]
        BY <2>3, <3>3
      <4> QED
        BY <2>1, <3>1, <4>1 DEF Bad, Generated
    <3>4. CASE ~(i < next)
      BY <2>3, <3>4 DEF ClaimInv
    <3> QED
      BY <3>2, <3>3, <3>4
  <2>4. ASSUME NEW i \in 1..N, NEW u \in Threads, HasTask(u)', task'[u] = i
        PROVE  /\ pc'[u] # "after"
               /\ CodeFails(i)' /\ pc'[u] \in Generated => ContextOf(u)' \in hasError'
               /\ MetaFails(i)' => pc'[u] \in Claiming \ (Generated \cup {"lockState", "mergeState", "generate"})
    <3>1. CASE u = t
      BY <2>4, <3>1 DEF HasTask, Claiming, InTask, AtGate, Building, Generated
    <3>2. CASE u # t
      BY <2>1, <2>4, <3>2, SameRequest DEF HasTask, ContextOf
    <3> QED
      BY <3>1, <3>2
  <2> QED
    BY <2>1, <2>2, <2>3, <2>4
<1>13. OutInv'
  BY <1>1, <1>2 DEF OutInv, ResultRight, Outside
<1>14. LockInv'
  BY <1>2, FinishMoves DEF LockInv
<1> QED
  BY <1>6, <1>8, <1>9, <1>11, <1>12, <1>13, <1>14

(* The context goes, and the errors it has seen with it. *)
LEMMA DestroyKeeps ==
  ASSUME IInv, NEW t \in Threads, Destroy(t)
  PROVE  IInv'
<1> USE DEF IInv
<1>1. /\ UNCHANGED <<plan, req, built, out, next, open, unlocked, joined, summary, lock, seen>>
      /\ UNCHANGED <<phase, flags, failed, elfs, faults>>
      /\ pc[t] = "destroy" /\ own' = own \ {t} /\ hasError' = hasError \ {t}
  BY DEF Destroy, fixed, gate, shared
<1>2. Main \in Threads /\ Helpers \subseteq Threads /\ Main \notin Helpers /\ t # "main"
  BY ThreadsAssumption DEF Threads
<1>3. /\ pc' = [pc EXCEPT ![t] = pc'[t]] /\ pc'[t] = IF t = Main THEN "wait" ELSE "gone"
      /\ task' = [task EXCEPT ![t] = 0]
  BY DEF Destroy, Goto, PlaceInv
<1>4. t \in own /\ (t = Main => phase = "loop")
  BY <1>1, <1>2 DEF ContextInv
<1>5. \A u \in Threads \ {t} : pc'[u] = pc[u] /\ task'[u] = task[u]
  BY <1>3 DEF PlaceInv, ClaimInv
<1>6. PlaceInv'
  BY <1>1, <1>2, <1>3, <1>4, <1>5 DEF PlaceInv, Claiming, InTask, AtGate, Building, Outside, Threads
<1>7. N' = N /\ Tasks' = Tasks /\ R' = R
  BY <1>1, SameRequest
<1>8. \A u \in Threads : HasTask(u)' => HasTask(u) /\ u # t
  BY <1>1, <1>3, <1>5 DEF HasTask, Claiming, InTask, AtGate, Building
<1>9. InLoop' = InLoop /\ (pc'[Main] = pc[Main] \/ (pc[Main] = "destroy" /\ pc'[Main] = "wait"))
  BY <1>1, <1>2, <1>3, <1>5 DEF InLoop, Outside
<1>10. ClaimInv'
  <2>1. task' \in [Threads -> Nat]
    BY <1>3 DEF ClaimInv
  <2>2. /\ \A u \in Threads : HasTask(u)' => task'[u] \in open'
        /\ \A u, v \in Threads : HasTask(u)' /\ HasTask(v)' /\ u # v => task'[u] # task'[v]
    BY <1>1, <1>5, <1>8 DEF ClaimInv
  <2> QED
    BY <1>1, <1>7, <1>9, <2>1, <2>2 DEF ClaimInv
<1>11. ContextInv'
  BY <1>1, <1>2, <1>3, <1>4, <1>5, <1>7 DEF ContextInv, InTask, AtGate, Building
<1>12. ErrorInv'
  <2>1. Wrong' = Wrong
    BY <1>1 DEF Wrong
  <2> QED
    BY <1>1, <1>2, <1>3, <1>5, <1>9, <2>1 DEF ErrorInv
<1>13. FoundInv'
  <2>1. \A u \in Threads \ {t} : ContextOf(u)' = ContextOf(u) /\ ContextOf(u) # t
    BY <1>1, <1>2 DEF ContextOf
  <2>2. \A i : /\ ReadFails(i)' = ReadFails(i) /\ MetaFails(i)' = MetaFails(i)
               /\ CodeFails(i)' = CodeFails(i) /\ Diagnosed(i)' = Diagnosed(i)
    BY <1>1, SameRequest
  <2>3. pc'[Main] \in {"idle", "read", "return"} \cup Generated => t # Main
    BY <1>3 DEF Generated
  <2>4. phase # "loop" => t # Main
    BY <1>4
  <2>5. pc[Main] = "idle" <=> pc'[Main] = "idle"
    BY <1>9
  <2>6. ASSUME pc'[Main] # "idle", NEW i \in 1..N
        PROVE  /\ ReadFails(i)' /\ (pc'[Main] = "read" => i < task'[Main]) => "main" \in hasError'
               /\ pc'[Main] # "read" /\ Indirect(req)' /\ i < next' /\ i \notin open'
                    /\ (MetaFails(i)' \/ CodeFails(i)') => failed'
    BY <1>1, <1>2, <1>5, <1>9, <2>2, <2>3, <2>6 DEF FoundInv
  <2>7. ASSUME pc'[Main] # "idle", NEW i \in 1..N, NEW u \in Threads, HasTask(u)', task'[u] = i
        PROVE  /\ pc'[u] # "after"
               /\ CodeFails(i)' /\ pc'[u] \in Generated => ContextOf(u)' \in hasError'
               /\ MetaFails(i)' => pc'[u] \in Claiming \ (Generated \cup {"lockState", "mergeState", "generate"})
    <3>1. HasTask(u) /\ u # t /\ pc[u] = pc'[u] /\ task[u] = i /\ pc[Main] # "idle"
      BY <1>5, <1>8, <2>5, <2>7
    <3> QED
      BY <1>1, <2>1, <2>2, <3>1 DEF FoundInv
  <2> QED
    BY <1>1, <1>2, <1>5, <1>7, <1>9, <2>2, <2>3, <2>4, <2>5, <2>6, <2>7 DEF FoundInv
<1>14. OutInv'
  BY <1>1, <1>9 DEF OutInv, ResultRight
<1>15. LockInv'
  BY <1>1, <1>3, <1>5 DEF LockInv
<1> QED
  BY <1>6, <1>10, <1>11, <1>12, <1>13, <1>14, <1>15

-----------------------------------------------------------------------------
(* Sleepers wake up, notified or not *)

WakeStep == Notify \/ \E h \in Helpers : SpuriousWakeup(h)

Woken(t) ==
  \/ pc'[t] = pc[t]
  \/ t # Main /\ pc[t] = "asleep" /\ pc'[t] = "gate"
  \/ t = Main /\ pc[t] = "notify" /\ pc'[t] = "create"
  \/ t = Main /\ pc[t] = "notifyLast" /\ pc'[t] = "wait"

(* A sleeper tests the gate again, and the main thread goes on after it has   *)
(* notified; nobody's task or context changes.                                *)
LEMMA WakeMoves ==
  ASSUME PlaceInv, WakeStep
  PROVE  /\ UNCHANGED <<fixed, contexts, claims, gate, shared, phase, flags, failed, elfs, faults>>
         /\ pc' \in [Threads -> Claiming \cup Outside \cup {"gone", "out", "start", "switch",
                                                           "destroy", "wait", "notifyLast"}]
         /\ \A t \in Threads : Woken(t)
<1>1. /\ pc \in [Threads -> Claiming \cup Outside \cup {"gone", "out", "start", "switch",
                                                        "destroy", "wait", "notifyLast"}]
      /\ Main \in Threads /\ Main \notin Helpers /\ Helpers \subseteq Threads
  BY ThreadsAssumption DEF PlaceInv, Threads
<1> USE <1>1 DEF Claiming, AtGate, Woken
<1>2. CASE Notify
  <2>1. \A t \in Threads : Woken(t)
    BY <1>2 DEF Notify
  <2>2. pc' = [t \in Threads |-> pc'[t]]
    BY <1>2 DEF Notify
  <2> QED
    BY <1>2, <2>1, <2>2 DEF Notify
<1>3. ASSUME NEW h \in Helpers, SpuriousWakeup(h)  PROVE pc' = [pc EXCEPT ![h] = "gate"] /\ pc[h] = "asleep"
  BY <1>3 DEF SpuriousWakeup, Goto
<1>4. CASE \E h \in Helpers : SpuriousWakeup(h)
  <2>1. PICK h \in Helpers : SpuriousWakeup(h)
    BY <1>4
  <2> QED
    BY <1>3, <2>1 DEF SpuriousWakeup
<1> QED
  BY <1>2, <1>4 DEF WakeStep

LEMMA WakeKeeps ==
  ASSUME IInv, WakeStep
  PROVE  IInv'
<1> USE DEF IInv
<1>1. UNCHANGED <<plan, req, phase, hasError, task, own, next, open, unlocked, failed, lock,
                  seen, summary, out, faults>>
  BY WakeMoves DEF fixed, contexts, claims, gate, shared
<1>2. \A t \in Threads : Woken(t)
  BY WakeMoves
<1>3. Main \in Threads /\ Helpers \subseteq Threads /\ Main \notin Helpers
  BY ThreadsAssumption DEF Threads
<1>4. /\ N' = N /\ Tasks' = Tasks /\ R' = R /\ Wrong' = Wrong
      /\ \A t : ContextOf(t)' = ContextOf(t)
  BY <1>1, SameRequest DEF Wrong, ContextOf
<1>5. InLoop' = InLoop /\ \A t \in Threads : HasTask(t)' = HasTask(t)
  BY <1>1, <1>2, <1>3 DEF Woken, InLoop, HasTask, Claiming, AtGate, InTask, Building, Outside
<1>6. PlaceInv'
  BY <1>1, <1>2, <1>3, WakeMoves DEF Woken, PlaceInv, Building, Outside
<1>7. ClaimInv'
  BY <1>1, <1>2, <1>3, <1>4, <1>5 DEF Woken, ClaimInv
<1>8. ContextInv'
  BY <1>1, <1>2, <1>3, <1>4 DEF Woken, ContextInv, InTask, Building, AtGate
<1>9. ErrorInv'
  BY <1>1, <1>2, <1>3, <1>4 DEF Woken, ErrorInv, InTask, Building, AtGate
<1>10. FoundInv'
  <2>1. \A t \in Threads : \/ pc'[t] = pc[t]
                           \/ pc'[t] \in {"gate", "create", "wait"} /\ pc[t] \in {"asleep", "notify", "notifyLast"}
    BY <1>2 DEF Woken
  <2>3. /\ pc'[Main] = "read" <=> pc[Main] = "read"
        /\ pc'[Main] = "idle" <=> pc[Main] = "idle"
        /\ pc'[Main] = "return" <=> pc[Main] = "return"
        /\ pc'[Main] \in Generated \cup {"return"} => pc[Main] \in Generated \cup {"return"}
    BY <1>3, <2>1 DEF Generated
  <2>4. \A i : /\ ReadFails(i)' = ReadFails(i) /\ MetaFails(i)' = MetaFails(i)
               /\ CodeFails(i)' = CodeFails(i) /\ Diagnosed(i)' = Diagnosed(i)
    BY <1>1, SameRequest
  <2>5. ASSUME NEW i \in 1..N, NEW t \in Threads, pc[Main] # "idle", HasTask(t), task[t] = i
        PROVE  /\ pc'[t] # "after"
               /\ CodeFails(i) /\ pc'[t] \in Generated => ContextOf(t) \in hasError
               /\ MetaFails(i) => pc'[t] \in Claiming \ (Generated \cup {"lockState", "mergeState", "generate"})
    <3>1. /\ pc[t] # "after"
          /\ CodeFails(i) /\ pc[t] \in Generated => ContextOf(t) \in hasError
          /\ MetaFails(i) => pc[t] \in Claiming \ (Generated \cup {"lockState", "mergeState", "generate"})
      BY <2>5 DEF FoundInv
    <3>2. pc'[t] \in Claiming
      BY <1>5, <2>5 DEF HasTask
    <3>3. CASE pc'[t] = pc[t]
      BY <3>1, <3>2, <3>3
    <3>4. CASE pc'[t] \in {"gate", "create", "wait"}
      BY <3>2, <3>4 DEF Generated
    <3> QED
      BY <2>1, <3>3, <3>4
  <2>6. ASSUME NEW i \in 1..N, pc[Main] # "idle"
        PROVE  /\ ReadFails(i) /\ (pc[Main] = "read" => i < task[Main]) => "main" \in hasError
               /\ pc[Main] # "read" /\ Indirect(req) /\ i < next /\ i \notin open
                    /\ (MetaFails(i) \/ CodeFails(i)) => failed
    BY <2>6 DEF FoundInv
  <2>7. ASSUME pc'[Main] # "idle", NEW i \in 1..N'
        PROVE  /\ ReadFails(i)' /\ (pc'[Main] = "read" => i < task'[Main]) => "main" \in hasError'
               /\ pc'[Main] # "read" /\ Indirect(req)' /\ i < next' /\ i \notin open'
                    /\ (MetaFails(i)' \/ CodeFails(i)') => failed'
               /\ \A t \in Threads : HasTask(t)' /\ task'[t] = i =>
                    /\ pc'[t] # "after"
                    /\ CodeFails(i)' /\ pc'[t] \in Generated => ContextOf(t)' \in hasError'
                    /\ MetaFails(i)' => pc'[t] \in Claiming \ (Generated \cup {"lockState", "mergeState", "generate"})
    <3>1. i \in 1..N /\ pc[Main] # "idle"
      BY <1>4, <2>3, <2>7
    <3> QED
      BY <1>1, <1>4, <1>5, <2>3, <2>4, <2>5, <2>6, <3>1
  <2> QED
    BY <1>1, <1>4, <2>3, <2>4, <2>7 DEF FoundInv
<1>11. OutInv' /\ LockInv'
  BY <1>1, <1>2, <1>3 DEF Woken, OutInv, ResultRight, LockInv
<1> QED
  BY <1>6, <1>7, <1>8, <1>9, <1>10, <1>11

-----------------------------------------------------------------------------
(* A thread claims its first task of a pass *)

ClaimStep(t) == (t = Main /\ (Start \/ Switch)) \/ (t \in Helpers /\ Join(t))

(* It has none before, and finds one or is done with the loop; only the main  *)
(* thread starts without a context, and then nobody else compiles yet.        *)
LEMMA ClaimMoves ==
  ASSUME IInv, NEW t \in Threads, ClaimStep(t)
  PROVE  /\ UNCHANGED <<fixed, contexts, shared, flags, failed, elfs, faults, phase>>
         /\ phase = "loop" /\ pc[Main] \notin {"idle", "read", "return"}
         /\ (pc[t] = "out" /\ t # Main) \/ (pc[t] \in {"start", "switch"} /\ t = Main)
         /\ unlocked => unlocked'
         /\ unlocked' => unlocked \/ (t = Main /\ pc[t] = "switch")
         /\ \A u \in Threads \ {t} : pc'[u] = pc[u] /\ task'[u] = task[u]
         /\ pc' \in [Threads -> Claiming \cup Outside \cup {"gone", "out", "start", "switch",
                                                           "destroy", "wait", "notifyLast"}]
         /\ task' \in [Threads -> Nat] /\ next' \in Nat
         /\ \/ /\ next < Tasks /\ task'[t] = next /\ next' = next + 1 /\ open' = open \cup {next}
               /\ pc'[t] \in {"create", "notify", "task"} /\ (pc'[t] = "notify" => t = Main)
               /\ pc'[t] = "task" => t = Main /\ ~unlocked'
            \/ /\ UNCHANGED <<task, next, open>>
               /\ pc'[t] \in IF t = Main THEN {"wait", "notifyLast"} ELSE {"gone"}
<1> USE DEF IInv
<1>1. /\ pc \in [Threads -> Claiming \cup Outside \cup {"gone", "out", "start", "switch",
                                                        "destroy", "wait", "notifyLast"}]
      /\ task \in [Threads -> Nat] /\ next \in Nat
  BY DEF PlaceInv, ClaimInv
<1>2. Main \in Threads /\ Helpers \subseteq Threads /\ Main \notin Helpers
  BY ThreadsAssumption DEF Threads
<1> USE <1>1, <1>2 DEF Goto, Claim, NoClaim, Claiming, InTask, gate
<1>3. CASE t = Main /\ Start
  <2>1. phase = "loop"
    BY <1>3 DEF Start, PlaceInv, Building
  <2>2. R.threads # "extra" => ~unlocked
    BY <1>3 DEF Start, ContextInv
  <2> QED
    BY <1>3, <2>1, <2>2 DEF Start
<1>4. CASE t = Main /\ Switch
  <2>1. phase = "loop"
    BY <1>4 DEF Switch, PlaceInv, Building
  <2> QED
    BY <1>4, <2>1 DEF Switch
<1>5. CASE t \in Helpers /\ Join(t)
  <2>1. pc[Main] # "return"
    BY <1>5 DEF Join, FoundInv
  <2> QED
    BY <1>5, <2>1 DEF Join
<1> QED
  BY <1>3, <1>4, <1>5 DEF ClaimStep

LEMMA ClaimKeeps ==
  ASSUME IInv, NEW t \in Threads, ClaimStep(t)
  PROVE  IInv'
<1> USE DEF IInv
<1>1. /\ UNCHANGED <<plan, req, built, out, hasError, own, pool, summary, lock, seen>>
      /\ UNCHANGED <<phase, flags, failed, elfs, faults>>
  BY ClaimMoves DEF fixed, contexts, shared
<1>2. Main \in Threads /\ Helpers \subseteq Threads /\ Main \notin Helpers
  BY ThreadsAssumption DEF Threads
<1>3. req \in DOMAIN Requests /\ N' = N /\ Tasks' = Tasks /\ R' = R /\ Tasks \in Nat
  BY <1>1, ClaimMoves, SameRequest, RequestFacts DEF PlaceInv
<1>4. t \notin own
  BY <1>2, ClaimMoves DEF ErrorInv, InTask, AtGate, Building
<1>5. PlaceInv'
  BY <1>1, <1>2, <1>3, ClaimMoves DEF PlaceInv, Claiming, InTask, AtGate, Building, Outside, Threads
<1>6. /\ pc'[Main] \notin {"idle", "read", "return"}
      /\ pc'[Main] = "fail" => pc[Main] = "fail" /\ t # Main /\ UNCHANGED <<task, next, open>>
      /\ InLoop' <=> InLoop
  <2>1. pc'[Main] \notin {"idle", "read", "return"}
    BY <1>2, ClaimMoves
  <2>2. pc'[Main] = "fail" <=> pc[Main] = "fail"
    BY <1>2, ClaimMoves
  <2>3. pc[Main] = "fail" => ~(next < Tasks)
    BY <1>3 DEF ClaimInv
  <2> QED
    BY <1>1, <1>2, <2>1, <2>2, <2>3, ClaimMoves DEF InLoop, Outside
<1>7. \A u \in Threads \ {t} : HasTask(u)' <=> HasTask(u)
  BY <1>1, ClaimMoves DEF HasTask
<1>8. HasTask(t)' => /\ next < Tasks /\ task'[t] = next /\ open' = open \cup {next}
                     /\ pc'[t] \in {"create", "notify", "task"}
  BY <1>1, ClaimMoves DEF HasTask, Claiming, InTask, AtGate, Building
<1>9. ClaimInv'
  <2>0. /\ next \in Nat /\ next' \in Nat /\ task' \in [Threads -> Nat]
        /\ \/ next < Tasks /\ next' = next + 1 /\ open' = open \cup {next}
           \/ UNCHANGED <<next, open>>
        /\ \A u \in Threads \ {t} : task'[u] = task[u]
        /\ phase = "loop" /\ pc[Main] \notin {"idle", "read", "return"}
    BY ClaimMoves DEF ClaimInv
  <2> USE <1>1, <1>2, <1>3, <1>6, <2>0 DEF ClaimInv
  <2>1. \A i \in open' : i \in Nat /\ i < next' /\ (InLoop' => i < Tasks')
    OBVIOUS
  <2>2. ~InLoop' => open' = {}
    BY DEF InLoop, Outside
  <2>3. \A u \in Threads : HasTask(u)' => task'[u] \in open'
    BY <1>7, <1>8
  <2>4. \A u, v \in Threads : HasTask(u)' /\ HasTask(v)' /\ u # v => task'[u] # task'[v]
    BY <1>7, <1>8
  <2>5. next' <= Tasks' /\ (pc'[Main] = "fail" => next' >= Tasks')
    OBVIOUS
  <2> QED
    BY <2>1, <2>2, <2>3, <2>4, <2>5
<1>10. ContextInv'
  <2> USE <1>1, <1>2, <1>3, <1>4, ClaimMoves DEF ContextInv
  <2>1. \A u \in Threads : pc'[u] \in AtGate \cup {"destroy", "clone"} => u \in own'
    BY DEF AtGate
  <2>2. ASSUME NEW h \in Helpers, pc'[h] \in InTask  PROVE h \in own' /\ unlocked'
    <3>1. h # t
      BY <2>2 DEF InTask, AtGate, Building
    <3> QED
      BY <2>2, <3>1
  <2>3. Main \in own' => phase' = "loop" /\ pc'[Main] \in InTask \cup AtGate \cup {"destroy"}
    BY DEF AtGate, InTask, Building
  <2>4. Main \notin own' /\ pc'[Main] \in InTask \cup {"switch"} /\ phase' = "loop" => ~unlocked'
    BY DEF InTask, AtGate, Building
  <2>5. pc'[Main] = "start" /\ unlocked' => R'.threads = "extra"
    OBVIOUS
  <2> QED
    BY <2>1, <2>2, <2>3, <2>4, <2>5
<1>11. ErrorInv'
  <2>1. Wrong' = Wrong
    BY <1>1 DEF Wrong
  <2> QED
    BY <1>1, <1>2, <1>4, <1>6, <2>1, ClaimMoves DEF ErrorInv
<1>12. FoundInv'
  <2> USE <1>1, <1>2, <1>3, <1>6, ClaimMoves DEF FoundInv
  <2>1. \A i : /\ ReadFails(i)' = ReadFails(i) /\ MetaFails(i)' = MetaFails(i)
               /\ CodeFails(i)' = CodeFails(i) /\ Diagnosed(i)' = Diagnosed(i)
    BY SameRequest
  <2>2. ASSUME NEW i \in 1..N
        PROVE  /\ ReadFails(i)' => "main" \in hasError'
               /\ Indirect(req)' /\ i < next' /\ i \notin open'
                    /\ (MetaFails(i)' \/ CodeFails(i)') => failed'
    <3>1. /\ next \in Nat
          /\ \/ next' = next + 1 /\ open' = open \cup {next}
             \/ UNCHANGED <<next, open>>
      BY DEF ClaimInv
    <3>2. i < next' /\ i \notin open' => i < next /\ i \notin open
      BY <3>1
    <3> QED
      BY <2>1, <3>2
  <2>3. ASSUME NEW i \in 1..N, NEW u \in Threads, HasTask(u)', task'[u] = i
        PROVE  /\ pc'[u] # "after"
               /\ CodeFails(i)' /\ pc'[u] \in Generated => ContextOf(u)' \in hasError'
               /\ MetaFails(i)' => pc'[u] \in Claiming \ (Generated \cup {"lockState", "mergeState", "generate"})
    <3>1. CASE u = t
      BY <1>8, <2>3, <3>1 DEF Claiming, InTask, Generated
    <3>2. CASE u # t
      BY <1>7, <2>1, <2>3, <3>2 DEF ContextOf
    <3> QED
      BY <3>1, <3>2
  <2> QED
    BY <2>2, <2>3
<1>13. OutInv'
  BY <1>1, ClaimMoves DEF OutInv, ResultRight
<1>14. LockInv'
  BY <1>1, ClaimMoves DEF LockInv
<1> QED
  BY <1>5, <1>9, <1>10, <1>11, <1>12, <1>13, <1>14

-----------------------------------------------------------------------------
(* The main thread outside of the loop *)

EndStep == Wait \/ TraversalBuilt \/ EntryBuilt

(* Nobody has a task of the loop: the claimed ones are complete. *)
LEMMA Quiet ==
  ASSUME IInv, open = {}
  PROVE  /\ \A h \in Helpers : pc[h] \notin Claiming
         /\ \A t \in Threads : ~HasTask(t)
<1>1. \A t \in Threads : ~HasTask(t)
  BY DEF IInv, ClaimInv
<1>2. \A h \in Helpers : h \in Threads /\ h # Main
  BY ThreadsAssumption DEF Threads
<1> QED
  BY <1>1, <1>2 DEF HasTask

(* The main thread is past the loop, in the main context, and goes through    *)
(* the traversal module and the entry, or gives up.                           *)
LEMMA EndMoves ==
  ASSUME IInv, EndStep
  PROVE  /\ UNCHANGED <<plan, req, built, out, hasError, own, pool, unlocked, joined, next, open,
                        lock, seen, flags, failed, elfs, faults>>
         /\ open = {} /\ next >= Tasks /\ Main \notin own
         /\ pc[Main] \in {"wait", "built"} /\ (pc[Main] = "wait" <=> phase = "loop")
         /\ \A h \in Helpers : pc'[h] = pc[h]
         /\ pc' \in [Threads -> Claiming \cup Outside \cup {"gone", "out", "start", "switch",
                                                           "destroy", "wait", "notifyLast"}]
         /\ task' \in [Threads -> Nat]
         /\ \/ pc'[Main] = "fail" /\ failed /\ phase' = "loop"
            \/ /\ ~failed
               /\ \/ pc'[Main] = "lower" /\ phase' = "traversal" /\ task'[Main] = Tasks
                  \/ pc'[Main] = "lower" /\ phase' = "entry" /\ task'[Main] = 0
                  \/ /\ pc'[Main] = "return" /\ phase' = "entry" /\ task'[Main] = 0
                     /\ Indirect(req) \/ (pc[Main] = "built" /\ phase = "entry")
<1> USE DEF IInv
<1>1. /\ pc \in [Threads -> Claiming \cup Outside \cup {"gone", "out", "start", "switch",
                                                        "destroy", "wait", "notifyLast"}]
      /\ task \in [Threads -> Nat]
  BY DEF PlaceInv, ClaimInv
<1>2. Main \in Threads /\ Helpers \subseteq Threads /\ Main \notin Helpers
  BY ThreadsAssumption DEF Threads
<1>3. pc[Main] \in {"wait", "built"} /\ (pc[Main] = "wait" <=> phase = "loop")
  BY DEF EndStep, Wait, TraversalBuilt, EntryBuilt, PlaceInv, Building
<1>4. req \in DOMAIN Requests /\ Tasks \in Nat
  BY <1>3, RequestFacts DEF PlaceInv
<1>5. Main \notin own
  BY <1>3 DEF ContextInv, InTask, AtGate, Building
<1> USE <1>1, <1>2, <1>3, <1>4, <1>5
        DEF Goto, Claiming, InTask, AtGate, Building, Outside, fixed, contexts, gate, claims, shared
<1>6. CASE Wait
  <2>1. R.library => Indirect(req)
    BY LibrariesAssumption DEF R, Indirect
  <2>2. phase = "loop"
    BY <1>6 DEF Wait
  <2> QED
    BY <1>6, <2>1, <2>2 DEF Wait
<1>7. CASE TraversalBuilt \/ EntryBuilt
  <2>1. phase # "loop"
    BY <1>7 DEF TraversalBuilt, EntryBuilt
  <2>2. open = {} /\ next >= Tasks /\ ~failed /\ (phase = "entry" => task[Main] = 0)
    BY <2>1 DEF ClaimInv, FoundInv, InLoop
  <2> QED
    BY <1>7, <2>1, <2>2 DEF TraversalBuilt, EntryBuilt
<1> QED
  BY <1>6, <1>7 DEF EndStep

LEMMA EndKeeps ==
  ASSUME IInv, EndStep
  PROVE  IInv'
<1> USE DEF IInv
<1>1. /\ UNCHANGED <<plan, req, built, out, hasError, own, next, open, flags, failed, faults, seen>>
      /\ open = {} /\ Main \notin own /\ pc[Main] \in {"wait", "built"}
      /\ pc'[Main] \in {"fail", "lower", "return"}
  BY EndMoves
<1>2. Main \in Threads /\ Helpers \subseteq Threads /\ Main \notin Helpers /\ Threads = {Main} \cup Helpers
  BY ThreadsAssumption DEF Threads
<1>3. req \in DOMAIN Requests /\ N' = N /\ Tasks' = Tasks /\ R' = R /\ Tasks \in Nat
  BY <1>1, SameRequest, RequestFacts DEF PlaceInv
<1>4. \A t \in Threads : ~HasTask(t)'
  <2>1. \A h \in Helpers : pc'[h] \notin Claiming
    BY <1>1, Quiet, EndMoves
  <2>2. pc'[Main] \in Claiming => phase' # "loop"
    BY EndMoves DEF Claiming, InTask, AtGate, Building
  <2> QED
    BY <1>2, <2>1, <2>2 DEF HasTask
<1>5. PlaceInv'
  BY <1>1, <1>2, <1>3, EndMoves DEF PlaceInv, Claiming, InTask, AtGate, Building, Outside
<1>6. ClaimInv'
  BY <1>1, <1>3, <1>4, EndMoves DEF ClaimInv, InLoop, Outside
<1>7. ContextInv'
  BY <1>1, <1>2, <1>3, EndMoves DEF ContextInv, InTask, AtGate, Building
<1>8. ErrorInv'
  <2>1. Wrong' = Wrong
    BY <1>1 DEF Wrong
  <2> QED
    BY <1>1, <1>2, <2>1, EndMoves DEF ErrorInv
<1>9. FoundInv'
  <2>1. \A i : /\ ReadFails(i)' = ReadFails(i) /\ MetaFails(i)' = MetaFails(i)
               /\ CodeFails(i)' = CodeFails(i) /\ Diagnosed(i)' = Diagnosed(i)
    BY <1>1, SameRequest
  <2>2. ASSUME NEW i \in 1..N
        PROVE  /\ ReadFails(i)' => "main" \in hasError'
               /\ Indirect(req)' /\ i < next' /\ i \notin open'
                    /\ (MetaFails(i)' \/ CodeFails(i)') => failed'
    BY <1>1, <2>1 DEF FoundInv
  <2>3. phase' # "loop" => ~failed' /\ next' >= Tasks'
    BY <1>1, <1>3, EndMoves
  <2>4. /\ pc'[Main] = "return" => phase' = "entry"
        /\ phase' = "traversal" => task'[Main] = Tasks'
        /\ phase' = "entry" => task'[Main] = 0
    BY <1>3, EndMoves
  <2>5. ~Indirect(req)' /\ Diagnosed(0)' /\ pc'[Main] \in Generated \cup {"return"} => "main" \in hasError'
    BY <1>1, <2>1, EndMoves DEF FoundInv, Generated
  <2> QED
    BY <1>1, <1>3, <1>4, <2>2, <2>3, <2>4, <2>5 DEF FoundInv
<1>10. OutInv'
  BY <1>1 DEF OutInv, ResultRight
<1>11. LockInv'
  <2>1. DOMAIN summary' = DOMAIN summary
    BY DEF EndStep, Wait, TraversalBuilt, EntryBuilt, shared
  <2> QED
    BY <1>1, <1>2, <2>1, Quiet, EndMoves DEF LockInv, Claiming, InTask, AtGate, Building
<1> QED
  BY <1>5, <1>6, <1>7, <1>8, <1>9, <1>10, <1>11

(* The result is right: whatever failed is known to the main context or to    *)
(* the loop, and they know of nothing else.                                   *)
LEMMA ReturnKeeps ==
  ASSUME IInv, Return
  PROVE  IInv'
<1> USE DEF IInv
<1>1. /\ UNCHANGED <<plan, req, hasError, own, task, next, open, unlocked, failed, faults, phase,
                     summary, lock, seen>>
      /\ pc[Main] \in {"return", "fail"}
  BY DEF Return, claims, gate, shared
<1>2. Main \in Threads /\ Helpers \subseteq Threads /\ Main \notin Helpers /\ Threads = {Main} \cup Helpers
  BY ThreadsAssumption DEF Threads
<1>3. req \in DOMAIN Requests /\ N' = N /\ Tasks' = Tasks /\ Tasks \in Nat
  BY <1>1, SameRequest, RequestFacts DEF PlaceInv
<1>4. pc' = [pc EXCEPT ![Main] = "idle"] /\ pc'[Main] = "idle" /\ \A h \in Helpers : pc'[h] = pc[h]
  BY <1>2 DEF Return, Goto, PlaceInv
<1>5. open = {}
  BY <1>1 DEF ClaimInv, InLoop, Outside
<1>6. PlaceInv'
  BY <1>1, <1>2, <1>4 DEF PlaceInv, Claiming, InTask, AtGate, Building, Outside
<1>7. \A t \in Threads : ~HasTask(t)'
  BY <1>1, <1>2, <1>4, <1>5, Quiet DEF HasTask, Claiming, InTask, AtGate, Building
<1>8. ClaimInv'
  BY <1>1, <1>4, <1>5, <1>7 DEF ClaimInv, InLoop, Outside
<1>9. ContextInv'
  BY <1>1, <1>2, <1>4 DEF ContextInv, InTask, AtGate, Building
<1>10. ErrorInv'
  <2>1. Wrong' = Wrong
    BY <1>1 DEF Wrong
  <2>2. Main \notin own
    BY <1>1 DEF ContextInv, InTask, AtGate, Building
  <2> QED
    BY <1>1, <1>2, <1>4, <2>1, <2>2 DEF ErrorInv
<1>11. FoundInv'
  BY <1>1, <1>3, <1>4 DEF FoundInv
<1>12. OutInv'
  <2>1. ASSUME pc[Main] = "return", "main" \notin hasError  PROVE ~Fails(req)
    <3>1. phase = "entry" /\ ~failed /\ next >= Tasks
      BY <2>1 DEF FoundInv
    <3>2. ASSUME NEW i \in 1..N  PROVE ~ReadFails(i)
      BY <2>1 DEF FoundInv
    <3>3. ASSUME NEW i \in 1..N, Indirect(req)  PROVE ~MetaFails(i) /\ ~CodeFails(i)
      <4>1. i < next
        BY <1>3, <3>1, <3>3, RequestFacts DEF ClaimInv
      <4> QED
        BY <1>5, <2>1, <3>1, <3>3, <4>1 DEF FoundInv
    <3>4. ASSUME NEW i \in 1..N, ~Indirect(req)  PROVE ~MetaFails(i) /\ ~CodeFails(i)
      <4>1. ~Diagnosed(0)
        BY <2>1, <3>1, <3>4 DEF FoundInv
      <4> QED
        BY <1>3, <3>4, <4>1, Failures DEF MetaFails
    <3> QED
      BY <1>3, <3>2, <3>3, <3>4, Failures
  <2>2. ASSUME pc[Main] = "fail" \/ "main" \in hasError  PROVE Fails(req) \/ faults > 0
    BY <1>1, <2>2 DEF ErrorInv, Wrong
  <2>3. \/ pc[Main] = "return" /\ "main" \notin hasError /\ out'.result = "Success"
        \/ (pc[Main] = "fail" \/ "main" \in hasError) /\ out'.result = "Error"
    BY <1>1 DEF Return, NoOut
  <2> QED
    BY <1>1, <1>4, <2>1, <2>2, <2>3 DEF OutInv, ResultRight
<1>13. LockInv'
  BY <1>1, <1>2, <1>4 DEF LockInv
<1> QED
  BY <1>6, <1>8, <1>9, <1>10, <1>11, <1>12, <1>13

LEMMA BeginKeeps ==
  ASSUME IInv, Begin
  PROVE  IInv'
<1> USE DEF IInv
<1>1. /\ pc[Main] = "idle" /\ req' = Head(plan) /\ plan' = Tail(plan) /\ plan # <<>>
      /\ hasError' = hasError \ {"main"} /\ phase' = "loop" /\ out' = NoOut
      /\ UNCHANGED <<own, next, open, unlocked, failed, lock, seen, faults>>
  BY DEF Begin, gate
<1>2. Main \in Threads /\ Helpers \subseteq Threads /\ Main \notin Helpers /\ Threads = {Main} \cup Helpers
  BY ThreadsAssumption DEF Threads
<1>3. req' \in DOMAIN Requests /\ plan' \in Seq(DOMAIN Requests)
  BY <1>1 DEF PlaceInv
<1>4. pc' = [pc EXCEPT ![Main] = "read"] /\ pc'[Main] = "read" /\ \A h \in Helpers : pc'[h] = pc[h]
  BY <1>2 DEF Begin, Goto, PlaceInv
<1>5. task' \in [Threads -> Nat] /\ task'[Main] = 1
  BY <1>2 DEF Begin, ClaimInv
<1>6. open = {} /\ Main \notin own
  BY <1>1 DEF ClaimInv, ContextInv, InLoop, Outside, InTask, AtGate, Building
<1>7. \A h \in Helpers : pc[h] \notin Claiming
  BY <1>6, Quiet
<1>8. PlaceInv'
  BY <1>1, <1>2, <1>3, <1>4 DEF PlaceInv, Outside
<1>9. ClaimInv'
  BY <1>1, <1>2, <1>4, <1>5, <1>6, <1>7
     DEF ClaimInv, InLoop, HasTask, Outside, Claiming, InTask, AtGate, Building
<1>10. ContextInv'
  BY <1>1, <1>2, <1>4, <1>6, <1>7 DEF ContextInv, Claiming, InTask, AtGate, Building
<1>11. ErrorInv'
  <2>1. ASSUME NEW t \in Threads, t \in hasError'  PROVE t \in own' /\ pc'[t] = "destroy"
    BY <1>1, <1>2, <1>4, <1>6, <1>7, <2>1 DEF ErrorInv, Claiming
  <2>2. \A t \in Threads : pc'[t] # "error"
    BY <1>2, <1>4, <1>7 DEF Claiming, InTask, AtGate, Building
  <2>3. \A t \in Threads : t \in own' => pc'[t] \in InTask \cup AtGate \cup {"destroy"}
    BY <1>1, <1>2, <1>4, <1>6 DEF ErrorInv
  <2> QED
    BY <1>1, <1>4, <2>1, <2>2, <2>3 DEF ErrorInv
<1>12. FoundInv'
  <2>1. N' \in Nat
    <3>1. Requests[req'].shaders \in Seq(DOMAIN Shader)
      BY <1>3, RequestsAssumption
    <3> QED
      BY <3>1 DEF N, R
  <2>2. \A t \in Threads : ~HasTask(t)'
    BY <1>2, <1>4, <1>7 DEF HasTask, Claiming, InTask, AtGate, Building
  <2> QED
    BY <1>1, <1>4, <1>5, <2>1, <2>2 DEF FoundInv
<1>13. OutInv'
  BY <1>1 DEF OutInv, ResultRight, NoOut
<1>14. LockInv'
  <2>1. DOMAIN summary' = Fields
    BY DEF Begin, NoSummary, Fields
  <2> QED
    BY <1>1, <1>2, <1>4, <1>7, <2>1 DEF LockInv, Claiming, InTask, AtGate, Building
<1> QED
  BY <1>8, <1>9, <1>10, <1>11, <1>12, <1>13, <1>14

LEMMA ReadKeeps ==
  ASSUME IInv, Read
  PROVE  IInv'
<1> USE DEF IInv
<1>1. /\ pc[Main] = "read" /\ task[Main] <= N
      /\ hasError' = hasError \cup (IF ReadFails(task[Main]) THEN {"main"} ELSE {})
      /\ UNCHANGED <<plan, req, out, summary, lock, seen, pc, own, next, open, unlocked, failed,
                     faults, phase>>
  BY DEF Read, ReadFails, fixed, gate, shared
<1>2. Main \in Threads /\ Helpers \subseteq Threads /\ Main \notin Helpers /\ Threads = {Main} \cup Helpers
  BY ThreadsAssumption DEF Threads
<1>3. req \in DOMAIN Requests /\ N' = N /\ N \in Nat /\ Tasks' = Tasks /\ R' = R
  BY <1>1, SameRequest, RequestFacts DEF PlaceInv
<1>4. /\ task[Main] \in 1..N /\ task'[Main] = task[Main] + 1 /\ task' \in [Threads -> Nat]
      /\ \A h \in Helpers : task'[h] = task[h]
  BY <1>1, <1>2, <1>3 DEF Read, ClaimInv, FoundInv
<1>5. open = {} /\ Main \notin own /\ phase = "loop"
  BY <1>1 DEF ClaimInv, ContextInv, PlaceInv, InLoop, Outside, InTask, AtGate, Building
<1>6. \A t \in Threads : ~HasTask(t)'
  BY <1>1, <1>2, <1>5, Quiet DEF HasTask
<1>7. PlaceInv'
  BY <1>1 DEF PlaceInv
<1>8. ClaimInv'
  BY <1>1, <1>3, <1>4, <1>5, <1>6 DEF ClaimInv, InLoop, Outside
<1>9. ContextInv'
  BY <1>1, <1>3 DEF ContextInv
<1>10. ErrorInv'
  <2>1. Wrong' = Wrong /\ (ReadFails(task[Main]) => Wrong)
    BY <1>1, <1>3, <1>4, Failures DEF Wrong
  <2>2. \A t \in Threads : t # "main"
    BY ThreadsAssumption
  <2> QED
    BY <1>1, <2>1, <2>2 DEF ErrorInv
<1>11. FoundInv'
  <2>1. ASSUME NEW i \in 1..N, ReadFails(i)', i < task'[Main]  PROVE "main" \in hasError'
    <3>1. ReadFails(i) /\ (i < task[Main] \/ i = task[Main])
      BY <1>1, <1>3, <1>4, <2>1, SameRequest
    <3> QED
      BY <1>1, <3>1 DEF FoundInv
  <2> QED
    BY <1>1, <1>3, <1>4, <1>5, <1>6, <2>1 DEF FoundInv
<1>12. OutInv'
  BY <1>1 DEF OutInv, ResultRight
<1>13. LockInv'
  BY <1>1 DEF LockInv
<1> QED
  BY <1>7, <1>8, <1>9, <1>10, <1>11, <1>12, <1>13

(* The loop starts: nobody has a task, and the helpers wait at the gate       *)
(* unless the main thread is to create a context, too.                        *)
LEMMA LowerKeeps ==
  ASSUME IInv, Lower
  PROVE  IInv'
<1> USE DEF IInv
<1>1. /\ pc[Main] = "read" /\ task[Main] > N /\ next' = 0 /\ open' = {}
      /\ (unlocked' <=> R.threads = "extra") /\ failed' = FALSE
      /\ UNCHANGED <<plan, req, out, hasError, own, task, lock, seen, faults, phase>>
  BY DEF Lower, fixed, contexts
<1>2. Main \in Threads /\ Helpers \subseteq Threads /\ Main \notin Helpers /\ Threads = {Main} \cup Helpers
  BY ThreadsAssumption DEF Threads
<1>3. /\ req \in DOMAIN Requests /\ N' = N /\ N \in Nat /\ Tasks' = Tasks /\ R' = R
      /\ Tasks \in Nat \ {0}
  BY <1>1, SameRequest, RequestFacts DEF PlaceInv
<1>4. open = {} /\ Main \notin own /\ phase = "loop" /\ \A h \in Helpers : pc[h] \notin Claiming
  BY <1>1, Quiet DEF ClaimInv, ContextInv, PlaceInv, InLoop, Outside, InTask, AtGate, Building
<1>5. /\ pc'[Main] = "start"
      /\ \A h \in Helpers : pc'[h] \in {"gone", "out", "destroy"} /\ (pc'[h] = "destroy" <=> pc[h] = "destroy")
      /\ pc' = [t \in Threads |-> pc'[t]]
  <2>1. /\ pc' = [t \in Threads |-> pc'[t]] /\ pc'[Main] = "start"
        /\ \A h \in Helpers : pc'[h] = IF pc[h] \notin {"gone", "out"} THEN pc[h]
                                       ELSE IF R.threads = "none" THEN "gone" ELSE "out"
    BY <1>2 DEF Lower
  <2>2. \A h \in Helpers : pc[h] \in {"gone", "out", "destroy"}
    BY <1>2, <1>4 DEF PlaceInv
  <2> QED
    BY <2>1, <2>2
<1>6. \A t \in Threads : ~HasTask(t)'
  BY <1>2, <1>5 DEF HasTask, Claiming, InTask, AtGate, Building
<1>7. PlaceInv'
  BY <1>1, <1>2, <1>3, <1>4, <1>5 DEF PlaceInv, Claiming, InTask, AtGate, Building, Outside
<1>8. ClaimInv'
  BY <1>1, <1>3, <1>5, <1>6 DEF ClaimInv
<1>9. ContextInv'
  BY <1>1, <1>2, <1>3, <1>4, <1>5 DEF ContextInv, InTask, AtGate, Building
<1>10. ErrorInv'
  <2>1. Wrong' = Wrong
    BY <1>1 DEF Wrong
  <2> QED
    BY <1>1, <1>2, <1>4, <1>5, <2>1 DEF ErrorInv, Claiming
<1>11. FoundInv'
  <2>1. ASSUME NEW i \in 1..N, ReadFails(i)'  PROVE "main" \in hasError'
    <3>1. ReadFails(i) /\ i < task[Main]
      BY <1>1, <1>2, <1>3, <2>1, SameRequest DEF ClaimInv
    <3> QED
      BY <1>1, <3>1 DEF FoundInv
  <2> QED
    BY <1>1, <1>3, <1>4, <1>5, <1>6, <2>1 DEF FoundInv
<1>12. OutInv'
  BY <1>1 DEF OutInv, ResultRight
<1>13. LockInv'
  <2>1. DOMAIN summary' = DOMAIN summary
    BY DEF Lower
  <2> QED
    BY <1>1, <1>2, <1>5, <2>1 DEF LockInv
<1> QED
  BY <1>7, <1>8, <1>9, <1>10, <1>11, <1>12, <1>13

-----------------------------------------------------------------------------
(* The theorems *)

LEMMA InvInit == Init => IInv
<1> SUFFICES ASSUME Init PROVE IInv
  OBVIOUS
<1>1. Main \in Threads /\ Helpers \subseteq Threads /\ Main \notin Helpers /\ Threads = {Main} \cup Helpers
  BY ThreadsAssumption DEF Threads
<1>2. \A t \in Threads : ~HasTask(t)
  BY <1>1 DEF Init, HasTask, Claiming, InTask, AtGate, Building
<1>3. PlaceInv
  BY <1>1, RequestsAssumption DEF Init, PlaceInv, Claiming, InTask, AtGate, Building, Outside
<1>4. ClaimInv
  BY <1>1, <1>2 DEF Init, ClaimInv
<1>5. ContextInv /\ ErrorInv /\ FoundInv
  BY <1>1 DEF Init, ContextInv, ErrorInv, FoundInv, InTask, AtGate, Building
<1>6. OutInv /\ LockInv
  BY <1>1 DEF Init, OutInv, ResultRight, NoOut, LockInv, NoSummary, Fields
<1> QED
  BY <1>3, <1>4, <1>5, <1>6 DEF IInv

LEMMA InvNext == IInv /\ [Next]_vars => IInv'
<1> SUFFICES ASSUME IInv, [Next]_vars PROVE IInv'
  OBVIOUS
<1>1. Main \in Threads /\ Helpers \subseteq Threads
  BY DEF Threads
<1>2. ASSUME NEW t \in Threads, Step(t)  PROVE IInv'
  BY <1>2, TaskKeeps, FinishKeeps, DestroyKeeps DEF Step, TaskStep
<1>3. ASSUME MainStep  PROVE IInv'
  BY <1>1, <1>2, <1>3, ReadKeeps, LowerKeeps, ClaimKeeps, WakeKeeps, EndKeeps, ReturnKeeps
     DEF MainStep, ClaimStep, WakeStep, EndStep
<1>4. ASSUME NEW t \in Helpers, HelperStep(t)  PROVE IInv'
  BY <1>1, <1>2, <1>4, ClaimKeeps DEF HelperStep, ClaimStep
<1>5. CASE UNCHANGED vars
  <2>1. UNCHANGED <<plan, req, phase, hasError, pc, task, own, next, open, unlocked, failed, lock,
                    seen, summary, out, faults>>
    BY <1>5 DEF vars, fixed, contexts, claims, gate, shared
  <2>2. /\ N' = N /\ Tasks' = Tasks /\ R' = R /\ Wrong' = Wrong /\ InLoop' = InLoop
        /\ \A t : HasTask(t)' = HasTask(t) /\ ContextOf(t)' = ContextOf(t)
    BY <2>1, SameRequest DEF Wrong, InLoop, HasTask, ContextOf
  <2> QED
    BY <2>1, <2>2, SameRequest
       DEF IInv, PlaceInv, ClaimInv, ContextInv, ErrorInv, FoundInv, OutInv, ResultRight, LockInv
<1> QED
  BY <1>3, <1>4, <1>5, BeginKeeps, WakeKeeps DEF Next, WakeStep

(* The inductive invariant holds throughout any build: where each thread is,  *)
(* which tasks are claimed, which contexts exist, who holds which lock, and   *)
(* what the shared error, ELFs and result say of the tasks completed.         *)
THEOREM RayTracingInductive == Spec => []IInv
  BY InvInit, InvNext, PTL DEF Spec

(* No helper clones a module out of the main context while the main thread    *)
(* compiles in that context, however many threads help and whenever they      *)
(* join: the main thread unlocks them when it is done with it.                *)
THEOREM MainContextKept == Spec => []MainContextExclusive
<1>1. IInv => MainContextExclusive
  <2> SUFFICES ASSUME IInv, NEW h \in Threads, pc[h] = "clone", Main \notin own
               PROVE  pc[Main] \notin {"read", "lower", "lockState", "mergeState", "generate",
                                       "lockVgprs", "mergeVgprs", "return", "fail"}
    BY DEF MainContextExclusive
  <2> USE DEF IInv
  <2>1. h \in own /\ h # Main /\ h \in Helpers
    BY DEF ContextInv, Threads
  <2>2. unlocked /\ HasTask(h)
    BY <2>1 DEF ContextInv, HasTask, Claiming, InTask
  <2>3. InLoop
    BY <2>2 DEF ClaimInv
  <2> QED
    BY <2>2, <2>3 DEF InLoop, Outside, ContextInv, InTask, AtGate, Building
<1> QED
  BY <1>1, RayTracingInductive, PTL

(* A build succeeds exactly when no shader fails and all bitcode loads,       *)
(* whichever thread and context met the error and however the tasks were      *)
(* distributed over the threads.                                              *)
THEOREM ResultKept == Spec => []ResultRight
<1>1. IInv => ResultRight
  BY DEF IInv, OutInv
<1> QED
  BY <1>1, RayTracingInductive, PTL

(* Merges lose nothing: while a request is built, a step that changes the     *)
(* summary's state adds to it, and one that changes its VGPRs merges into     *)
(* what all threads have merged before.                                       *)
MergesIntoCurrent ==
  pc[Main] # "idle" =>
    /\ summary.state \subseteq summary'.state
    /\ \/ summary'.vgprs = summary.vgprs
       \/ \E t \in Threads : summary'.vgprs = Max2(summary.vgprs, VgprsOf(ModuleAt(task[t])))

LEMMA StepMerges ==
  ASSUME IInv, NEW t \in Threads, Step(t)
  PROVE  MergesIntoCurrent
<1> USE DEF shared
<1>1. CASE UNCHANGED summary
  BY <1>1 DEF MergesIntoCurrent
<1>2. CASE MergeState(t)
  BY <1>2 DEF MergeState, MergesIntoCurrent, IInv, LockInv
<1>3. CASE MergeVgprs(t)
  BY <1>3 DEF MergeVgprs, MergesIntoCurrent, IInv, LockInv
<1>4. \/ UNCHANGED summary \/ MergeState(t) \/ MergeVgprs(t)
  BY DEF Step, Create, Gate, GateSleep, StartTask, Clone, LowerRayTracing, Lock, Generate, FinishTask, Destroy
<1> QED
  BY <1>1, <1>2, <1>3, <1>4

(* Every step of every build respects MergesIntoCurrent: the two locked       *)
(* sections of the task function (llpcCompiler.cpp:3009, 3503) never write    *)
(* back a summary read before another thread's merge.                         *)
THEOREM MergesKept == Spec => [][MergesIntoCurrent]_vars
<1>1. IInv /\ [Next]_vars => [MergesIntoCurrent]_vars
  <2> SUFFICES ASSUME IInv, Next PROVE MergesIntoCurrent
    OBVIOUS
  <2>1. Main \in Threads /\ Helpers \subseteq Threads
    BY DEF Threads
  <2>2. CASE UNCHANGED summary
    BY <2>2 DEF MergesIntoCurrent
  <2>3. CASE Lower \/ EntryBuilt
    BY <2>3 DEF Lower, EntryBuilt, MergesIntoCurrent, IInv, LockInv, Fields
  <2>4. CASE Begin
    BY <2>4 DEF Begin, MergesIntoCurrent
  <2>5. \/ UNCHANGED summary \/ Lower \/ EntryBuilt \/ Begin \/ \E t \in Threads : Step(t)
    BY <2>1 DEF Next, MainStep, HelperStep, Read, Start, Switch, Notify, SpuriousWakeup, Wait, TraversalBuilt, Return, Join,
                shared
  <2> QED
    BY <2>2, <2>3, <2>4, <2>5, StepMerges
<1> QED
  BY <1>1, RayTracingInductive, PTL DEF Spec
-----------------------------------------------------------------------------
(* The summaries of the libraries *)

LEMMA Least ==
  ASSUME NEW T \in SUBSET Nat, T # {}
  PROVE  \E x \in T : \A y \in T : x <= y
<1> DEFINE Q == {ss \in Nat \X Nat : ss[1] < ss[2]}
<1>1. IsWellFoundedOn(Q, Nat)
  BY NatLessThanWellFounded DEF OpToRel
<1> HIDE DEF Q
<1>2. PICK x \in T : \A y \in T : ~ (<<y, x>> \in Q)
  BY <1>1, WFMin
<1>3. \A y \in T : ~(y < x)
  BY <1>2 DEF Q
<1> QED
  BY <1>3

(* Induction over the subsets of a finite set: a family that has a subset     *)
(* whenever it has it without any one element has them all.                   *)
LEMMA SubsetInduction ==
  ASSUME NEW S, IsFiniteSet(S), NEW G,
         \A s \in SUBSET S : (\A x \in s : s \ {x} \in G) => s \in G
  PROVE  SUBSET S \subseteq G
<1> SUFFICES ASSUME NEW s0 \in SUBSET S, s0 \notin G  PROVE FALSE
  OBVIOUS
<1> DEFINE T == {n \in Nat : \E s \in SUBSET S : s \notin G /\ Cardinality(s) = n}
<1>1. \A s \in SUBSET S : IsFiniteSet(s) /\ Cardinality(s) \in Nat
  BY FS_Subset, FS_CardinalityType
<1>2. T # {} /\ T \in SUBSET Nat
  BY <1>1
<1> HIDE DEF T
<1>3. PICK n \in T : \A y \in T : n <= y
  BY <1>2, Least
<1>4. PICK s \in SUBSET S : s \notin G /\ Cardinality(s) = n
  BY <1>3 DEF T
<1>5. PICK x \in s : s \ {x} \notin G
  BY <1>4
<1>6. s \ {x} \in SUBSET S /\ Cardinality(s \ {x}) = Cardinality(s) - 1
  BY <1>1, <1>4, <1>5, FS_RemoveElement
<1>7. Cardinality(s \ {x}) \in T
  BY <1>1, <1>5, <1>6 DEF T
<1> QED
  BY <1>1, <1>3, <1>4, <1>6, <1>7

(* The largest element, and that there is one. *)
IsMax(v, S) == v \in S /\ \A y \in S : v >= y

LEMMA MaxIs ==
  ASSUME NEW S \in SUBSET Nat, NEW v, IsMax(v, S)
  PROVE  Max(S) = v
<1>1. \A w \in S : (\A y \in S : w >= y) => w = v
  BY DEF IsMax
<1> QED
  BY <1>1 DEF Max, IsMax

LEMMA SomeMax ==
  ASSUME NEW S, IsFiniteSet(S), NEW f, \A x \in S : f[x] \in Nat
  PROVE  \A s \in SUBSET S : \E v \in Nat : IsMax(v, {0} \cup {f[x] : x \in s})
<1> DEFINE G == {s \in SUBSET S : \E v \in Nat : IsMax(v, {0} \cup {f[x] : x \in s})}
<1>1. {} \in G
  BY DEF IsMax
<1>2. ASSUME NEW s \in SUBSET S, NEW x \in s, s \ {x} \in G  PROVE s \in G
  <2>1. PICK v \in Nat : IsMax(v, {0} \cup {f[y] : y \in s \ {x}})
    BY <1>2
  <2>2. IsMax(Max2(v, f[x]), {0} \cup {f[y] : y \in s}) /\ Max2(v, f[x]) \in Nat
    BY <2>1 DEF IsMax, Max2
  <2> QED
    BY <2>2
<1> HIDE DEF G
<1>3. \A s \in SUBSET S : (\A x \in s : s \ {x} \in G) => s \in G
  BY <1>1, <1>2
<1>4. SUBSET S \subseteq G
  BY <1>3, SubsetInduction
<1> QED
  BY <1>4 DEF G
IsSummary(s) ==
  DOMAIN s = Fields /\ s.traces \in BOOLEAN /\ s.vgprs \in Nat
  /\ s.set \subseteq FlagBits /\ s.unset \subseteq FlagBits

(* The summaries of a set of libraries, all at once. *)
Together(L) ==
  [traces |-> \E l \in L : built[l].traces,
   set |-> {b \in FlagBits : \A l \in L : built[l].traces => b \in built[l].set},
   unset |-> {b \in FlagBits : \A l \in L : built[l].traces => b \in built[l].unset},
   vgprs |-> CHOOSE v \in Nat : IsMax(v, {0} \cup {built[l].vgprs : l \in L}),
   state |-> UNION {built[l].state : l \in L},
   kernelEntry |-> FALSE, traceModule |-> FALSE]

LEMMA TogetherVgprs ==
  ASSUME NEW L, IsFiniteSet(L), \A l \in L : IsSummary(built[l]), NEW s \in SUBSET L
  PROVE  Together(s).vgprs \in Nat /\ IsMax(Together(s).vgprs, {0} \cup {built[l].vgprs : l \in s})
<1> DEFINE f == [l \in L |-> built[l].vgprs]
<1>1. \A l \in L : f[l] \in Nat
  BY DEF IsSummary
<1>2. \E v \in Nat : IsMax(v, {0} \cup {f[l] : l \in s})
  BY <1>1, SomeMax, ZenonT(60)
<1>3. {f[l] : l \in s} = {built[l].vgprs : l \in s}
  OBVIOUS
<1>4. \E v \in Nat : IsMax(v, {0} \cup {built[l].vgprs : l \in s})
  BY <1>2, <1>3
<1>5. Together(s).vgprs = CHOOSE v \in Nat : IsMax(v, {0} \cup {built[l].vgprs : l \in s})
  BY DEF Together
<1> QED
  BY <1>4, <1>5

(* One more library. *)
LEMMA TogetherMerged ==
  ASSUME NEW L, IsFiniteSet(L), \A l \in L : IsSummary(built[l]), NEW s \in SUBSET L, NEW x \in s
  PROVE  Together(s) = Merged(Together(s \ {x}), built[x])
<1> DEFINE old == Together(s \ {x})
           new == Merged(old, built[x])
<1>1. IsSummary(built[x]) /\ s \ {x} \in SUBSET L /\ s = (s \ {x}) \cup {x}
  OBVIOUS
<1>2. /\ old.vgprs \in Nat /\ IsMax(old.vgprs, {0} \cup {built[l].vgprs : l \in s \ {x}})
      /\ Together(s).vgprs \in Nat /\ IsMax(Together(s).vgprs, {0} \cup {built[l].vgprs : l \in s})
  BY <1>1, TogetherVgprs
<1>3. DOMAIN old = Fields /\ DOMAIN Together(s) = Fields
  BY DEF Together, Fields
<1>4. /\ old.traces = (\E l \in s \ {x} : built[l].traces)
      /\ old.set = {b \in FlagBits : \A l \in s \ {x} : built[l].traces => b \in built[l].set}
      /\ old.unset = {b \in FlagBits : \A l \in s \ {x} : built[l].traces => b \in built[l].unset}
      /\ old.state = UNION {built[l].state : l \in s \ {x}}
      /\ Together(s).traces = (\E l \in s : built[l].traces)
      /\ Together(s).set = {b \in FlagBits : \A l \in s : built[l].traces => b \in built[l].set}
      /\ Together(s).unset = {b \in FlagBits : \A l \in s : built[l].traces => b \in built[l].unset}
      /\ Together(s).state = UNION {built[l].state : l \in s}
      /\ Together(s).kernelEntry = FALSE /\ Together(s).traceModule = FALSE
  BY DEF Together
<1> HIDE DEF old
<1>5. /\ DOMAIN new = Fields
      /\ new.traces = (old.traces \/ built[x].traces)
      /\ new.set = (IF built[x].traces THEN old.set \cap built[x].set ELSE old.set)
      /\ new.unset = (IF built[x].traces THEN old.unset \cap built[x].unset ELSE old.unset)
      /\ new.vgprs = Max2(old.vgprs, built[x].vgprs)
      /\ new.state = old.state \cup built[x].state
      /\ new.kernelEntry = FALSE /\ new.traceModule = FALSE
  BY <1>3 DEF Merged, Fields
<1> HIDE DEF new
<1>6. Together(s).vgprs = new.vgprs
  <2>1. IsMax(Max2(old.vgprs, built[x].vgprs), {0} \cup {built[l].vgprs : l \in s})
    BY <1>1, <1>2 DEF IsMax, Max2, IsSummary
  <2>2. Max2(old.vgprs, built[x].vgprs) \in Nat
    BY <1>1, <1>2 DEF Max2, IsSummary
  <2> QED
    BY <1>2, <1>5, <2>1, <2>2 DEF IsMax
<1>7. Together(s).traces = new.traces
  BY <1>1, <1>4, <1>5
<1>8. Together(s).set = new.set
  BY <1>1, <1>4, <1>5
<1>9. Together(s).unset = new.unset
  BY <1>1, <1>4, <1>5
<1>10. Together(s).state = new.state
  BY <1>1, <1>4, <1>5
<1>11. /\ new = [f \in Fields |-> new[f]]
       /\ Together(s) = [f \in Fields |-> Together(s)[f]]
  <2>1. new = [f \in DOMAIN new |-> new[f]]
    BY DEF new, Merged
  <2>2. Together(s) = [f \in DOMAIN Together(s) |-> Together(s)[f]]
    <3>1. PICK a, b, c, d, e :
            Together(s) = [traces |-> a, set |-> b, unset |-> c, vgprs |-> d, state |-> e,
                           kernelEntry |-> FALSE, traceModule |-> FALSE]
      BY Zenon DEF Together
    <3> QED
      BY <3>1
  <2> QED
    BY <1>3, <1>5, <2>1, <2>2
<1>12. \A f \in Fields : Together(s)[f] = new[f]
  BY <1>4, <1>5, <1>6, <1>7, <1>8, <1>9, <1>10 DEF Fields
<1>13. Together(s) = new
  BY <1>11, <1>12
<1> QED
  BY <1>13 DEF old, new

LEMMA TogetherNone == Together({}) = NoSummary
<1>1. Together({}).vgprs = 0
  <2>1. {0} \cup {built[l].vgprs : l \in {}} = {0}
    OBVIOUS
  <2>2. Together({}).vgprs = CHOOSE v \in Nat : IsMax(v, {0})
    BY <2>1 DEF Together
  <2>3. \A v \in Nat : IsMax(v, {0}) <=> v = 0
    BY DEF IsMax
  <2> QED
    BY <2>2, <2>3
<1>2. /\ (\E l \in {} : built[l].traces) = FALSE
      /\ {b \in FlagBits : \A l \in {} : built[l].traces => b \in built[l].set} = FlagBits
      /\ {b \in FlagBits : \A l \in {} : built[l].traces => b \in built[l].unset} = FlagBits
      /\ UNION {built[l].state : l \in {}} = {}
  OBVIOUS
<1> QED
  BY <1>1, <1>2 DEF Together, NoSummary

(* Merging them one after the other comes to the same. *)
LEMMA LibrarySummaryIs ==
  ASSUME NEW r, IsFiniteSet(Requests[r].libs), \A l \in Requests[r].libs : IsSummary(built[l])
  PROVE  LibrarySummary(r) = Together(Requests[r].libs)
<1> DEFINE L == Requests[r].libs
           Some(s) == CHOOSE x \in s : TRUE
           Ok(f) == f = [s \in SUBSET L |-> IF s = {} THEN NoSummary
                                            ELSE Merged(f[s \ {Some(s)}], built[Some(s)])]
           F == CHOOSE f : Ok(f)
           G == [s \in SUBSET L |-> Together(s)]
<1>1. LibrarySummary(r) = F[L]
  BY DEF LibrarySummary, FoldSet, MapThenFoldSet
<1>2. \A s \in SUBSET L : s # {} => Some(s) \in s
  OBVIOUS
<1> HIDE DEF Some
<1>3. ASSUME NEW s \in SUBSET L, s # {}  PROVE Together(s) = Merged(Together(s \ {Some(s)}), built[Some(s)])
  BY <1>2, <1>3, TogetherMerged
<1>4. Ok(G)
  <2>1. ASSUME NEW s \in SUBSET L
        PROVE  G[s] = IF s = {} THEN NoSummary ELSE Merged(G[s \ {Some(s)}], built[Some(s)])
    <3>1. CASE s = {}
      BY <3>1, TogetherNone
    <3>2. CASE s # {}
      <4>1. G[s] = Together(s) /\ G[s \ {Some(s)}] = Together(s \ {Some(s)})
        OBVIOUS
      <4> QED
        BY <1>3, <3>2, <4>1
    <3> QED
      BY <3>1, <3>2
  <2> QED
    BY <2>1
<1>5. Ok(F)
  <2> HIDE DEF G, Ok
  <2> QED
    BY <1>4
<1> HIDE DEF F
<1> DEFINE H == {s \in SUBSET L : F[s] = Together(s)}
<1>6. {} \in H
  BY <1>5, TogetherNone
<1>7. \A s \in SUBSET L : s # {} /\ s \ {Some(s)} \in H => s \in H
  BY <1>3, <1>5
<1>8. SUBSET L \subseteq H
  <2> HIDE DEF H
  <2>1. \A s \in SUBSET L : (\A x \in s : s \ {x} \in H) => s \in H
    BY <1>2, <1>6, <1>7
  <2> QED
    BY <2>1, SubsetInduction, ZenonT(60)
<1> QED
  BY <1>1, <1>8

-----------------------------------------------------------------------------
(* What a request reaches *)

LEMMA AllShadersOf ==
  ASSUME NEW r \in DOMAIN Requests
  PROVE  AllShaders(r) = ShadersOf(r) \cup UNION {AllShaders(l) : l \in Requests[r].libs}
<1> DEFINE Closed(S) == \A x \in S : Requests[x].libs \subseteq S
           D == DOMAIN Requests
           U == {r} \cup UNION {LibsOf[l] : l \in Requests[r].libs}
<1>1. Requests[r].libs \subseteq D
  BY LinkingAssumption
<1>2. \A q \in D : LibsOf[q] = {l \in D : \A S \in SUBSET D : q \in S /\ Closed(S) => l \in S}
  BY DEF LibsOf
<1>3. ASSUME NEW q \in D  PROVE Closed(LibsOf[q]) /\ q \in LibsOf[q] /\ LibsOf[q] \subseteq D
  BY <1>2, LinkingAssumption
<1>4. U \in SUBSET D /\ r \in U /\ Closed(U)
  BY <1>1, <1>3
<1>5. LibsOf[r] \subseteq U
  <2> HIDE DEF U, Closed
  <2> QED
    BY <1>2, <1>4
<1>6. U \subseteq LibsOf[r]
  <2> SUFFICES ASSUME NEW S \in SUBSET D, r \in S, Closed(S)  PROVE U \subseteq S
    BY <1>2, <1>4
  <2>1. \A l \in Requests[r].libs : LibsOf[l] \subseteq S
    BY <1>1, <1>2
  <2> QED
    BY <2>1
<1>7. LibsOf[r] = U
  BY <1>5, <1>6
<1> QED
  BY <1>7 DEF AllShaders

-----------------------------------------------------------------------------
(* The invariant of the summary and of the ELFs *)

(* What TraceRay calls in a set of shaders have in common. *)
Trace(X) == \E x \in X : Shader[x].traces
SetIn(X) == {b \in FlagBits : \A x \in X : Shader[x].traces => b \in Shader[x].set}
UnsetIn(X) == {b \in FlagBits : \A x \in X : Shader[x].traces => b \in Shader[x].unset}
VgprsIn(X) == {0} \cup {Shader[x].vgprs : x \in X}

LibShaders(r) == UNION {AllShaders(l) : l \in Requests[r].libs}

(* A build that succeeded left a summary of all its shaders. *)
BuiltInv ==
  \A l \in DOMAIN built :
    /\ l \in DOMAIN Requests /\ IsSummary(built[l])
    /\ built[l].traces <=> Trace(AllShaders(l))
    /\ built[l].traces => built[l].set = SetIn(AllShaders(l)) /\ built[l].unset = UnsetIn(AllShaders(l))
    /\ Cps(l) => AllShaders(l) \subseteq built[l].state
    /\ Requests[l].library /\ Dvgpr(l) => IsMax(built[l].vgprs, VgprsIn(AllShaders(l)))

(* The ray flags known in the libraries and in the shaders read so far. *)
ReadSoFar ==
  LibShaders(req) \cup {R.shaders[i] : i \in {j \in 1..N : pc[Main] = "read" => j < task[Main]}}

FlagsOf(X) == IF Trace(X) THEN [known |-> TRUE, set |-> SetIn(X), unset |-> UnsetIn(X)] ELSE NoFlags

FlagInv ==
  pc[Main] # "idle" =>
    /\ summary.traces = Trace(AllShaders(req))
    /\ summary.set = SetIn(LibShaders(req)) /\ summary.unset = UnsetIn(LibShaders(req))
    /\ flags = FlagsOf(ReadSoFar)

(* What is merged so far: the libraries to begin with, nothing but shaders,   *)
(* and the traversal module if there is one.                                  *)
VgprsOfAll == VgprsIn(AllShaders(req)) \cup (IF summary.traceModule THEN {1} ELSE {})

Top == Tasks - 1 + (IF summary.traceModule THEN 1 ELSE 0)

MergeInv ==
  pc[Main] # "idle" =>
    /\ summary.vgprs \in Nat
    /\ Cps(req) => LibShaders(req) \subseteq summary.state
    /\ Dvgpr(req) => /\ summary.vgprs \in VgprsOfAll
                     /\ \A x \in LibShaders(req) : summary.vgprs >= Shader[x].vgprs
    /\ summary.traceModule = (pc[Main] # "read" /\ Indirect(req) /\ NeedTraversal(summary))
    /\ pc[Main] # "read" => elfs = [i \in 0..Top |-> elfs[i]]

(* A shader whose task is complete is merged and has its ELF. *)
HasState(i) == Cps(req) => R.shaders[i] \in summary.state
HasVgprs(i) == Dvgpr(req) => summary.vgprs >= Shader[R.shaders[i]].vgprs
HasElf(i) == elfs[i] = <<R.shaders[i]>>

ElfInv ==
  pc[Main] \notin {"idle", "read"} /\ Indirect(req) =>
    \A i \in 1..N :
      /\ i < next /\ i \notin open /\ ~failed => HasState(i) /\ HasVgprs(i) /\ HasElf(i)
      /\ \A t \in Threads : HasTask(t) /\ task[t] = i =>
           /\ pc[t] \in Generated \cup {"generate"} => HasState(i)
           /\ pc[t] \in Generated => HasElf(i)
           /\ pc[t] = "built" => HasVgprs(i)

(* The traversal module and the entry, which come last, have the rest. *)
TraversalRight ==
  /\ elfs[Tasks] # <<>> /\ elfs[Tasks][1] = "traversal"
  /\ Cps(req) => AllShaders(req) \subseteq elfs[Tasks][2]
  /\ elfs[Tasks][3] = FlagsOf(AllShaders(req)).set
  /\ elfs[Tasks][4] = FlagsOf(AllShaders(req)).unset

EntryRight == elfs[0][1] = "entry" /\ (Dvgpr(req) => IsMax(elfs[0][3], VgprsOfAll))

LastInv ==
  pc[Main] # "idle" =>
    /\ phase = "traversal" => summary.traceModule
    /\ (phase = "traversal" /\ pc[Main] \in Generated) \/ (phase = "entry" /\ summary.traceModule) =>
         TraversalRight
    /\ (phase = "traversal" /\ pc[Main] = "built") \/ (phase = "entry" /\ summary.traceModule) =>
         (Dvgpr(req) => summary.vgprs >= 1)
    /\ phase = "entry" /\ R.library => pc[Main] = "return"
    /\ phase = "entry" /\ pc[Main] \in Generated \cup {"return"} /\ ~R.library => EntryRight

(* The code of the entry is not generated in the loop, and passes no VGPRs. *)
WorkInv ==
  \A t \in Threads :
    /\ pc[t] \in {"lockVgprs", "mergeVgprs"} => task[t] > 0 /\ Dvgpr(req)
    /\ HasTask(t) /\ pc[t] \in Building \cup {"clone"} => task[t] > 0

SumInv ==
  WorkInv /\ BuiltInv /\ FlagInv /\ MergeInv /\ ElfInv /\ LastInv /\ SummaryComplete /\ OutputComplete

-----------------------------------------------------------------------------
(* Facts about the shaders of a request *)

LEMMA ShaderFacts ==
  ASSUME NEW r \in DOMAIN Requests
  PROVE  /\ AllShaders(r) = LibShaders(r) \cup ShadersOf(r)
         /\ AllShaders(r) \subseteq DOMAIN Shader
         /\ \A x \in AllShaders(r) : /\ Shader[x].vgprs \in Nat /\ Shader[x].traces \in BOOLEAN
                                     /\ Shader[x].set \subseteq FlagBits
                                     /\ Shader[x].unset \subseteq FlagBits
                                     /\ Shader[x].set \cap Shader[x].unset = {}
<1>1. AllShaders(r) = LibShaders(r) \cup ShadersOf(r)
  BY AllShadersOf DEF LibShaders
<1>2. \A q \in DOMAIN Requests : ShadersOf(q) \subseteq DOMAIN Shader
  BY RequestsAssumption DEF ShadersOf
<1>3. LibsOf[r] \subseteq DOMAIN Requests
  BY DEF LibsOf
<1>4. AllShaders(r) \subseteq DOMAIN Shader
  BY <1>2, <1>3 DEF AllShaders
<1> QED
  BY <1>1, <1>4, BitsAssumption

(* Its own shaders by index. *)
LEMMA OwnShaders ==
  ASSUME req \in DOMAIN Requests
  PROVE  /\ ShadersOf(req) = {R.shaders[i] : i \in 1..N}
         /\ \A i \in 1..N : R.shaders[i] \in AllShaders(req)
         /\ AllShaders(req) = LibShaders(req) \cup {R.shaders[i] : i \in 1..N}
<1>1. ShadersOf(req) = {R.shaders[i] : i \in 1..N}
  BY DEF ShadersOf, R, N
<1> QED
  BY <1>1, ShaderFacts

LEMMA SameSums ==
  ASSUME UNCHANGED req
  PROVE  /\ LibShaders(req)' = LibShaders(req) /\ AllShaders(req)' = AllShaders(req)
         /\ Indirect(req)' = Indirect(req) /\ Cps(req)' = Cps(req) /\ Dvgpr(req)' = Dvgpr(req)
         /\ Tracing(req)' = Tracing(req)
  OBVIOUS

(* The result is about the request and its result. *)
LEMMA SameResult ==
  ASSUME UNCHANGED <<req, out>>, UNCHANGED summary.traceModule \/ out.result # "Success"
  PROVE  /\ SummaryComplete => SummaryComplete'
         /\ OutputComplete => OutputComplete'
  BY SameSums DEF SummaryComplete, OutputComplete, R

-----------------------------------------------------------------------------
(* A thread goes on with its task: what it does to the summary and the ELFs *)

(* A step that merges nothing and generates nothing. *)
PlainStep(t) ==
  /\ UNCHANGED <<summary, elfs>>
  /\ pc'[t] # "built" /\ (pc'[t] \in Generated => pc[t] \in Generated)
  /\ pc'[t] = "generate" => ~Cps(req)
  /\ pc'[t] \in {"lockVgprs", "mergeVgprs"} => pc[t] = "lockVgprs"
  /\ pc'[t] \in Building \cup {"clone"} => pc[t] \in Building \cup {"clone"} \/ task[t] # 0

LEMMA TaskSums ==
  ASSUME IInv, NEW t \in Threads, TaskStep(t)
  PROVE  \/ PlainStep(t)
         \/ /\ MergeState(t) /\ pc[t] = "mergeState" /\ pc'[t] = "generate" /\ UNCHANGED elfs
            /\ summary' = [summary EXCEPT !.state = @ \cup {ModuleAt(task[t])}]
         \/ /\ Generate(t) /\ pc[t] = "generate" /\ UNCHANGED summary
            /\ elfs' = [elfs EXCEPT ![task[t]] = Code(task[t])]
            /\ pc'[t] = IF task[t] > 0 /\ Dvgpr(req) THEN "lockVgprs" ELSE "built"
         \/ /\ MergeVgprs(t) /\ pc[t] = "mergeVgprs" /\ pc'[t] = "built" /\ UNCHANGED elfs
            /\ summary' = [summary EXCEPT !.vgprs = Max2(@, VgprsOf(ModuleAt(task[t])))]
<1> USE DEF IInv, PlaceInv, Goto, shared
<1>1. CASE Create(t) \/ Gate(t) \/ GateSleep(t)
  BY <1>1 DEF Create, Gate, GateSleep, PlainStep, Generated, Building
<1>2. CASE StartTask(t)
  BY <1>2 DEF StartTask, PlainStep, Generated, Building
<1>3. CASE Clone(t)
  BY <1>3 DEF Clone, PlainStep, Generated, Building
<1>4. CASE LowerRayTracing(t)
  <2> DEFINE bad == ModuleAt(task[t]) \in DOMAIN Shader /\ Shader[ModuleAt(task[t])].meta = "bad"
  <2>1. /\ UNCHANGED <<summary, elfs>> /\ pc[t] = "lower"
        /\ pc' = [pc EXCEPT ![t] = CASE ~Cps(req) -> "generate"
                                     [] Cps(req) /\ bad -> "error" [] OTHER -> "lockState"]
    BY <1>4 DEF LowerRayTracing
  <2> HIDE DEF bad
  <2>2. CASE ~Cps(req)
    BY <2>1, <2>2 DEF PlainStep, Generated, Building
  <2>3. CASE Cps(req) /\ bad
    BY <2>1, <2>3 DEF PlainStep, Generated, Building
  <2>4. CASE Cps(req) /\ ~bad
    BY <2>1, <2>4 DEF PlainStep, Generated, Building
  <2> QED
    BY <2>2, <2>3, <2>4
<1>5. CASE Lock(t)
  BY <1>5 DEF Lock, PlainStep, Generated, Building
<1>6. CASE MergeState(t)
  BY <1>6 DEF MergeState, LockInv
<1>7. CASE Generate(t)
  BY <1>7 DEF Generate
<1>8. CASE MergeVgprs(t)
  BY <1>8 DEF MergeVgprs, LockInv
<1> QED
  BY <1>1, <1>2, <1>3, <1>4, <1>5, <1>6, <1>7, <1>8 DEF TaskStep

(* Whoever has a task past the last shader is the main thread, after the loop. *)
LEMMA TaskModules ==
  ASSUME IInv, SumInv, NEW t \in Threads, pc[t] \in Building
  PROVE  /\ req \in DOMAIN Requests /\ N \in Nat /\ Tasks \in Nat \ {0}
         /\ pc[Main] \notin Outside
         /\ \/ /\ HasTask(t) /\ phase = "loop"
               /\ task[t] \in 1..N /\ Indirect(req) /\ Tasks = N + 1 /\ task[t] \in open
               /\ ModuleAt(task[t]) = R.shaders[task[t]] /\ R.shaders[task[t]] \in DOMAIN Shader
            \/ /\ t = Main /\ ~HasTask(t) /\ phase = "traversal" /\ summary.traceModule /\ Indirect(req)
               /\ task[t] = Tasks /\ Tasks = N + 1 /\ ModuleAt(task[t]) = "traversal"
            \/ /\ t = Main /\ ~HasTask(t) /\ phase = "entry" /\ task[t] = 0 /\ ModuleAt(task[t]) = "entry"
<1> USE DEF IInv, SumInv
<1>1. req \in DOMAIN Requests /\ pc[Main] \notin Outside
  BY Busy DEF Claiming, InTask
<1>2. /\ N \in Nat /\ Tasks \in Nat \ {0}
      /\ \A i \in Nat : 0 < i /\ i < Tasks => i \in 1..N /\ Indirect(req)
      /\ \A i \in 1..N : ModuleAt(i) = R.shaders[i] /\ R.shaders[i] \in DOMAIN Shader
      /\ Indirect(req) => Tasks = N + 1
  BY <1>1, RequestFacts
<1>3. ModuleAt(0) = "entry" /\ ModuleAt(N + 1) = "traversal"
  BY <1>2 DEF ModuleAt
<1>4. CASE HasTask(t)
  <2>1. task[t] \in open /\ task[t] > 0 /\ task[t] \in Nat
    BY <1>4 DEF ClaimInv, WorkInv
  <2>2. InLoop
    BY <2>1 DEF ClaimInv
  <2>3. task[t] < Tasks
    BY <2>1, <2>2 DEF ClaimInv
  <2> QED
    BY <1>1, <1>2, <1>4, <2>1, <2>2, <2>3 DEF InLoop
<1>5. CASE ~HasTask(t)
  <2>1. t = Main /\ phase # "loop"
    BY <1>5 DEF HasTask, Claiming, InTask
  <2>2. phase \in {"traversal", "entry"} /\ pc[Main] # "idle"
    BY <1>1, <2>1 DEF PlaceInv, Outside
  <2>3. phase = "traversal" => summary.traceModule /\ Indirect(req) /\ task[t] = Tasks
    BY <2>1, <2>2 DEF LastInv, MergeInv, FoundInv
  <2>4. phase = "entry" => task[t] = 0
    BY <2>1, <2>2 DEF FoundInv
  <2> QED
    BY <1>1, <1>2, <1>3, <1>5, <2>1, <2>2, <2>3, <2>4
<1> QED
  BY <1>4, <1>5

(* What the steps of a task have in common. *)
LEMMA TaskRest ==
  ASSUME IInv, SumInv, NEW t \in Threads, TaskStep(t)
  PROVE  /\ UNCHANGED <<req, built, out, task, next, open, phase, flags, failed>>
         /\ \A u \in Threads \ {t} : pc'[u] = pc[u]
         /\ pc[Main] \notin Outside /\ pc'[Main] \notin Outside
         /\ \A u \in Threads : HasTask(u)' <=> HasTask(u)
         /\ req \in DOMAIN Requests /\ R' = R /\ N' = N /\ Tasks' = Tasks
         /\ BuiltInv' /\ WorkInv' /\ SummaryComplete' /\ OutputComplete'
<1> USE DEF IInv, SumInv
<1>1. UNCHANGED <<req, built, out, task, next, open, phase, flags, failed>>
  BY TaskMoves DEF fixed, claims
<1>2. \A u \in Threads \ {t} : pc'[u] = pc[u]
  BY TaskMoves
<1>3. pc[t] \in Claiming /\ pc'[t] \in Claiming
  BY TaskMoves
<1>4. req \in DOMAIN Requests /\ pc[Main] \notin Outside
  BY <1>3, Busy
<1>5. Main \in Threads /\ Claiming \cap Outside = {}
  BY DEF Threads, Claiming, InTask, AtGate, Building, Outside
<1>6. pc'[Main] \notin Outside
  BY <1>2, <1>3, <1>4, <1>5
<1>7. \A u \in Threads : HasTask(u)' <=> HasTask(u)
  BY <1>1, <1>2, <1>3 DEF HasTask
<1>8. R' = R /\ N' = N /\ Tasks' = Tasks
  BY <1>1, SameRequest
<1>9. BuiltInv'
  BY <1>1 DEF BuiltInv
<1>10. SummaryComplete' /\ OutputComplete'
  <2>1. out.result # "Success"
    BY <1>4 DEF OutInv, Outside
  <2> QED
    BY <1>1, <2>1 DEF SummaryComplete, OutputComplete
<1>11. WorkInv'
  <2> SUFFICES ASSUME NEW u \in Threads
               PROVE  /\ pc'[u] \in {"lockVgprs", "mergeVgprs"} => task[u] > 0 /\ Dvgpr(req)
                      /\ HasTask(u) /\ pc'[u] \in Building \cup {"clone"} => task[u] > 0
    BY <1>1, <1>7 DEF WorkInv
  <2>1. /\ pc[u] \in {"lockVgprs", "mergeVgprs"} => task[u] > 0 /\ Dvgpr(req)
        /\ HasTask(u) /\ pc[u] \in Building \cup {"clone"} => task[u] > 0
    BY DEF WorkInv
  <2>2. task[u] \in Nat
    BY DEF ClaimInv
  <2>3. CASE u # t
    BY <1>2, <2>1, <2>3
  <2>4. CASE u = t
    <3>1. CASE PlainStep(t)
      BY <2>1, <2>2, <2>4, <3>1 DEF PlainStep
    <3>2. CASE ~PlainStep(t)
      <4>1. pc[t] \in Building
        BY <3>2, TaskSums DEF Building
      <4>2. pc'[t] \in {"lockVgprs", "mergeVgprs"} => task[t] > 0 /\ Dvgpr(req)
        BY <3>2, TaskSums
      <4> QED
        BY <2>1, <2>4, <4>1, <4>2
    <3> QED
      BY <3>1, <3>2
  <2> QED
    BY <2>3, <2>4
<1> QED
  BY <1>1, <1>2, <1>4, <1>6, <1>7, <1>8, <1>9, <1>10, <1>11

LEMMA PlainKeeps ==
  ASSUME IInv, SumInv, NEW t \in Threads, TaskStep(t), PlainStep(t)
  PROVE  SumInv'
<1> USE DEF IInv, SumInv
<1>1. /\ UNCHANGED <<req, built, out, task, next, open, phase, flags, failed, summary, elfs>>
      /\ pc[Main] \notin {"idle", "read", "return"} /\ pc'[Main] \notin {"idle", "read", "return"}
      /\ R' = R /\ N' = N /\ Tasks' = Tasks
  BY TaskRest DEF PlainStep, Outside
<1>2. FlagInv'
  <2>1. ReadSoFar' = ReadSoFar
    BY <1>1, SameSums DEF ReadSoFar
  <2> QED
    BY <1>1, <2>1 DEF FlagInv
<1>3. MergeInv'
  <2>1. Top' = Top /\ VgprsOfAll' = VgprsOfAll /\ NeedTraversal(summary)' = NeedTraversal(summary)
    BY <1>1, SameSums DEF Top, VgprsOfAll, NeedTraversal
  <2> QED
    BY <1>1, <2>1 DEF MergeInv
<1>4. ElfInv'
  <2> SUFFICES ASSUME Indirect(req), NEW i \in 1..N
               PROVE  /\ i < next /\ i \notin open /\ ~failed => HasState(i)' /\ HasVgprs(i)' /\ HasElf(i)'
                      /\ \A u \in Threads : HasTask(u) /\ task[u] = i =>
                           /\ pc'[u] \in Generated \cup {"generate"} => HasState(i)'
                           /\ pc'[u] \in Generated => HasElf(i)'
                           /\ pc'[u] = "built" => HasVgprs(i)'
    BY <1>1, TaskRest DEF ElfInv
  <2>1. HasState(i)' = HasState(i) /\ HasVgprs(i)' = HasVgprs(i) /\ HasElf(i)' = HasElf(i)
    BY <1>1 DEF HasState, HasVgprs, HasElf
  <2>2. ASSUME NEW u \in Threads
        PROVE  /\ pc'[u] = "generate" => ~Cps(req) \/ pc[u] = "generate"
               /\ pc'[u] \in Generated => pc[u] \in Generated
               /\ pc'[u] = "built" => pc[u] = "built"
    BY TaskRest DEF PlainStep
  <2>3. ~Cps(req) => HasState(i)
    BY DEF HasState
  <2> QED
    BY <1>1, <2>1, <2>2, <2>3 DEF ElfInv
<1>5. LastInv'
  <2>1. TraversalRight' = TraversalRight /\ EntryRight' = EntryRight
    BY <1>1, SameSums DEF TraversalRight, EntryRight, VgprsOfAll
  <2>2. /\ pc'[Main] \in Generated => pc[Main] \in Generated
        /\ pc'[Main] = "built" => pc[Main] = "built"
    BY TaskRest DEF PlainStep, Threads
  <2> QED
    BY <1>1, <2>1, <2>2 DEF LastInv
<1> QED
  BY <1>2, <1>3, <1>4, <1>5, TaskRest

(* The state of its module goes into the summary. *)
LEMMA StateKeeps ==
  ASSUME IInv, SumInv, NEW t \in Threads, MergeState(t)
  PROVE  SumInv'
<1> USE DEF IInv, SumInv
<1>0. TaskStep(t)
  BY DEF TaskStep
<1>1. /\ UNCHANGED <<req, built, out, task, next, open, phase, flags, failed, elfs>>
      /\ pc[Main] \notin {"idle", "read", "return"} /\ pc'[Main] \notin {"idle", "read", "return"}
      /\ R' = R /\ N' = N /\ Tasks' = Tasks
  BY <1>0, TaskRest DEF MergeState, Outside
<1>2. /\ pc[t] = "mergeState" /\ pc'[t] = "generate"
      /\ summary' = [summary EXCEPT !.state = @ \cup {ModuleAt(task[t])}]
  BY <1>0, TaskSums DEF MergeState, PlainStep, Generate, MergeVgprs, Goto, PlaceInv, LockInv
<1>3. /\ summary'.state = summary.state \cup {ModuleAt(task[t])}
      /\ summary'.traces = summary.traces /\ summary'.set = summary.set
      /\ summary'.unset = summary.unset /\ summary'.vgprs = summary.vgprs
      /\ summary'.traceModule = summary.traceModule
  BY <1>2 DEF LockInv, Fields
<1>4. FlagInv'
  <2>1. ReadSoFar' = ReadSoFar
    BY <1>1, SameSums DEF ReadSoFar
  <2> QED
    BY <1>1, <1>3, <2>1 DEF FlagInv
<1>5. MergeInv'
  <2>1. Top' = Top /\ VgprsOfAll' = VgprsOfAll /\ NeedTraversal(summary)' = NeedTraversal(summary)
    BY <1>1, <1>3, SameSums DEF Top, VgprsOfAll, NeedTraversal
  <2> QED
    BY <1>1, <1>3, <2>1 DEF MergeInv
<1>6. ElfInv'
  <2> SUFFICES ASSUME Indirect(req), NEW i \in 1..N
               PROVE  /\ i < next /\ i \notin open /\ ~failed => HasState(i)' /\ HasVgprs(i)' /\ HasElf(i)'
                      /\ \A u \in Threads : HasTask(u) /\ task[u] = i =>
                           /\ pc'[u] \in Generated \cup {"generate"} => HasState(i)'
                           /\ pc'[u] \in Generated => HasElf(i)'
                           /\ pc'[u] = "built" => HasVgprs(i)'
    BY <1>0, <1>1, TaskRest DEF ElfInv
  <2>1. (HasState(i) => HasState(i)') /\ HasVgprs(i)' = HasVgprs(i) /\ HasElf(i)' = HasElf(i)
    BY <1>1, <1>3 DEF HasState, HasVgprs, HasElf
  <2>2. ASSUME NEW u \in Threads
        PROVE  /\ pc'[u] \in Generated => pc[u] \in Generated
               /\ pc'[u] = "built" => pc[u] = "built"
               /\ pc'[u] = "generate" /\ u # t => pc[u] = "generate"
    BY <1>0, <1>2, TaskRest DEF Generated
  <2>3. HasTask(t) /\ task[t] = i => HasState(i)'
    BY <1>1, <1>2, <1>3, TaskModules DEF HasState, Building
  <2> QED
    BY <1>1, <2>1, <2>2, <2>3 DEF ElfInv
<1>7. LastInv'
  <2>1. TraversalRight' = TraversalRight /\ EntryRight' = EntryRight
    BY <1>1, <1>3, SameSums DEF TraversalRight, EntryRight, VgprsOfAll
  <2>2. /\ pc'[Main] \in Generated => pc[Main] \in Generated
        /\ pc'[Main] = "built" => pc[Main] = "built"
    BY <1>0, <1>2, TaskRest DEF Generated, Threads
  <2> QED
    BY <1>1, <1>3, <2>1, <2>2 DEF LastInv
<1> QED
  BY <1>0, <1>4, <1>5, <1>6, <1>7, TaskRest

(* So do the VGPRs that it passes on. *)
LEMMA VgprsKeeps ==
  ASSUME IInv, SumInv, NEW t \in Threads, MergeVgprs(t)
  PROVE  SumInv'
<1> USE DEF IInv, SumInv
<1>0. TaskStep(t)
  BY DEF TaskStep
<1>1. /\ UNCHANGED <<req, built, out, task, next, open, phase, flags, failed, elfs>>
      /\ pc[Main] \notin {"idle", "read", "return"} /\ pc'[Main] \notin {"idle", "read", "return"}
      /\ R' = R /\ N' = N /\ Tasks' = Tasks /\ req \in DOMAIN Requests
  BY <1>0, TaskRest DEF MergeVgprs, Outside
<1>2. /\ pc[t] = "mergeVgprs" /\ pc'[t] = "built"
      /\ summary' = [summary EXCEPT !.vgprs = Max2(@, VgprsOf(ModuleAt(task[t])))]
  BY <1>0, TaskSums DEF MergeVgprs, PlainStep, Generate, MergeState, Goto, PlaceInv, LockInv
<1>3. /\ summary'.vgprs = Max2(summary.vgprs, VgprsOf(ModuleAt(task[t])))
      /\ summary'.traces = summary.traces /\ summary'.set = summary.set
      /\ summary'.unset = summary.unset /\ summary'.state = summary.state
      /\ summary'.traceModule = summary.traceModule
  BY <1>2 DEF LockInv, Fields
<1>4. task[t] > 0
  BY <1>2 DEF WorkInv
<1>5. \/ /\ HasTask(t) /\ phase = "loop" /\ task[t] \in 1..N
         /\ VgprsOf(ModuleAt(task[t])) = Shader[R.shaders[task[t]]].vgprs
         /\ R.shaders[task[t]] \in AllShaders(req)
      \/ t = Main /\ ~HasTask(t) /\ phase = "traversal" /\ summary.traceModule /\ VgprsOf(ModuleAt(task[t])) = 1
  <2>1. "traversal" \notin DOMAIN Shader
    BY ShadersAssumption
  <2> QED
    BY <1>1, <1>2, <1>4, <2>1, TaskModules, OwnShaders DEF Building, VgprsOf
<1>6. VgprsOf(ModuleAt(task[t])) \in VgprsOfAll /\ VgprsOf(ModuleAt(task[t])) \in Nat
  BY <1>1, <1>5, ShaderFacts DEF VgprsOfAll, VgprsIn
<1>7. summary.vgprs \in Nat /\ summary'.vgprs \in Nat /\ summary'.vgprs >= summary.vgprs
      /\ summary'.vgprs >= VgprsOf(ModuleAt(task[t]))
      /\ summary'.vgprs \in {summary.vgprs, VgprsOf(ModuleAt(task[t]))}
  BY <1>1, <1>3, <1>6 DEF Max2, MergeInv
<1>8. FlagInv'
  <2>1. ReadSoFar' = ReadSoFar
    BY <1>1, SameSums DEF ReadSoFar
  <2> QED
    BY <1>1, <1>3, <2>1 DEF FlagInv
<1>9. MergeInv'
  <2>1. Top' = Top /\ VgprsOfAll' = VgprsOfAll /\ NeedTraversal(summary)' = NeedTraversal(summary)
    BY <1>1, <1>3, SameSums DEF Top, VgprsOfAll, NeedTraversal
  <2>2. \A x \in LibShaders(req) : Shader[x].vgprs \in Nat
    BY <1>1, ShaderFacts
  <2>3. Dvgpr(req) => /\ summary'.vgprs \in VgprsOfAll
                      /\ \A x \in LibShaders(req) : summary'.vgprs >= Shader[x].vgprs
    BY <1>1, <1>6, <1>7, <2>2 DEF MergeInv
  <2> QED
    BY <1>1, <1>3, <1>7, <2>1, <2>3 DEF MergeInv
<1>10. ElfInv'
  <2> SUFFICES ASSUME Indirect(req), NEW i \in 1..N
               PROVE  /\ i < next /\ i \notin open /\ ~failed => HasState(i)' /\ HasVgprs(i)' /\ HasElf(i)'
                      /\ \A u \in Threads : HasTask(u) /\ task[u] = i =>
                           /\ pc'[u] \in Generated \cup {"generate"} => HasState(i)'
                           /\ pc'[u] \in Generated => HasElf(i)'
                           /\ pc'[u] = "built" => HasVgprs(i)'
    BY <1>0, <1>1, TaskRest DEF ElfInv
  <2>1. Shader[R.shaders[i]].vgprs \in Nat
    BY <1>1, ShaderFacts, OwnShaders
  <2>2. (HasVgprs(i) => HasVgprs(i)') /\ HasState(i)' = HasState(i) /\ HasElf(i)' = HasElf(i)
    BY <1>1, <1>3, <1>7, <2>1 DEF HasState, HasVgprs, HasElf
  <2>3. ASSUME NEW u \in Threads
        PROVE  /\ pc'[u] \in Generated => pc[u] \in Generated
               /\ pc'[u] = "generate" => pc[u] = "generate"
               /\ pc'[u] = "built" /\ u # t => pc[u] = "built"
    BY <1>0, <1>2, TaskRest DEF Generated
  <2>4. HasTask(t) /\ task[t] = i => HasVgprs(i)'
    BY <1>1, <1>5, <1>7 DEF HasVgprs
  <2> QED
    BY <1>1, <2>2, <2>3, <2>4 DEF ElfInv
<1>11. LastInv'
  <2>1. TraversalRight' = TraversalRight /\ EntryRight' = EntryRight
    BY <1>1, <1>3, SameSums DEF TraversalRight, EntryRight, VgprsOfAll
  <2>2. /\ pc'[Main] \in Generated => pc[Main] \in Generated
        /\ pc'[Main] = "built" /\ t # Main => pc[Main] = "built"
    BY <1>0, <1>2, TaskRest DEF Generated, Threads
  <2>3. t = Main /\ phase = "traversal" => summary'.vgprs >= 1
    BY <1>5, <1>7
  <2>4. summary.vgprs >= 1 => summary'.vgprs >= 1
    BY <1>7
  <2> QED
    BY <1>1, <1>3, <2>1, <2>2, <2>3, <2>4 DEF LastInv
<1> QED
  BY <1>0, <1>8, <1>9, <1>10, <1>11, TaskRest

(* After the loop every shader is merged and has its ELF. *)
LEMMA AllDone ==
  ASSUME IInv, SumInv, phase # "loop", pc[Main] \notin {"idle", "read"}
  PROVE  /\ req \in DOMAIN Requests /\ ReadSoFar = AllShaders(req)
         /\ Indirect(req) => \A i \in 1..N : HasState(i) /\ HasVgprs(i) /\ HasElf(i)
         /\ Cps(req) => AllShaders(req) \subseteq summary.state
         /\ Dvgpr(req) => \A x \in AllShaders(req) : summary.vgprs >= Shader[x].vgprs
<1> USE DEF IInv, SumInv
<1>1. req \in DOMAIN Requests
  BY DEF PlaceInv
<1>2. ~failed /\ next >= Tasks /\ open = {} /\ next \in Nat
  BY DEF FoundInv, ClaimInv, InLoop
<1>3. N \in Nat /\ Tasks \in Nat /\ (Indirect(req) => Tasks = N + 1)
  BY <1>1, RequestFacts
<1>4. ASSUME Indirect(req), NEW i \in 1..N  PROVE HasState(i) /\ HasVgprs(i) /\ HasElf(i)
  <2>1. i < next /\ i \notin open
    BY <1>2, <1>3, <1>4
  <2> QED
    BY <1>2, <1>4, <2>1 DEF ElfInv
<1>5. AllShaders(req) = LibShaders(req) \cup {R.shaders[i] : i \in 1..N}
  BY <1>1, OwnShaders
<1>6. ReadSoFar = AllShaders(req)
  BY <1>5 DEF ReadSoFar
<1>7. Cps(req) => Indirect(req)
  BY DEF Cps
<1>8. Dvgpr(req) => Indirect(req)
  BY <1>1, <1>7, ModesAssumption DEF Dvgpr, Indirect
<1>9. Cps(req) => AllShaders(req) \subseteq summary.state
  BY <1>4, <1>5, <1>7 DEF MergeInv, HasState
<1>10. Dvgpr(req) => \A x \in AllShaders(req) : summary.vgprs >= Shader[x].vgprs
  BY <1>4, <1>5, <1>8 DEF MergeInv, HasVgprs
<1> QED
  BY <1>1, <1>4, <1>6, <1>9, <1>10

(* The code of a module is generated. *)
LEMMA GenerateKeeps ==
  ASSUME IInv, SumInv, NEW t \in Threads, Generate(t)
  PROVE  SumInv'
<1> USE DEF IInv, SumInv
<1>0. TaskStep(t)
  BY DEF TaskStep
<1>1. /\ UNCHANGED <<req, built, out, task, next, open, phase, flags, failed, summary>>
      /\ pc[Main] \notin {"idle", "read", "return"} /\ pc'[Main] \notin {"idle", "read", "return"}
      /\ R' = R /\ N' = N /\ Tasks' = Tasks /\ req \in DOMAIN Requests
  BY <1>0, TaskRest DEF Generate, Outside, shared
<1>2. /\ pc[t] = "generate" /\ pc'[t] = (IF task[t] > 0 /\ Dvgpr(req) THEN "lockVgprs" ELSE "built")
      /\ elfs' = [elfs EXCEPT ![task[t]] = Code(task[t])]
  BY <1>0 DEF Generate, Goto, PlaceInv
<1>3. elfs = [i \in 0..Top |-> elfs[i]]
  BY <1>1 DEF MergeInv
<1>4. /\ Top' = Top /\ VgprsOfAll' = VgprsOfAll /\ NeedTraversal(summary)' = NeedTraversal(summary)
      /\ ReadSoFar' = ReadSoFar
  BY <1>1, SameSums DEF Top, VgprsOfAll, NeedTraversal, ReadSoFar
<1>5. FlagInv'
  BY <1>1, <1>4 DEF FlagInv
<1>6. MergeInv'
  <2>1. elfs' = [i \in 0..Top |-> elfs'[i]]
    BY <1>2, <1>3
  <2> QED
    BY <1>1, <1>4, <2>1 DEF MergeInv
<1>7. N \in Nat /\ Tasks \in Nat \ {0} /\ Top \in Nat /\ Top >= Tasks - 1
      /\ (summary.traceModule => Top = Tasks) /\ (Indirect(req) => Tasks = N + 1)
  BY <1>1, RequestFacts DEF Top
<1>8. task[t] \in 0..Top
  BY <1>1, <1>2, <1>7, TaskModules DEF Building
<1>9. elfs'[task[t]] = Code(task[t]) /\ \A i \in 0..Top : i # task[t] => elfs'[i] = elfs[i]
  BY <1>2, <1>3, <1>8
<1>10. ASSUME NEW i \in 1..N, Indirect(req)
       PROVE  HasState(i)' = HasState(i) /\ HasVgprs(i)' = HasVgprs(i) /\ i \in 0..Top
              /\ (i # task[t] => HasElf(i)' = HasElf(i))
  <2>1. i \in 0..Top
    BY <1>7, <1>10
  <2> QED
    BY <1>1, <1>9, <2>1 DEF HasState, HasVgprs, HasElf
<1>11. ASSUME NEW u \in Threads, u # t  PROVE pc'[u] = pc[u]
  BY <1>0, <1>11, TaskRest
<1>12. CASE HasTask(t)
  <2>1. /\ task[t] \in 1..N /\ Indirect(req) /\ phase = "loop" /\ task[t] \in open
        /\ ModuleAt(task[t]) = R.shaders[task[t]] /\ R.shaders[task[t]] \in DOMAIN Shader
    BY <1>2, <1>12, TaskModules DEF Building
  <2>2. Code(task[t]) = <<R.shaders[task[t]]>>
    <3>1. ModuleAt(task[t]) # "traversal" /\ task[t] # 0
      BY <2>1, ShadersAssumption
    <3> QED
      BY <2>1, <3>1 DEF Code
  <2>3. ElfInv'
    <3> SUFFICES ASSUME Indirect(req), NEW i \in 1..N
                 PROVE  /\ i < next /\ i \notin open /\ ~failed => HasState(i)' /\ HasVgprs(i)' /\ HasElf(i)'
                        /\ \A u \in Threads : HasTask(u) /\ task[u] = i =>
                             /\ pc'[u] \in Generated \cup {"generate"} => HasState(i)'
                             /\ pc'[u] \in Generated => HasElf(i)'
                             /\ pc'[u] = "built" => HasVgprs(i)'
      BY <1>0, <1>1, TaskRest DEF ElfInv
    <3>1. i # task[t] => \A u \in Threads : task[u] = i => u # t
      OBVIOUS
    <3>2. CASE i # task[t]
      BY <1>1, <1>10, <1>11, <2>1, <3>1, <3>2 DEF ElfInv
    <3>3. CASE i = task[t]
      <4>1. \A u \in Threads : HasTask(u) /\ task[u] = i => u = t
        BY <1>12, <3>3 DEF ClaimInv
      <4>2. HasElf(i)'
        BY <1>1, <1>9, <2>2, <3>3 DEF HasElf
      <4>3. HasState(i)'
        BY <1>1, <1>2, <1>10, <1>12, <3>3 DEF ElfInv
      <4>4. pc'[t] = "built" => HasVgprs(i)'
        BY <1>1, <1>2, <2>1, <3>3 DEF HasVgprs
      <4> QED
        BY <2>1, <3>3, <4>1, <4>2, <4>3, <4>4
    <3> QED
      BY <3>2, <3>3
  <2>4. LastInv'
    BY <1>1, <2>1 DEF LastInv
  <2> QED
    BY <1>0, <1>5, <1>6, <2>3, <2>4, TaskRest
<1>13. CASE ~HasTask(t)
  <2>1. /\ t = Main /\ phase # "loop"
        /\ \/ phase = "traversal" /\ summary.traceModule /\ task[t] = Tasks /\ ModuleAt(task[t]) = "traversal"
              /\ Indirect(req) /\ Tasks = N + 1
           \/ phase = "entry" /\ task[t] = 0 /\ ~R.library
    <3>1. phase = "entry" /\ t = Main => ~R.library
      BY <1>1, <1>2 DEF LastInv
    <3> QED
      BY <1>2, <1>13, <3>1, TaskModules DEF Building
  <2>2. phase # "loop" /\ t = Main
    BY <1>2, <1>13, TaskModules DEF Building
  <2>3. /\ ReadSoFar = AllShaders(req)
        /\ Cps(req) => AllShaders(req) \subseteq summary.state
        /\ Dvgpr(req) => \A x \in AllShaders(req) : summary.vgprs >= Shader[x].vgprs
    BY <1>1, <2>2, AllDone
  <2>4. \A u \in Threads : ~HasTask(u)
    BY <1>1, <2>2, Quiet DEF ClaimInv, InLoop
  <2>5. ElfInv'
    <3> SUFFICES ASSUME Indirect(req), NEW i \in 1..N
                 PROVE  i < next /\ i \notin open /\ ~failed => HasState(i)' /\ HasVgprs(i)' /\ HasElf(i)'
      BY <1>0, <1>1, <2>4, TaskRest DEF ElfInv
    <3>1. i # task[t]
      BY <1>7, <2>1
    <3> QED
      BY <1>1, <1>10, <3>1 DEF ElfInv
  <2>6. CASE phase = "traversal"
    <3>1. task[t] = Tasks /\ ModuleAt(Tasks) = "traversal" /\ summary.traceModule
      BY <2>1, <2>6
    <3>2. elfs'[Tasks] = <<"traversal", summary.state, flags.set, flags.unset>>
      BY <1>7, <1>9, <3>1 DEF Code
    <3>3. flags = FlagsOf(AllShaders(req))
      BY <1>1, <2>3 DEF FlagInv
    <3>4. TraversalRight'
      BY <1>1, <2>3, <3>2, <3>3, SameSums DEF TraversalRight
    <3>5. pc'[Main] = "built" => ~Dvgpr(req)
      BY <1>2, <1>7, <2>2, <3>1
    <3> QED
      BY <1>0, <1>1, <1>5, <1>6, <2>5, <2>6, <3>1, <3>4, <3>5, TaskRest DEF LastInv
  <2>7. CASE phase = "entry"
    <3>1. task[t] = 0 /\ ~R.library /\ ModuleAt(0) = "entry"
      BY <2>1, <2>7 DEF ModuleAt
    <3>2. elfs'[0] = <<"entry", ShadersIn(0), IF Dvgpr(req) THEN summary.vgprs ELSE 0>>
      <4>1. elfs'[0] = Code(0)
        BY <1>9, <3>1
      <4>2. ModuleAt(0) # "traversal"
        BY <3>1
      <4> QED
        BY <4>1, <4>2 DEF Code
    <3>3. ASSUME Dvgpr(req)  PROVE IsMax(summary.vgprs, VgprsOfAll)
      <4>1. summary.vgprs \in VgprsOfAll /\ summary.vgprs \in Nat
        BY <1>1, <3>3 DEF MergeInv
      <4>2. summary.traceModule => summary.vgprs >= 1
        BY <1>1, <2>7, <3>3 DEF LastInv
      <4> QED
        BY <2>3, <3>3, <4>1, <4>2 DEF VgprsOfAll, VgprsIn, IsMax
    <3>4. EntryRight'
      <4>1. Dvgpr(req) => elfs'[0][3] = summary.vgprs
        BY <3>2
      <4> QED
        BY <1>1, <1>4, <3>2, <3>3, <4>1 DEF EntryRight
    <3>5. TraversalRight => TraversalRight' \/ ~summary.traceModule
      <4>1. summary.traceModule => Tasks \in 0..Top /\ Tasks # task[t]
        BY <1>7, <3>1
      <4>2. summary.traceModule => elfs'[Tasks] = elfs[Tasks]
        BY <1>9, <4>1
      <4> QED
        BY <1>1, <4>2, SameSums DEF TraversalRight
    <3> QED
      BY <1>0, <1>1, <1>5, <1>6, <2>5, <2>7, <3>1, <3>4, <3>5, TaskRest DEF LastInv
  <2> QED
    BY <2>1, <2>6, <2>7
<1> QED
  BY <1>12, <1>13

LEMMA TaskSumKeeps ==
  ASSUME IInv, SumInv, NEW t \in Threads, TaskStep(t)
  PROVE  SumInv'
  BY TaskSums, PlainKeeps, StateKeeps, VgprsKeeps, GenerateKeeps

-----------------------------------------------------------------------------
(* Tasks begin and end *)

(* The summary and the ELFs stay as they are; a task that is complete is one  *)
(* that was, or whose module somebody has built.                              *)
LEMMA StillKeeps ==
  ASSUME IInv, SumInv, UNCHANGED <<req, built, out, summary, flags, elfs, phase>>,
         \/ pc'[Main] = pc[Main] /\ (pc[Main] = "read" => task'[Main] = task[Main])
         \/ pc[Main] \notin Outside /\ pc'[Main] \notin Outside /\ phase = "loop",
         \A u \in Threads : pc'[u] \in Building \cup {"clone"} => pc'[u] = pc[u] /\ task'[u] = task[u],
         \A i \in 1..N : i < next' /\ i \notin open' /\ ~failed' /\ pc[Main] \notin {"idle", "read"} =>
           \/ i < next /\ i \notin open /\ ~failed
           \/ \E t \in Threads : HasTask(t) /\ task[t] = i /\ pc[t] = "built"
  PROVE  SumInv'
<1> USE DEF IInv, SumInv
<1>1. R' = R /\ N' = N /\ Tasks' = Tasks
  BY SameRequest
<1>2. (pc'[Main] = "idle" <=> pc[Main] = "idle") /\ (pc'[Main] = "read" <=> pc[Main] = "read")
  BY DEF Outside
<1>3. BuiltInv' /\ SummaryComplete' /\ OutputComplete'
  BY SameResult DEF BuiltInv
<1>4. WorkInv'
  <2> SUFFICES ASSUME NEW u \in Threads
               PROVE  /\ pc'[u] \in {"lockVgprs", "mergeVgprs"} => task'[u] > 0 /\ Dvgpr(req)
                      /\ HasTask(u)' /\ pc'[u] \in Building \cup {"clone"} => task'[u] > 0
    BY DEF WorkInv
  <2>1. pc'[u] \in Building \cup {"clone"} => HasTask(u)' = HasTask(u)
    BY DEF HasTask
  <2> QED
    BY <2>1 DEF WorkInv, Building
<1>5. FlagInv'
  <2>1. pc[Main] = "read" => task'[Main] = task[Main]
    BY DEF Outside
  <2>2. ReadSoFar' = ReadSoFar
    <3>1. {j \in 1..N : pc[Main] = "read" => j < task[Main]}' = {j \in 1..N : pc[Main] = "read" => j < task[Main]}
      BY <1>1, <1>2, <2>1
    <3> QED
      BY <1>1, <3>1, SameSums DEF ReadSoFar
  <2> QED
    BY <1>2, <2>2 DEF FlagInv
<1>6. MergeInv'
  <2>1. Top' = Top /\ VgprsOfAll' = VgprsOfAll /\ NeedTraversal(summary)' = NeedTraversal(summary)
    BY <1>1, SameSums DEF Top, VgprsOfAll, NeedTraversal
  <2> QED
    BY <1>2, <2>1 DEF MergeInv
<1>7. ElfInv'
  <2> SUFFICES ASSUME pc[Main] \notin {"idle", "read"}, Indirect(req), NEW i \in 1..N
               PROVE  /\ i < next' /\ i \notin open' /\ ~failed' => HasState(i) /\ HasVgprs(i) /\ HasElf(i)
                      /\ \A u \in Threads : HasTask(u)' /\ task'[u] = i =>
                           /\ pc'[u] \in Generated \cup {"generate"} => HasState(i)
                           /\ pc'[u] \in Generated => HasElf(i)
                           /\ pc'[u] = "built" => HasVgprs(i)
    BY <1>1, <1>2 DEF ElfInv, HasState, HasVgprs, HasElf
  <2>1. i < next' /\ i \notin open' /\ ~failed' => HasState(i) /\ HasVgprs(i) /\ HasElf(i)
    BY DEF ElfInv, Generated
  <2>2. ASSUME NEW u \in Threads, HasTask(u)', task'[u] = i, pc'[u] \in Generated \cup {"generate"}
        PROVE  HasTask(u) /\ task[u] = i /\ pc[u] = pc'[u]
    <3>1. pc'[u] \in Building
      BY <2>2 DEF Generated, Building
    <3> QED
      BY <2>2, <3>1 DEF HasTask
  <2> QED
    BY <2>1, <2>2 DEF ElfInv, Generated
<1>8. LastInv'
  <2>1. TraversalRight' = TraversalRight /\ EntryRight' = EntryRight
    BY <1>1, SameSums DEF TraversalRight, EntryRight, VgprsOfAll
  <2>2. phase # "loop" => pc'[Main] = pc[Main]
    OBVIOUS
  <2> QED
    BY <1>1, <1>2, <2>1, <2>2 DEF LastInv
<1> QED
  BY <1>3, <1>4, <1>5, <1>6, <1>7, <1>8

LEMMA FinishSums ==
  ASSUME IInv, SumInv, NEW t \in Threads, FinishTask(t)
  PROVE  SumInv'
<1> USE DEF IInv
<1>1. UNCHANGED <<req, built, out, summary, flags, elfs, phase>>
  BY FinishMoves DEF fixed, shared
<1>2. /\ HasTask(t) /\ pc[t] \in {"after", "built", "error"} /\ task[t] \in open
      /\ pc[Main] \notin Outside /\ phase = "loop" /\ req \in DOMAIN Requests
  <2>1. HasTask(t) /\ pc[t] \in {"after", "built", "error"}
    BY FinishMoves
  <2>2. task[t] \in open /\ InLoop
    BY <2>1 DEF ClaimInv
  <2> QED
    BY <2>1, <2>2 DEF InLoop, PlaceInv, Outside
<1>3. pc'[Main] = pc[Main] \/ pc'[Main] \notin Outside
  BY FinishMoves DEF Threads, Outside
<1>4. \A u \in Threads : pc'[u] \in Building \cup {"clone"} => pc'[u] = pc[u] /\ task'[u] = task[u]
  BY FinishMoves DEF Building
<1>5. ASSUME NEW i \in 1..N, i < next', i \notin open', ~failed'
      PROVE  \/ i < next /\ i \notin open /\ ~failed
             \/ \E u \in Threads : HasTask(u) /\ task[u] = i /\ pc[u] = "built"
  <2>1. N \in Nat /\ next \in Nat
    BY <1>2, RequestFacts DEF ClaimInv
  <2>2. ~failed /\ ~Bad(t) /\ pc[t] # "error"
    BY <1>5, FinishMoves DEF Bad
  <2>3. CASE i = task[t]
    <3>1. pc[t] # "after"
      BY <1>2, <1>5, <2>3 DEF FoundInv, Outside
    <3> QED
      BY <1>2, <2>2, <2>3, <3>1
  <2>4. CASE i # task[t]
    <3>1. i \notin open /\ i < next
      BY <1>5, <2>1, <2>4, FinishMoves
    <3> QED
      BY <2>2, <3>1
  <2> QED
    BY <2>3, <2>4
<1> QED
  BY <1>1, <1>2, <1>3, <1>4, <1>5, StillKeeps

LEMMA DestroySums ==
  ASSUME IInv, SumInv, NEW t \in Threads, Destroy(t)
  PROVE  SumInv'
<1> USE DEF IInv
<1>1. UNCHANGED <<req, built, out, summary, flags, elfs, phase, next, open, failed>>
  BY DEF Destroy, fixed, shared
<1>2. /\ pc[t] = "destroy" /\ pc'[t] \in {"wait", "gone"}
      /\ \A u \in Threads \ {t} : pc'[u] = pc[u] /\ task'[u] = task[u]
  BY DEF Destroy, Goto, PlaceInv, ClaimInv
<1>3. t = Main => phase = "loop"
  BY <1>2 DEF PlaceInv, Building
<1>4. \/ pc'[Main] = pc[Main] /\ (pc[Main] = "read" => task'[Main] = task[Main])
      \/ pc[Main] \notin Outside /\ pc'[Main] \notin Outside /\ phase = "loop"
  BY <1>2, <1>3 DEF Threads, Outside
<1>5. \A u \in Threads : pc'[u] \in Building \cup {"clone"} => pc'[u] = pc[u] /\ task'[u] = task[u]
  BY <1>2 DEF Building
<1> QED
  BY <1>1, <1>4, <1>5, StillKeeps

LEMMA ClaimSums ==
  ASSUME IInv, SumInv, NEW t \in Threads, ClaimStep(t)
  PROVE  SumInv'
<1> USE DEF IInv
<1>1. UNCHANGED <<req, built, out, summary, flags, elfs, phase, failed>>
  BY ClaimMoves DEF fixed, shared
<1>2. /\ \A u \in Threads \ {t} : pc'[u] = pc[u] /\ task'[u] = task[u]
      /\ pc'[t] \notin Building \cup {"clone"} \cup Outside
      /\ phase = "loop" /\ pc[Main] \notin {"idle", "read", "return"}
      /\ (t = Main => pc[Main] \in {"start", "switch"})
  BY ClaimMoves DEF Building, Outside
<1>3. \/ pc'[Main] = pc[Main] /\ (pc[Main] = "read" => task'[Main] = task[Main])
      \/ pc[Main] \notin Outside /\ pc'[Main] \notin Outside /\ phase = "loop"
  BY <1>2 DEF Threads, Outside
<1>4. \A u \in Threads : pc'[u] \in Building \cup {"clone"} => pc'[u] = pc[u] /\ task'[u] = task[u]
  BY <1>2
<1>5. ASSUME NEW i \in 1..N, i < next', i \notin open', ~failed'
      PROVE  i < next /\ i \notin open /\ ~failed
  <2>1. N \in Nat /\ next \in Nat
    BY <1>2, RequestFacts DEF ClaimInv, PlaceInv
  <2>2. \/ next' = next + 1 /\ open' = open \cup {next}
        \/ UNCHANGED <<next, open>>
    BY ClaimMoves
  <2> QED
    BY <1>1, <1>5, <2>1, <2>2
<1> QED
  BY <1>1, <1>3, <1>4, <1>5, StillKeeps

LEMMA WakeSums ==
  ASSUME IInv, SumInv, WakeStep
  PROVE  SumInv'
<1> USE DEF IInv
<1>1. UNCHANGED <<req, built, out, summary, flags, elfs, phase, task, next, open, failed>>
  BY WakeMoves DEF fixed, claims, shared
<1>2. \A u \in Threads : \/ pc'[u] = pc[u]
                         \/ pc'[u] \in {"gate", "create", "wait"} /\ pc[u] \in {"asleep", "notify", "notifyLast"}
  <2>1. \A u \in Threads : Woken(u)
    BY WakeMoves
  <2> QED
    BY <2>1 DEF Woken
<1>3. \/ pc'[Main] = pc[Main] /\ (pc[Main] = "read" => task'[Main] = task[Main])
      \/ pc[Main] \notin Outside /\ pc'[Main] \notin Outside /\ phase = "loop"
  BY <1>1, <1>2 DEF Threads, Outside, PlaceInv, Building
<1>4. \A u \in Threads : pc'[u] \in Building \cup {"clone"} => pc'[u] = pc[u] /\ task'[u] = task[u]
  BY <1>1, <1>2 DEF Building
<1> QED
  BY <1>1, <1>3, <1>4, StillKeeps

-----------------------------------------------------------------------------
(* After the loop *)

LEMMA EndSums ==
  ASSUME IInv, SumInv, EndStep
  PROVE  SumInv'
<1> USE DEF IInv, SumInv
<1>1. /\ UNCHANGED <<req, built, out, next, open, flags, failed, elfs>>
      /\ open = {} /\ pc[Main] \in {"wait", "built"} /\ (pc[Main] = "wait" <=> phase = "loop")
      /\ pc'[Main] \in {"fail", "lower", "return"}
      /\ \A h \in Helpers : pc'[h] = pc[h]
  BY EndMoves
<1>2. R' = R /\ N' = N /\ Tasks' = Tasks /\ req \in DOMAIN Requests
  BY <1>1, SameRequest DEF PlaceInv
<1>3. /\ summary'.traces = summary.traces /\ summary'.set = summary.set
      /\ summary'.unset = summary.unset /\ summary'.vgprs = summary.vgprs
      /\ summary'.state = summary.state /\ summary'.traceModule = summary.traceModule
  BY DEF EndStep, Wait, TraversalBuilt, EntryBuilt, LockInv, Fields, shared
<1>4. \A t \in Threads : ~HasTask(t)' /\ (t # Main => pc'[t] \notin Claiming)
  <2>1. \A h \in Helpers : pc'[h] \notin Claiming
    BY <1>1, Quiet
  <2>2. pc'[Main] \in Claiming => phase' # "loop"
    BY EndMoves DEF Claiming, InTask, AtGate, Building
  <2> QED
    BY <2>1, <2>2 DEF HasTask, Threads
<1>5. WorkInv'
  BY <1>1, <1>4 DEF WorkInv, Claiming, InTask, AtGate, Building
<1>6. BuiltInv'
  BY <1>1 DEF BuiltInv
<1>7. SummaryComplete' /\ OutputComplete'
  <2>1. out.result # "Success"
    BY <1>1 DEF OutInv
  <2> QED
    BY <1>1, <2>1 DEF SummaryComplete, OutputComplete
<1>8. FlagInv'
  <2>1. ReadSoFar' = ReadSoFar
    BY <1>1, <1>2, SameSums DEF ReadSoFar
  <2> QED
    BY <1>1, <1>3, <2>1 DEF FlagInv
<1>9. VgprsOfAll' = VgprsOfAll
  BY <1>1, <1>3, SameSums DEF VgprsOfAll
<1>10. MergeInv'
  <2>1. Top' = Top /\ NeedTraversal(summary)' = NeedTraversal(summary)
    BY <1>1, <1>2, <1>3, SameSums DEF Top, NeedTraversal
  <2> QED
    BY <1>1, <1>3, <1>9, <2>1 DEF MergeInv
<1>11. ElfInv'
  <2>1. \A i \in 1..N : HasState(i)' = HasState(i) /\ HasVgprs(i)' = HasVgprs(i) /\ HasElf(i)' = HasElf(i)
    BY <1>1, <1>2, <1>3 DEF HasState, HasVgprs, HasElf
  <2> QED
    BY <1>1, <1>2, <1>4, <2>1 DEF ElfInv
<1>12. TraversalRight' = TraversalRight /\ EntryRight' = EntryRight
  BY <1>1, <1>2, <1>9, SameSums DEF TraversalRight, EntryRight
<1>13. pc = [t \in Threads |-> pc[t]] /\ Main \in Threads
  BY DEF PlaceInv, Threads
<1>14. CASE Wait
  <2>1. \/ phase' = "loop"
        \/ phase' = "traversal" /\ summary.traceModule /\ pc'[Main] = "lower"
        \/ phase' = "entry" /\ ~summary.traceModule /\ pc'[Main] = IF R.library THEN "return" ELSE "lower"
    BY <1>1, <1>13, <1>14 DEF Wait, Goto
  <2>2. LastInv'
    BY <1>2, <1>3, <2>1 DEF LastInv, Generated
  <2> QED
    BY <1>5, <1>6, <1>7, <1>8, <1>10, <1>11, <2>2
<1>15. CASE TraversalBuilt
  <2>1. phase = "traversal" /\ phase' = "entry" /\ pc[Main] = "built" /\ pc'[Main] = "lower"
    BY <1>13, <1>15 DEF TraversalBuilt, Goto
  <2>2. ~R.library
    BY <2>1 DEF LastInv, MergeInv, NeedTraversal
  <2>3. LastInv'
    BY <1>1, <1>2, <1>3, <1>12, <2>1, <2>2 DEF LastInv, Generated
  <2> QED
    BY <1>5, <1>6, <1>7, <1>8, <1>10, <1>11, <2>3
<1>16. CASE EntryBuilt
  <2>1. phase = "entry" /\ phase' = "entry" /\ pc[Main] = "built" /\ pc'[Main] = "return"
    BY <1>13, <1>16 DEF EntryBuilt, Goto
  <2>2. LastInv'
    BY <1>1, <1>2, <1>3, <1>12, <2>1 DEF LastInv, Generated
  <2> QED
    BY <1>5, <1>6, <1>7, <1>8, <1>10, <1>11, <2>2
<1> QED
  BY <1>14, <1>15, <1>16 DEF EndStep

-----------------------------------------------------------------------------
(* A build begins *)

(* What the libraries of a request come to. *)
LEMMA LibraryFacts ==
  ASSUME BuiltInv, NEW r \in DOMAIN Requests, Requests[r].libs \subseteq DOMAIN built
  PROVE  LET s == LibrarySummary(r) IN
         /\ s.traces = Trace(LibShaders(r))
         /\ s.set = SetIn(LibShaders(r)) /\ s.unset = UnsetIn(LibShaders(r))
         /\ s.vgprs \in Nat
         /\ Cps(r) => LibShaders(r) \subseteq s.state
         /\ Dvgpr(r) => IsMax(s.vgprs, VgprsIn(LibShaders(r)))
<1> DEFINE L == Requests[r].libs
           s == Together(L)
<1>1. IsFiniteSet(L) /\ \A l \in L : l \in DOMAIN built /\ IsSummary(built[l]) /\ l \in DOMAIN Requests
  BY LinkingAssumption DEF BuiltInv
<1>2. LibrarySummary(r) = s
  BY <1>1, LibrarySummaryIs
<1>3. /\ s.traces = (\E l \in L : built[l].traces)
      /\ s.set = {b \in FlagBits : \A l \in L : built[l].traces => b \in built[l].set}
      /\ s.unset = {b \in FlagBits : \A l \in L : built[l].traces => b \in built[l].unset}
      /\ s.state = UNION {built[l].state : l \in L}
  BY DEF Together
<1>4. s.vgprs \in Nat /\ IsMax(s.vgprs, {0} \cup {built[l].vgprs : l \in L})
  BY <1>1, TogetherVgprs
<1> HIDE DEF s
<1>5. \A l \in L : /\ built[l].traces <=> Trace(AllShaders(l))
                   /\ built[l].traces => built[l].set = SetIn(AllShaders(l)) /\ built[l].unset = UnsetIn(AllShaders(l))
                   /\ Cps(l) => AllShaders(l) \subseteq built[l].state
                   /\ Requests[l].library /\ Dvgpr(l) => IsMax(built[l].vgprs, VgprsIn(AllShaders(l)))
  BY <1>1 DEF BuiltInv
<1>6. s.traces = Trace(LibShaders(r))
  BY <1>3, <1>5 DEF Trace, LibShaders
<1>7. s.set = SetIn(LibShaders(r))
  <2>1. ASSUME NEW b \in FlagBits
        PROVE  (\A l \in L : built[l].traces => b \in built[l].set)
                 <=> (\A x \in LibShaders(r) : Shader[x].traces => b \in Shader[x].set)
    <3>1. ASSUME NEW l \in L
          PROVE  (built[l].traces => b \in built[l].set)
                   <=> (\A x \in AllShaders(l) : Shader[x].traces => b \in Shader[x].set)
      BY <1>5 DEF Trace, SetIn
    <3> QED
      BY <3>1 DEF LibShaders
  <2> QED
    BY <1>3, <2>1 DEF SetIn
<1>8. s.unset = UnsetIn(LibShaders(r))
  <2>1. ASSUME NEW b \in FlagBits
        PROVE  (\A l \in L : built[l].traces => b \in built[l].unset)
                 <=> (\A x \in LibShaders(r) : Shader[x].traces => b \in Shader[x].unset)
    <3>1. ASSUME NEW l \in L
          PROVE  (built[l].traces => b \in built[l].unset)
                   <=> (\A x \in AllShaders(l) : Shader[x].traces => b \in Shader[x].unset)
      BY <1>5 DEF Trace, UnsetIn
    <3> QED
      BY <3>1 DEF LibShaders
  <2> QED
    BY <1>3, <2>1 DEF UnsetIn
<1>9. \A l \in L : /\ Requests[l].library
                   /\ Cps(r) => Cps(l)
                   /\ Dvgpr(r) => Dvgpr(l)
  BY <1>1, LinkingAssumption, LibrariesAssumption DEF Cps, Dvgpr, Indirect
<1>10. Cps(r) => LibShaders(r) \subseteq s.state
  BY <1>3, <1>5, <1>9 DEF LibShaders
<1>11. ASSUME Dvgpr(r)  PROVE IsMax(s.vgprs, VgprsIn(LibShaders(r)))
  <2>1. \A l \in L : IsMax(built[l].vgprs, VgprsIn(AllShaders(l)))
    BY <1>5, <1>9, <1>11
  <2>2. \A l \in L : VgprsIn(AllShaders(l)) \subseteq VgprsIn(LibShaders(r))
    BY DEF VgprsIn, LibShaders
  <2>3. s.vgprs \in VgprsIn(LibShaders(r))
    BY <1>4, <2>1, <2>2 DEF IsMax, VgprsIn
  <2>4. ASSUME NEW x \in LibShaders(r)  PROVE s.vgprs >= Shader[x].vgprs
    <3>1. PICK l \in L : x \in AllShaders(l)
      BY DEF LibShaders
    <3>2. built[l].vgprs >= Shader[x].vgprs /\ built[l].vgprs \in Nat /\ s.vgprs >= built[l].vgprs
      BY <1>1, <1>4, <2>1, <3>1 DEF IsMax, VgprsIn, IsSummary
    <3>3. Shader[x].vgprs \in Nat
      BY <1>1, <3>1, ShaderFacts
    <3> QED
      BY <1>4, <3>2, <3>3
  <2> QED
    BY <1>4, <2>3, <2>4 DEF IsMax, VgprsIn
<1> QED
  BY <1>2, <1>4, <1>6, <1>7, <1>8, <1>10, <1>11

(* Known bits of some TraceRay calls are never both all set and all unset. *)
LEMMA SomeUnknown ==
  ASSUME NEW X, \A x \in X : Shader[x].set \cap Shader[x].unset = {}
  PROVE  (SetIn(X) # FlagBits \/ UnsetIn(X) # FlagBits) <=> Trace(X)
<1>1. ASSUME Trace(X)  PROVE SetIn(X) # FlagBits \/ UnsetIn(X) # FlagBits
  <2>1. PICK x \in X : Shader[x].traces
    BY <1>1 DEF Trace
  <2>2. SetIn(X) \subseteq Shader[x].set /\ UnsetIn(X) \subseteq Shader[x].unset
    BY <2>1 DEF SetIn, UnsetIn
  <2> QED
    BY <2>2, BitsAssumption
<1>2. ASSUME ~Trace(X)  PROVE SetIn(X) = FlagBits /\ UnsetIn(X) = FlagBits
  BY <1>2 DEF Trace, SetIn, UnsetIn
<1> QED
  BY <1>1, <1>2

LEMMA BeginSums ==
  ASSUME IInv, SumInv, Begin
  PROVE  SumInv'
<1> USE DEF IInv, SumInv
<1> DEFINE r == Head(plan)
           s == LibrarySummary(r)
<1>1. /\ pc[Main] = "idle" /\ plan # <<>> /\ Requests[r].libs \subseteq DOMAIN built
      /\ req' = r /\ UNCHANGED <<built>> /\ out' = NoOut /\ phase' = "loop"
      /\ summary' = [NoSummary EXCEPT !.traces = s.traces \/ \E x \in ShadersOf(r) : Shader[x].traces,
                                      !.set = s.set, !.unset = s.unset,
                                      !.vgprs = s.vgprs, !.state = s.state]
      /\ flags' = IF s.set # FlagBits \/ s.unset # FlagBits
                    THEN Updated(NoFlags, s.set, s.unset) ELSE NoFlags
      /\ task' = [task EXCEPT ![Main] = 1] /\ pc' = [pc EXCEPT ![Main] = "read"]
  BY DEF Begin, Goto
<1>2. r \in DOMAIN Requests
  BY <1>1 DEF PlaceInv
<1>3. /\ s.traces = Trace(LibShaders(r))
      /\ s.set = SetIn(LibShaders(r)) /\ s.unset = UnsetIn(LibShaders(r))
      /\ s.vgprs \in Nat
      /\ Cps(r) => LibShaders(r) \subseteq s.state
      /\ Dvgpr(r) => IsMax(s.vgprs, VgprsIn(LibShaders(r)))
  BY <1>1, <1>2, LibraryFacts
<1> HIDE DEF s, r
<1>4. /\ summary'.traces = (s.traces \/ \E x \in ShadersOf(r) : Shader[x].traces)
      /\ summary'.set = s.set /\ summary'.unset = s.unset
      /\ summary'.vgprs = s.vgprs /\ summary'.state = s.state /\ summary'.traceModule = FALSE
  BY <1>1 DEF NoSummary
<1>5. /\ pc'[Main] = "read" /\ task'[Main] = 1 /\ Main \in Threads
      /\ \A u \in Threads : u # Main => pc'[u] = pc[u]
  BY <1>1 DEF PlaceInv, ClaimInv, Threads
<1>6. AllShaders(r) = LibShaders(r) \cup ShadersOf(r)
      /\ \A x \in LibShaders(r) : Shader[x].set \cap Shader[x].unset = {}
  BY <1>2, ShaderFacts
<1>7. FlagInv'
  <2>1. ReadSoFar' = LibShaders(r)
    <3>1. {j \in 1..N' : pc'[Main] = "read" => j < task'[Main]} = {}
      BY <1>5
    <3> QED
      BY <1>1, <3>1 DEF ReadSoFar
  <2>2. summary'.traces = Trace(AllShaders(r))
    BY <1>3, <1>4, <1>6 DEF Trace
  <2>3. flags' = FlagsOf(LibShaders(r))
    BY <1>1, <1>3, <1>6, SomeUnknown DEF FlagsOf, Updated, NoFlags
  <2> QED
    BY <1>1, <1>3, <1>4, <2>1, <2>2, <2>3 DEF FlagInv
<1>8. MergeInv'
  <2>1. VgprsOfAll' = VgprsIn(AllShaders(r))
    BY <1>1, <1>4 DEF VgprsOfAll
  <2>2. Dvgpr(r) => s.vgprs \in VgprsIn(AllShaders(r)) /\ \A x \in LibShaders(r) : s.vgprs >= Shader[x].vgprs
    BY <1>3, <1>6 DEF IsMax, VgprsIn
  <2> QED
    BY <1>1, <1>3, <1>4, <1>5, <2>1, <2>2 DEF MergeInv
<1>9. ElfInv' /\ LastInv'
  BY <1>1, <1>5 DEF ElfInv, LastInv
<1>10. BuiltInv' /\ SummaryComplete' /\ OutputComplete'
  BY <1>1 DEF BuiltInv, SummaryComplete, OutputComplete, NoOut
<1>11. WorkInv'
  <2>1. \A u \in Threads : pc'[u] \notin Claiming
    BY <1>1, <1>5, Busy DEF Outside, Claiming, InTask, AtGate, Building
  <2> QED
    BY <2>1 DEF WorkInv, Claiming, InTask, AtGate, Building
<1> QED
  BY <1>7, <1>8, <1>9, <1>10, <1>11

(* One more shader is read. *)
LEMMA ReadSums ==
  ASSUME IInv, SumInv, Read
  PROVE  SumInv'
<1> USE DEF IInv, SumInv
<1> DEFINE i == task[Main]
           x == R.shaders[i]
<1>1. /\ pc[Main] = "read" /\ i <= N /\ i \in Nat
      /\ flags' = IF Shader[x].traces THEN Updated(flags, Shader[x].set, Shader[x].unset) ELSE flags
      /\ task' = [task EXCEPT ![Main] = i + 1]
      /\ UNCHANGED <<req, built, out, summary, pc, next, open, failed, elfs, phase>>
  BY DEF Read, fixed, shared, ClaimInv, Threads
<1>2. R' = R /\ N' = N /\ Tasks' = Tasks /\ req \in DOMAIN Requests /\ N \in Nat /\ i >= 1
  BY <1>1, SameRequest, RequestFacts DEF PlaceInv, FoundInv
<1>3. task'[Main] = i + 1 /\ \A u \in Threads : u # Main => task'[u] = task[u]
  BY <1>1 DEF ClaimInv, Threads
<1>4. x \in AllShaders(req) /\ Shader[x].set \subseteq FlagBits /\ Shader[x].unset \subseteq FlagBits
  BY <1>1, <1>2, OwnShaders, ShaderFacts
<1>5. ReadSoFar' = ReadSoFar \cup {x}
  <2>1. {j \in 1..N : j < task'[Main]} = {j \in 1..N : j < task[Main]} \cup {i}
    BY <1>1, <1>2, <1>3
  <2>2. ReadSoFar' = LibShaders(req) \cup {R.shaders[j] : j \in {j \in 1..N : j < task'[Main]}}
    BY <1>1, <1>2, SameSums DEF ReadSoFar
  <2>3. ReadSoFar = LibShaders(req) \cup {R.shaders[j] : j \in {j \in 1..N : j < task[Main]}}
    BY <1>1 DEF ReadSoFar
  <2> QED
    BY <2>1, <2>2, <2>3
<1> HIDE DEF x
<1>6. flags' = FlagsOf(ReadSoFar \cup {x})
  <2>1. flags = FlagsOf(ReadSoFar)
    BY <1>1 DEF FlagInv
  <2>2. CASE ~Shader[x].traces
    <3>1. /\ Trace(ReadSoFar \cup {x}) <=> Trace(ReadSoFar)
          /\ SetIn(ReadSoFar \cup {x}) = SetIn(ReadSoFar)
          /\ UnsetIn(ReadSoFar \cup {x}) = UnsetIn(ReadSoFar)
      BY <2>2 DEF Trace, SetIn, UnsetIn
    <3> QED
      BY <1>1, <2>1, <2>2, <3>1 DEF FlagsOf
  <2>3. CASE Shader[x].traces
    <3>1. /\ Trace(ReadSoFar \cup {x})
          /\ SetIn(ReadSoFar \cup {x}) = SetIn(ReadSoFar) \cap Shader[x].set
          /\ UnsetIn(ReadSoFar \cup {x}) = UnsetIn(ReadSoFar) \cap Shader[x].unset
      BY <1>4, <2>3 DEF Trace, SetIn, UnsetIn
    <3>2. ~Trace(ReadSoFar) => SetIn(ReadSoFar) = FlagBits /\ UnsetIn(ReadSoFar) = FlagBits
      BY DEF Trace, SetIn, UnsetIn
    <3>3. FlagBits \cap Shader[x].set = Shader[x].set /\ FlagBits \cap Shader[x].unset = Shader[x].unset
      BY <1>4
    <3>4. FlagsOf(ReadSoFar \cup {x}) = [known |-> TRUE, set |-> SetIn(ReadSoFar) \cap Shader[x].set,
                                         unset |-> UnsetIn(ReadSoFar) \cap Shader[x].unset]
      BY <3>1 DEF FlagsOf
    <3>5. flags' = Updated(flags, Shader[x].set, Shader[x].unset)
      BY <1>1, <2>3
    <3>6. CASE Trace(ReadSoFar)
      <4>1. flags = [known |-> TRUE, set |-> SetIn(ReadSoFar), unset |-> UnsetIn(ReadSoFar)]
        BY <2>1, <3>6 DEF FlagsOf
      <4>2. ASSUME NEW A, NEW B, NEW C, NEW D
            PROVE  Updated([known |-> TRUE, set |-> A, unset |-> B], C, D)
                     = [known |-> TRUE, set |-> A \cap C, unset |-> B \cap D]
        <5>1. Updated([known |-> TRUE, set |-> A, unset |-> B], C, D)
                = [[known |-> TRUE, set |-> A, unset |-> B] EXCEPT !.set = @ \cap C, !.unset = @ \cap D]
          BY DEF Updated
        <5> QED
          BY <5>1
      <4> QED
        BY <3>4, <3>5, <4>1, <4>2
    <3>7. CASE ~Trace(ReadSoFar)
      BY <2>1, <3>2, <3>3, <3>4, <3>5, <3>7 DEF Updated, FlagsOf, NoFlags
    <3> QED
      BY <3>6, <3>7
  <2> QED
    BY <2>2, <2>3
<1>7. FlagInv'
  BY <1>1, <1>5, <1>6 DEF FlagInv
<1>8. MergeInv'
  <2>1. VgprsOfAll' = VgprsOfAll
    BY <1>1, SameSums DEF VgprsOfAll
  <2> QED
    BY <1>1, <2>1 DEF MergeInv
<1>9. ElfInv'
  BY <1>1 DEF ElfInv
<1>10. phase = "loop"
  BY <1>1 DEF PlaceInv, Building
<1>11. LastInv'
  BY <1>1, <1>10 DEF LastInv
<1>12. BuiltInv' /\ SummaryComplete' /\ OutputComplete'
  BY <1>1, SameResult DEF BuiltInv
<1>13. WorkInv'
  <2>1. \A u \in Threads : pc'[u] \notin Claiming
    BY <1>1, Busy DEF Outside, Claiming, InTask, AtGate, Building
  <2> QED
    BY <2>1 DEF WorkInv, Claiming, InTask, AtGate, Building
<1> QED
  BY <1>7, <1>8, <1>9, <1>11, <1>12, <1>13

(* All are read: the modules of the loop get their places. *)
LEMMA LowerSums ==
  ASSUME IInv, SumInv, Lower
  PROVE  SumInv'
<1> USE DEF IInv, SumInv
<1>1. /\ pc[Main] = "read" /\ task[Main] > N /\ task[Main] \in Nat
      /\ summary' = IF Indirect(req) /\ NeedTraversal(summary) THEN [summary EXCEPT !.traceModule = TRUE]
                                                                ELSE summary
      /\ elfs' = [j \in 0..Tasks - 1 + (IF summary'.traceModule THEN 1 ELSE 0) |-> <<>>]
      /\ next' = 0 /\ UNCHANGED <<req, built, out, flags, task, phase>>
  BY DEF Lower, fixed, ClaimInv, Threads
<1>2. R' = R /\ N' = N /\ Tasks' = Tasks /\ req \in DOMAIN Requests /\ N \in Nat
  BY <1>1, SameRequest, RequestFacts DEF PlaceInv
<1>3. pc'[Main] = "start" /\ \A u \in Threads : pc'[u] \notin Claiming
  <2>1. \A u \in Threads : pc[u] \notin Claiming
    BY <1>1, Busy DEF Outside
  <2> QED
    BY <2>1 DEF Lower, Threads, Claiming, InTask, AtGate, Building
<1>4. /\ summary'.traces = summary.traces /\ summary'.set = summary.set
      /\ summary'.unset = summary.unset /\ summary'.vgprs = summary.vgprs
      /\ summary'.state = summary.state
      /\ summary'.traceModule = (Indirect(req) /\ NeedTraversal(summary))
  BY <1>1 DEF LockInv, Fields, MergeInv
<1>5. NeedTraversal(summary)' = NeedTraversal(summary)
  BY <1>1, <1>2, <1>4 DEF NeedTraversal
<1>6. FlagInv'
  <2>1. ReadSoFar' = ReadSoFar
    <3>1. {j \in 1..N : pc'[Main] = "read" => j < task'[Main]} = {j \in 1..N : pc[Main] = "read" => j < task[Main]}
      BY <1>1, <1>2, <1>3
    <3> QED
      BY <1>1, <1>2, <3>1, SameSums DEF ReadSoFar
  <2> QED
    BY <1>1, <1>4, <2>1 DEF FlagInv
<1>7. MergeInv'
  <2>1. VgprsOfAll \subseteq VgprsOfAll'
    BY <1>1, <1>4, SameSums DEF VgprsOfAll, MergeInv
  <2>2. elfs' = [j \in 0..Top' |-> elfs'[j]]
    <3>1. elfs' = [j \in 0..Top' |-> <<>>]
      BY <1>1, <1>2 DEF Top
    <3> QED
      BY <3>1
  <2>3. /\ Cps(req) => LibShaders(req) \subseteq summary'.state
        /\ Dvgpr(req) => /\ summary'.vgprs \in VgprsOfAll'
                         /\ \A x \in LibShaders(req) : summary'.vgprs >= Shader[x].vgprs
        /\ summary'.vgprs \in Nat
    BY <1>1, <1>4, <2>1 DEF MergeInv
  <2>4. summary'.traceModule = (pc'[Main] # "read" /\ Indirect(req) /\ NeedTraversal(summary)')
    BY <1>3, <1>4, <1>5
  <2>5. LibShaders(req)' = LibShaders(req) /\ Cps(req)' = Cps(req) /\ Dvgpr(req)' = Dvgpr(req)
        /\ Indirect(req)' = Indirect(req)
    BY <1>1
  <2> QED
    BY <2>2, <2>3, <2>4, <2>5 DEF MergeInv
<1>8. ElfInv'
  BY <1>1, <1>2, <1>3 DEF ElfInv, HasTask
<1>9. phase = "loop"
  BY <1>1 DEF PlaceInv, Building
<1>10. LastInv'
  BY <1>1, <1>9 DEF LastInv
<1>11. BuiltInv'
  BY <1>1 DEF BuiltInv
<1>12. SummaryComplete' /\ OutputComplete'
  <2>1. out.result # "Success"
    BY <1>1 DEF OutInv
  <2> QED
    BY <1>1, <2>1 DEF SummaryComplete, OutputComplete
<1>13. WorkInv'
  BY <1>3 DEF WorkInv, Claiming, InTask, AtGate, Building
<1> QED
  BY <1>6, <1>7, <1>8, <1>10, <1>11, <1>12, <1>13

-----------------------------------------------------------------------------
(* A build returns *)

(* What a success finds: the places of the ELFs, each with its own. *)
LEMMA ReturnFacts ==
  ASSUME IInv, SumInv, pc[Main] = "return"
  PROVE  /\ phase = "entry" /\ req \in DOMAIN Requests /\ N \in Nat
         /\ Top \in Nat /\ Cardinality(DOMAIN elfs) = Top + 1
         /\ Indirect(req) /\ summary.traceModule => Top = N + 1
         /\ Indirect(req) /\ ~summary.traceModule => Top = N
         /\ ~Indirect(req) => Top = 0
         /\ summary.traceModule <=> Indirect(req) /\ ~R.library /\ (Tracing(req) # {} \/ (Cps(req) /\ R.persistent))
         /\ R.library => Indirect(req)
         /\ R.shaders \in Seq(DOMAIN Shader)
         /\ ~R.library => EntryRight
         /\ summary.traceModule => TraversalRight /\ Tasks = N + 1 /\ Top = N + 1
         /\ Indirect(req) => \A i \in 1..N : elfs[i] = <<R.shaders[i]>>
<1> USE DEF IInv, SumInv
<1>1. phase = "entry" /\ req \in DOMAIN Requests
  BY DEF FoundInv, PlaceInv
<1>2. N \in Nat /\ Tasks = (IF Indirect(req) THEN N + 1 ELSE 1) /\ R.shaders \in Seq(DOMAIN Shader)
  BY <1>1, RequestFacts, RequestsAssumption DEF Tasks, R
<1>3. /\ summary.traceModule = (Indirect(req) /\ NeedTraversal(summary))
      /\ elfs = [i \in 0..Top |-> elfs[i]] /\ summary.traces = Trace(AllShaders(req))
  BY DEF MergeInv, FlagInv
<1>4. Tracing(req) # {} <=> Trace(AllShaders(req))
  BY DEF Tracing, Trace
<1>5. summary.traceModule <=> Indirect(req) /\ ~R.library /\ (Tracing(req) # {} \/ (Cps(req) /\ R.persistent))
  BY <1>3, <1>4 DEF NeedTraversal
<1>6. /\ Indirect(req) /\ summary.traceModule => Top = N + 1
      /\ Indirect(req) /\ ~summary.traceModule => Top = N
      /\ ~Indirect(req) => Top = 0
      /\ Top \in Nat
  BY <1>2, <1>5 DEF Top
<1>7. Cardinality(DOMAIN elfs) = Top + 1
  <2>1. DOMAIN elfs = 0..Top
    BY <1>3
  <2> QED
    BY <1>6, <2>1, FS_Interval
<1>8. R.library => Indirect(req)
  BY <1>1, LibrariesAssumption DEF R, Indirect
<1>9. (~R.library => EntryRight) /\ (summary.traceModule => TraversalRight)
  BY <1>1 DEF LastInv
<1>10. Indirect(req) => \A i \in 1..N : elfs[i] = <<R.shaders[i]>>
  BY <1>1, AllDone DEF HasElf
<1> QED
  BY <1>1, <1>2, <1>5, <1>6, <1>7, <1>8, <1>9, <1>10

(* The ELFs and the properties that are returned. *)
LEMMA ReturnsComplete ==
  ASSUME IInv, SumInv, Return, out'.result = "Success"
  PROVE  OutputComplete'
<1> DEFINE first == IF R.library THEN 0 ELSE 1
           last == IF summary.traceModule THEN <<"traversal">> ELSE <<>>
           modules == IF Indirect(req) THEN R.shaders \o last ELSE <<>>
           E == [i \in 1..Top + first |-> elfs[i - first]]
           P == [i \in 1..Top |-> ModuleAt(i)]
<1>1. /\ pc[Main] = "return" /\ UNCHANGED req
      /\ out' = [result |-> "Success", elfs |-> Elfs, props |-> Props]
  BY DEF Return, NoOut
<1>2. /\ N = Len(R.shaders) /\ R.shaders \in Seq(DOMAIN Shader) /\ req \in DOMAIN Requests
      /\ Indirect(req) /\ summary.traceModule => Top = N + 1
      /\ Indirect(req) /\ ~summary.traceModule => Top = N
      /\ ~Indirect(req) => Top = 0
      /\ summary.traceModule <=> Indirect(req) /\ ~R.library /\ (Tracing(req) # {} \/ (Cps(req) /\ R.persistent))
      /\ R.library => Indirect(req)
  BY <1>1, ReturnFacts DEF N
<1>n. N \in Nat /\ Top \in Nat
  BY <1>1, ReturnFacts
<1> HIDE DEF first
<1>0. first \in {0, 1} /\ (R.library <=> first = 0)
  BY DEF first
<1>3. Elfs = E /\ Props = P
  <2>1. Cardinality(DOMAIN elfs) = Top + 1
    BY <1>1, ReturnFacts
  <2>2. Props = P
    BY <1>2, <1>n, <2>1 DEF Props
  <2>3. CASE R.library
    <3>1. Elfs = [i \in 1..Top |-> elfs[i]]
      BY <1>2, <1>n, <2>1, <2>3 DEF Elfs
    <3>2. \A i \in 1..Top : i - first = i
      BY <1>0, <1>2, <1>n, <2>3
    <3> QED
      BY <1>0, <1>2, <1>n, <2>2, <2>3, <3>1, <3>2
  <2>4. CASE ~R.library
    <3>1. Elfs = [i \in 1..Top + 1 |-> elfs[i - 1]]
      BY <1>2, <1>n, <2>1, <2>4 DEF Elfs
    <3> QED
      BY <1>0, <2>2, <2>4, <3>1
  <2> QED
    BY <2>3, <2>4
<1>4. /\ last \in Seq({"traversal"}) /\ Len(last) = (IF summary.traceModule THEN 1 ELSE 0)
      /\ summary.traceModule => last[1] = "traversal"
  <2>1. CASE summary.traceModule
    BY <2>1
  <2>2. CASE ~summary.traceModule
    BY <2>2
  <2> QED
    BY <2>1, <2>2
<1>5. /\ Len(modules) = Top /\ modules \in Seq(DOMAIN Shader \cup {"traversal"})
      /\ \A i \in 1..Top : modules[i] = (IF i <= N THEN R.shaders[i] ELSE "traversal")
      /\ \A i \in 1..Top : i <= N \/ summary.traceModule
      /\ Top > 0 => Indirect(req)
  <2> HIDE DEF last
  <2>1. CASE Indirect(req)
    <3>1. modules = R.shaders \o last
      BY <2>1
    <3>2. last \in Seq(DOMAIN Shader \cup {"traversal"}) /\ R.shaders \in Seq(DOMAIN Shader \cup {"traversal"})
      BY <1>2, <1>n, <1>4
    <3>3. Len(R.shaders \o last) = N + Len(last)
          /\ R.shaders \o last \in Seq(DOMAIN Shader \cup {"traversal"})
          /\ \A i \in 1..N + Len(last) : (R.shaders \o last)[i] = IF i <= N THEN R.shaders[i] ELSE last[i - N]
      BY <1>2, <1>n, <3>2
    <3> HIDE DEF modules
    <3>4. Len(last) \in {0, 1} /\ Top = N + Len(last) /\ (Len(last) = 1 <=> summary.traceModule)
      <4>1. CASE summary.traceModule
        BY <1>2, <1>n, <1>4, <2>1, <4>1
      <4>2. CASE ~summary.traceModule
        BY <1>2, <1>n, <1>4, <2>1, <4>2
      <4> QED
        BY <4>1, <4>2
    <3>5. \A i \in 1..Top : i <= N \/ (i - N = 1 /\ Len(last) = 1)
      BY <1>2, <1>n, <3>4
    <3>6. ASSUME NEW i \in 1..Top  PROVE modules[i] = IF i <= N THEN R.shaders[i] ELSE "traversal"
      <4>1. CASE i <= N
        BY <3>1, <3>3, <3>4, <4>1
      <4>2. CASE ~(i <= N)
        <5>1. i - N = 1 /\ last[1] = "traversal"
          BY <1>4, <3>4, <3>5, <4>2
        <5>2. modules[i] = last[i - N]
          BY <3>1, <3>3, <3>4, <4>2
        <5> QED
          BY <4>2, <5>1, <5>2
      <4> QED
        BY <4>1, <4>2
    <3> QED
      BY <2>1, <3>1, <3>3, <3>4, <3>5, <3>6
  <2>2. CASE ~Indirect(req)
    <3>1. Top = 0 /\ modules = <<>>
      BY <1>2, <1>n, <2>2
    <3> HIDE DEF modules
    <3> QED
      BY <3>1
  <2> QED
    BY <2>1, <2>2
<1> HIDE DEF modules
<1>6. P = modules
  <2>1. ASSUME NEW i \in 1..Top  PROVE ModuleAt(i) = modules[i]
    <3>1. CASE i <= N
      <4>1. i \in 1..N /\ i # 0
        BY <1>2, <1>n, <3>1
      <4> QED
        BY <1>5, <3>1, <4>1 DEF ModuleAt
    <3>2. CASE ~(i <= N)
      <4>1. i \notin 1..N /\ i # 0
        BY <1>2, <1>n, <3>2
      <4> QED
        BY <1>5, <3>2, <4>1 DEF ModuleAt
    <3> QED
      BY <3>1, <3>2
  <2>2. modules = [i \in 1..Top |-> modules[i]]
    BY <1>2, <1>n, <1>5
  <2> QED
    BY <2>1, <2>2
<1>7. Len(E) = Len(modules) + first
  <2>1. Top + first \in Nat
    BY <1>0, <1>2, <1>n
  <2>2. Len(E) = Top + first
    BY <2>1
  <2> QED
    BY <1>5, <2>2
<1>8. ASSUME NEW i \in 1..Len(modules)  PROVE E[i + first] # <<>> /\ E[i + first][1] = modules[i]
  <2>1. i \in 1..Top /\ i \in Int /\ Indirect(req)
    BY <1>2, <1>n, <1>5
  <2>2. i + first \in 1..Top + first /\ (i + first) - first = i
    BY <1>0, <1>2, <1>n, <2>1
  <2>3. E[i + first] = elfs[i]
    BY <2>2
  <2>4. CASE i <= N
    <3>1. i \in 1..N
      BY <1>2, <1>n, <2>1, <2>4
    <3>2. elfs[i] = <<R.shaders[i]>>
      BY <1>1, <2>1, <3>1, ReturnFacts
    <3>3. modules[i] = R.shaders[i]
      BY <1>5, <2>1, <2>4
    <3>4. E[i + first] = <<modules[i]>>
      BY <2>3, <3>2, <3>3, Zenon
    <3>5. ASSUME NEW e, NEW m, e = <<m>>  PROVE e # <<>> /\ e[1] = m
      BY <3>5
    <3> HIDE DEF E
    <3> QED
      BY <3>4, <3>5, Zenon
  <2>5. CASE ~(i <= N)
    <3>1. summary.traceModule
      BY <1>5, <2>1, <2>5
    <3>2. TraversalRight /\ Tasks = N + 1 /\ Top = N + 1
      BY <1>1, <3>1, ReturnFacts
    <3>3. i = Tasks
      BY <1>2, <1>n, <2>1, <2>5, <3>2
    <3>4. elfs[i] # <<>> /\ elfs[i][1] = "traversal"
      BY <3>2, <3>3 DEF TraversalRight
    <3> QED
      BY <1>5, <2>1, <2>3, <2>5, <3>4
  <2> QED
    BY <2>4, <2>5
<1>9. ~R.library => E[1][1] = "entry"
  <2>1. ~R.library => 1 \in 1..Top + first /\ 1 - first = 0 /\ EntryRight
    BY <1>0, <1>1, <1>2, <1>n, ReturnFacts
  <2> QED
    BY <2>1 DEF EntryRight
<1> HIDE DEF E, P
<1>10. modules = IF ~Indirect(req) THEN <<>>
                 ELSE R.shaders \o (IF ~R.library /\ (Tracing(req) # {} \/ (Cps(req) /\ R.persistent))
                                      THEN <<"traversal">> ELSE <<>>)
  BY <1>2, <1>n DEF modules
<1>11. R' = R
  BY <1>1, SameRequest
<1>12. out'.props = modules /\ out'.elfs = E
  BY <1>1, <1>3, <1>6
<1>13. first = IF R'.library THEN 0 ELSE 1
  BY <1>11 DEF first
<1>14. modules = IF ~Indirect(req') THEN <<>>
                 ELSE R'.shaders \o (IF ~R'.library /\ (Tracing(req') # {} \/ (Cps(req') /\ R'.persistent))
                                       THEN <<"traversal">> ELSE <<>>)
  BY <1>1, <1>10, <1>11
<1>15. /\ Len(out'.elfs) = Len(modules) + first
       /\ \A i \in 1..Len(modules) : out'.elfs[i + first] # <<>> /\ out'.elfs[i + first][1] = modules[i]
       /\ ~R'.library => out'.elfs[1][1] = "entry"
  BY <1>7, <1>8, <1>9, <1>11, <1>12
<1> QED
  BY <1>12, <1>13, <1>14, <1>15, ZenonT(60) DEF OutputComplete

(* The traversal module and the entry are the only ones named so. *)
LEMMA ReturnsSummary ==
  ASSUME IInv, SumInv, Return, out'.result = "Success"
  PROVE  SummaryComplete'
<1> DEFINE first == IF R.library THEN 0 ELSE 1
<1>1. /\ pc[Main] = "return" /\ UNCHANGED <<req, summary>>
      /\ out' = [result |-> "Success", elfs |-> Elfs, props |-> Props]
  BY DEF Return, NoOut, shared
<1>2. /\ N \in Nat /\ Top \in Nat /\ req \in DOMAIN Requests
      /\ Cardinality(DOMAIN elfs) = Top + 1 /\ R.shaders \in Seq(DOMAIN Shader) /\ N = Len(R.shaders)
  BY <1>1, ReturnFacts DEF N
<1> HIDE DEF first
<1>3. first \in {0, 1} /\ (R.library <=> first = 0)
  BY DEF first
<1>4. /\ DOMAIN out'.elfs = 1..Top + first
      /\ \A i \in 1..Top + first : out'.elfs[i] = elfs[i - first]
  <2>1. CASE R.library
    <3>1. Elfs = [i \in 1..Top |-> elfs[i]]
      BY <1>2, <2>1 DEF Elfs
    <3>2. \A i \in 1..Top : i - first = i
      BY <1>2, <1>3, <2>1
    <3> QED
      BY <1>1, <1>2, <1>3, <2>1, <3>1, <3>2
  <2>2. CASE ~R.library
    <3>1. Elfs = [i \in 1..Top + 1 |-> elfs[i - 1]]
      BY <1>2, <2>2 DEF Elfs
    <3> QED
      BY <1>1, <1>2, <1>3, <2>2, <3>1
  <2> QED
    BY <2>1, <2>2
<1>5. /\ FlagsOf(AllShaders(req)).set
           = {b \in FlagBits : Tracing(req) # {} /\ \A x \in Tracing(req) : b \in Shader[x].set}
      /\ FlagsOf(AllShaders(req)).unset
           = {b \in FlagBits : Tracing(req) # {} /\ \A x \in Tracing(req) : b \in Shader[x].unset}
  <2>1. CASE Trace(AllShaders(req))
    BY <2>1 DEF FlagsOf, Trace, Tracing, SetIn, UnsetIn
  <2>2. CASE ~Trace(AllShaders(req))
    BY <2>2 DEF FlagsOf, NoFlags, Trace, Tracing
  <2> QED
    BY <2>1, <2>2
<1>6. {0} \cup {Shader[x].vgprs : x \in AllShaders(req)} \cup (IF summary.traceModule THEN {1} ELSE {}) = VgprsOfAll
  BY DEF VgprsOfAll, VgprsIn
<1>7. VgprsOfAll \in SUBSET Nat
  BY <1>2, ShaderFacts DEF VgprsOfAll, VgprsIn
<1>8. ASSUME NEW i \in DOMAIN out'.elfs, NEW e, e = out'.elfs[i]
      PROVE  /\ e[1] = "traversal" => /\ Cps(req) => AllShaders(req) \subseteq e[2]
                                      /\ e[3] = FlagsOf(AllShaders(req)).set
                                      /\ e[4] = FlagsOf(AllShaders(req)).unset
             /\ e[1] = "entry" /\ Dvgpr(req) => e[3] = Max(VgprsOfAll)
  <2> DEFINE j == i - first
  <2>1. i \in 1..Top + first /\ e = elfs[j] /\ j \in 0..Top /\ (j = 0 => ~R.library)
    BY <1>2, <1>3, <1>4, <1>8
  <2> HIDE DEF j
  <2>2. CASE j = 0
    <3>1. EntryRight
      BY <1>1, <2>1, <2>2, ReturnFacts
    <3>2. e[1] = "entry" /\ (Dvgpr(req) => IsMax(e[3], VgprsOfAll))
      BY <2>1, <2>2, <3>1 DEF EntryRight
    <3>3. Dvgpr(req) => e[3] = Max(VgprsOfAll)
      BY <1>7, <3>2, MaxIs
    <3> QED
      BY <3>2, <3>3
  <2>3. CASE j \in 1..N
    <3>1. Indirect(req)
      BY <1>1, <1>2, <2>1, <2>3, ReturnFacts
    <3>2. e = <<R.shaders[j]>> /\ R.shaders[j] \in DOMAIN Shader
      BY <1>1, <1>2, <2>1, <2>3, <3>1, ReturnFacts
    <3>3. e[1] \notin {"entry", "traversal"}
      BY <3>2, ShadersAssumption
    <3> QED
      BY <3>3
  <2>4. CASE j # 0 /\ j \notin 1..N
    <3>1. summary.traceModule
      BY <1>1, <1>2, <2>1, <2>4, ReturnFacts
    <3>2. TraversalRight /\ Tasks = N + 1 /\ Top = N + 1
      BY <1>1, <3>1, ReturnFacts
    <3>3. j = Tasks
      BY <1>2, <2>1, <2>4, <3>2
    <3> QED
      BY <2>1, <3>2, <3>3 DEF TraversalRight
  <2> QED
    BY <2>2, <2>3, <2>4
<1>9. AllShaders(req)' = AllShaders(req) /\ Cps(req)' = Cps(req) /\ Dvgpr(req)' = Dvgpr(req) /\ Tracing(req)' = Tracing(req)
  BY <1>1
<1> SUFFICES ASSUME NEW i \in DOMAIN out'.elfs, NEW e, e = out'.elfs[i]
             PROVE  /\ e[1] = "traversal" =>
                         /\ Cps(req) => AllShaders(req) \subseteq e[2]
                         /\ e[3] = {b \in FlagBits : Tracing(req) # {} /\ \A x \in Tracing(req) : b \in Shader[x].set}
                         /\ e[4] = {b \in FlagBits : Tracing(req) # {} /\ \A x \in Tracing(req) : b \in Shader[x].unset}
                    /\ e[1] = "entry" /\ Dvgpr(req) =>
                         e[3] = Max({0} \cup {Shader[x].vgprs : x \in AllShaders(req)}
                                    \cup (IF summary.traceModule THEN {1} ELSE {}))
  BY <1>1, <1>9 DEF SummaryComplete
<1>10. /\ e[1] = "traversal" => /\ Cps(req) => AllShaders(req) \subseteq e[2]
                                /\ e[3] = FlagsOf(AllShaders(req)).set
                                /\ e[4] = FlagsOf(AllShaders(req)).unset
       /\ e[1] = "entry" /\ Dvgpr(req) => e[3] = Max(VgprsOfAll)
  BY <1>8
<1> QED
  BY <1>5, <1>6, <1>10

(* The summary that it leaves is that of all its shaders. *)
LEMMA ReturnsBuilt ==
  ASSUME IInv, SumInv, Return
  PROVE  BuiltInv'
<1> USE DEF IInv, SumInv
<1> DEFINE s == [summary EXCEPT !.set = @ \cap flags.set, !.unset = @ \cap flags.unset]
<1>1. CASE UNCHANGED built
  BY <1>1 DEF BuiltInv
<1>2. CASE ~UNCHANGED built
  <2>1. /\ pc[Main] = "return" /\ UNCHANGED <<req, summary>>
        /\ built' = [r \in DOMAIN built \cup {req} |-> IF r = req THEN s ELSE built[r]]
    BY <1>2 DEF Return, shared
  <2>2. phase = "entry" /\ req \in DOMAIN Requests
    BY <2>1, ReturnFacts
  <2>3. /\ ReadSoFar = AllShaders(req)
        /\ Cps(req) => AllShaders(req) \subseteq summary.state
        /\ Dvgpr(req) => \A x \in AllShaders(req) : summary.vgprs >= Shader[x].vgprs
    BY <2>1, <2>2, AllDone
  <2>4. /\ DOMAIN s = Fields /\ s.traces = summary.traces /\ s.vgprs = summary.vgprs /\ s.state = summary.state
        /\ s.set = summary.set \cap flags.set /\ s.unset = summary.unset \cap flags.unset
    BY DEF LockInv, Fields
  <2>5. /\ summary.traces = Trace(AllShaders(req)) /\ flags = FlagsOf(AllShaders(req))
        /\ summary.set = SetIn(LibShaders(req)) /\ summary.unset = UnsetIn(LibShaders(req))
        /\ summary.vgprs \in Nat
    BY <2>1, <2>3 DEF FlagInv, MergeInv
  <2> HIDE DEF s
  <2>6. IsSummary(s)
    BY <2>4, <2>5 DEF IsSummary, Trace, SetIn, UnsetIn
  <2>7. s.traces <=> Trace(AllShaders(req))
    BY <2>4, <2>5
  <2>8. ASSUME s.traces  PROVE s.set = SetIn(AllShaders(req)) /\ s.unset = UnsetIn(AllShaders(req))
    <3>1. LibShaders(req) \subseteq AllShaders(req)
      BY <2>2, ShaderFacts
    <3>2. SetIn(AllShaders(req)) \subseteq SetIn(LibShaders(req)) /\ UnsetIn(AllShaders(req)) \subseteq UnsetIn(LibShaders(req))
      BY <3>1 DEF SetIn, UnsetIn
    <3>3. flags.set = SetIn(AllShaders(req)) /\ flags.unset = UnsetIn(AllShaders(req))
      BY <2>5, <2>7, <2>8 DEF FlagsOf
    <3> QED
      BY <2>4, <2>5, <3>2, <3>3
  <2>9. ASSUME Requests[req].library, Dvgpr(req)  PROVE IsMax(s.vgprs, VgprsIn(AllShaders(req)))
    <3>1. ~summary.traceModule
      BY <2>1, <2>9 DEF MergeInv, NeedTraversal, R
    <3>2. summary.vgprs \in VgprsIn(AllShaders(req))
      BY <2>1, <2>9, <3>1 DEF MergeInv, VgprsOfAll
    <3> QED
      BY <2>3, <2>4, <2>5, <2>9, <3>2 DEF IsMax, VgprsIn
  <2> SUFFICES ASSUME NEW l \in DOMAIN built \cup {req}
               PROVE  /\ l \in DOMAIN Requests /\ IsSummary(built'[l])
                      /\ built'[l].traces <=> Trace(AllShaders(l))
                      /\ built'[l].traces => built'[l].set = SetIn(AllShaders(l)) /\ built'[l].unset = UnsetIn(AllShaders(l))
                      /\ Cps(l) => AllShaders(l) \subseteq built'[l].state
                      /\ Requests[l].library /\ Dvgpr(l) => IsMax(built'[l].vgprs, VgprsIn(AllShaders(l)))
    BY <2>1 DEF BuiltInv
  <2>10. CASE l = req
    BY <2>1, <2>2, <2>3, <2>4, <2>6, <2>7, <2>8, <2>9, <2>10
  <2>11. CASE l # req
    BY <2>1, <2>11 DEF BuiltInv
  <2> QED
    BY <2>10, <2>11
<1> QED
  BY <1>1, <1>2

LEMMA ReturnSums ==
  ASSUME IInv, SumInv, Return
  PROVE  SumInv'
<1>1. pc[Main] \in {"return", "fail"} /\ pc' = [pc EXCEPT ![Main] = "idle"] /\ UNCHANGED req
  BY DEF Return, Goto
<1>2. pc'[Main] = "idle" /\ \A u \in Threads : pc'[u] \notin Claiming
  <2>1. \A u \in Threads : pc[u] \notin Claiming
    BY <1>1, Busy DEF IInv, Outside
  <2> QED
    BY <1>1, <2>1 DEF IInv, PlaceInv, Threads, Claiming, InTask, AtGate, Building
<1>3. WorkInv' /\ FlagInv' /\ MergeInv' /\ ElfInv' /\ LastInv'
  BY <1>2 DEF WorkInv, FlagInv, MergeInv, ElfInv, LastInv, Claiming, InTask, AtGate, Building
<1>4. out'.result # "Success" => SummaryComplete' /\ OutputComplete'
  BY DEF SummaryComplete, OutputComplete
<1> QED
  BY <1>3, <1>4, ReturnsBuilt, ReturnsSummary, ReturnsComplete DEF SumInv

-----------------------------------------------------------------------------
(* The theorems about the summary and the output *)

LEMMA SumInit == Init => SumInv
<1> SUFFICES ASSUME Init PROVE SumInv
  OBVIOUS
<1>1. pc[Main] = "idle" /\ \A t \in Threads : pc[t] \in {"idle", "gone"}
  BY DEF Init, Threads
<1>2. WorkInv /\ FlagInv /\ MergeInv /\ ElfInv /\ LastInv
  BY <1>1 DEF WorkInv, FlagInv, MergeInv, ElfInv, LastInv, Building
<1>3. BuiltInv
  BY DEF Init, BuiltInv
<1>4. SummaryComplete /\ OutputComplete
  BY DEF Init, SummaryComplete, OutputComplete, NoOut
<1> QED
  BY <1>2, <1>3, <1>4 DEF SumInv

LEMMA SumNext == IInv /\ SumInv /\ [Next]_vars => SumInv'
<1> SUFFICES ASSUME IInv, SumInv, [Next]_vars PROVE SumInv'
  OBVIOUS
<1>1. Main \in Threads /\ Helpers \subseteq Threads
  BY DEF Threads
<1>2. ASSUME NEW t \in Threads, Step(t)  PROVE SumInv'
  BY <1>2, TaskSumKeeps, FinishSums, DestroySums DEF Step, TaskStep
<1>3. ASSUME MainStep  PROVE SumInv'
  BY <1>1, <1>2, <1>3, ReadSums, LowerSums, ClaimSums, WakeSums, EndSums, ReturnSums
     DEF MainStep, ClaimStep, WakeStep, EndStep
<1>4. ASSUME NEW t \in Helpers, HelperStep(t)  PROVE SumInv'
  BY <1>1, <1>2, <1>4, ClaimSums DEF HelperStep, ClaimStep
<1>5. CASE UNCHANGED vars
  <2>1. UNCHANGED <<req, built, out, summary, flags, elfs, phase, pc, task, next, open, failed>>
    BY <1>5 DEF vars, fixed, claims, shared
  <2> QED
    BY <2>1, StillKeeps
<1> QED
  BY <1>3, <1>4, <1>5, BeginSums, WakeSums DEF Next, WakeStep

(* The invariant of the summary and the ELFs holds throughout any sequence of *)
(* builds: what is merged and generated for each shader, by whichever thread. *)
THEOREM SummaryInductive == Spec => []SumInv
<1>1. IInv /\ IInv' /\ SumInv /\ [Next]_vars => SumInv'
  BY SumNext
<1> QED
  BY <1>1, SumInit, RayTracingInductive, PTL DEF Spec

(* A success hands out a traversal module compiled with the merged state of   *)
(* every shader and library and with the ray flags known in all of their      *)
(* TraceRay calls, and an entry compiled for the most VGPRs any of them       *)
(* passes on, however the threads interleave their merges.                    *)
THEOREM SummaryKept == Spec => []SummaryComplete
<1>1. SumInv => SummaryComplete
  BY DEF SumInv
<1> QED
  BY <1>1, SummaryInductive, PTL

(* The ELFs of a success are complete and each is at the place that the       *)
(* shader properties name for it, whichever thread built it.                  *)
THEOREM OutputKept == Spec => []OutputComplete
<1>1. SumInv => OutputComplete
  BY DEF SumInv
<1> QED
  BY <1>1, SummaryInductive, PTL
==============================================================================
