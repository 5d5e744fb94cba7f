----------------------------- MODULE ParallelFor -----------------------------
(***************************************************************************)
(* parallelForWithContextImpl of llpc/util/llpcThreading.cpp: the main     *)
(* thread and its helpers claim tasks from a helper thread provider, the   *)
(* main thread may insist on running alone without a context at first, the *)
(* first error is recorded and the remaining tasks are drained, and the    *)
(* main thread returns when every task has completed.                      *)
(*                                                                         *)
(* Helpers are extra threads that the function spawns and joins itself, or *)
(* threads of the client's IHelperThreadProvider, which come when they     *)
(* like and are never joined, or both.  With neither, the function is a    *)
(* sequential loop and not modelled.  An access to an atomic is a step. The*)
(* cvar's mutex is not a variable: only helpers take it, around a test of  *)
(* mainThreadUnlocked and the beginning of the wait.                       *)
(***************************************************************************)
EXTENDS Naturals, FiniteSets

CONSTANTS Main,       \* the calling thread
          Helpers,    \* the threads that help it
          Setups,     \* which of them are extra threads, and whose provider is used
          Exclusions, \* values of HelperThreadExclusion that callers pass
          NumTasks

ASSUME ThreadsAssumption == Main \notin Helpers /\ Helpers # {} /\ IsFiniteSet(Helpers)
ASSUME SetupsAssumption ==
  /\ Setups \subseteq [extra : SUBSET Helpers, provider : {"internal", "external"}]
  /\ \A s \in Setups : s.provider = "internal" => s.extra # {}
ASSUME ExclusionsAssumption == Exclusions \subseteq {"None", "Task", "CreateContext"}
ASSUME NumTasksAssumption == NumTasks \in Nat \ {0}

Threads == {Main} \cup Helpers
Tasks == 0 .. NumTasks - 1
NoTask == NumTasks

VARIABLES
  setup,               \* numExtraThreads and helperThreadProvider of the call
  helperThreadExclusion,
  next,                \* m_nextInstance
  completed,           \* m_completedInstances
  helperThreadJoined, mainThreadUnlocked, haveError,
  error,               \* the task whose error is recorded, or NoTask
  pc, task,            \* per thread: where it is, and its taskIndex
  mode,                \* per thread: how its task ended
  ctx,                 \* per thread: it runs with a context
  pass,                \* of the main thread: 1 while it may break off for helpers
  drained,             \* of the main thread
  ran, failed          \* tasks whose function succeeded, and returned an error

vars == <<setup, helperThreadExclusion, next, completed, helperThreadJoined,
          mainThreadUnlocked, haveError, error,
          pc, task, mode, ctx, pass, drained, ran, failed>>

PCs == {"begin", "claim", "joined", "create", "gate", "gateSleep", "gateWait",
        "run", "record", "store", "complete", "notify", "after", "check", "next",
        "drain", "exit", "unlock", "cvNotify", "second",
        "wait", "waitSleep", "waiting", "join", "away", "arriving", "returned", "done"}

(* The numExtraThreads spawned threads, the threads of the client's provider: *)
(* only without a provider of the client's there is one of our own.           *)
Extra == setup.extra
Outside == IF setup.provider = "external" THEN Helpers \ Extra ELSE {}

(* Of the main thread only: it starts without a context and without helpers.  *)
ExclusiveStart == helperThreadExclusion # "None" /\ Extra = {}

Init ==
  /\ setup \in Setups
  /\ helperThreadExclusion \in Exclusions
  /\ next = 0 /\ completed = 0
  /\ helperThreadJoined = (Extra # {})
  /\ mainThreadUnlocked = (Extra # {})
  /\ haveError = FALSE /\ error = NoTask
  /\ pc = [t \in Threads |-> IF t = Main THEN "begin" ELSE "away"]
  /\ task = [t \in Threads |-> NoTask]
  /\ mode = [t \in Threads |-> "ok"]
  /\ ctx = [t \in Threads |-> FALSE]
  /\ pass = IF ExclusiveStart THEN 1 ELSE 2
  /\ drained = FALSE
  /\ ran = {} /\ failed = {}

Goto(t, l) == pc' = [pc EXCEPT ![t] = l]

Flags == <<helperThreadJoined, mainThreadUnlocked>>
Outcome == <<haveError, error, ran, failed>>
Counters == <<next, completed>>
Local == <<task, mode, ctx>>
MainLocal == <<pass, drained>>

-----------------------------------------------------------------------------
(* The provider.  GetNextTask: fetch_add, compare. *)
GetNextTask(t, got, none) ==
  /\ next' = next + 1
  /\ IF next < NumTasks
       THEN task' = [task EXCEPT ![t] = next] /\ Goto(t, got)
       ELSE UNCHANGED task /\ Goto(t, none)

(* SetTasks, and the extra threads are spawned. *)
SetTasks ==
  /\ pc[Main] = "begin"
  /\ pc' = [t \in Threads |-> CASE t = Main -> "claim"
                                [] t \in Extra -> "arriving"
                                [] OTHER -> pc[t]]
  /\ UNCHANGED <<Counters, Flags, Outcome, Local, MainLocal>>

(* A thread of the client sees that there are remaining tasks and is about to *)
(* call the thread function.                                                  *)
Arrive(t) ==
  /\ t \in Outside /\ pc[t] = "away" /\ pc[Main] # "begin"
  /\ next < NumTasks
  /\ Goto(t, "arriving")
  /\ UNCHANGED <<setup, helperThreadExclusion, Counters, Flags, Outcome, Local, MainLocal>>

-----------------------------------------------------------------------------
(* runHelperThread *)
HelperJoin(t) ==
  /\ pc[t] = "arriving"
  /\ helperThreadJoined' = TRUE
  /\ Goto(t, "joined")
  /\ UNCHANGED <<Counters, mainThreadUnlocked, Outcome, Local, MainLocal>>

HelperClaim(t) ==
  /\ pc[t] = "joined"
  /\ GetNextTask(t, IF helperThreadExclusion = "CreateContext" THEN "gate" ELSE "create", "done")
  /\ UNCHANGED <<completed, Flags, Outcome, mode, ctx, MainLocal>>

(* The context is created before or after the gate. *)
CreateContext(t) ==
  /\ t \in Helpers /\ pc[t] = "create"
  /\ ctx' = [ctx EXCEPT ![t] = TRUE]
  /\ Goto(t, IF helperThreadExclusion = "CreateContext" THEN "run" ELSE "gate")
  /\ UNCHANGED <<Counters, Flags, Outcome, task, mode, MainLocal>>

PastGate == IF helperThreadExclusion = "CreateContext" THEN "create" ELSE "run"

(* Mutant: the gate is always open. *)
HelperGateOpen(t) ==
  /\ pc[t] = "gate"
  /\ Goto(t, PastGate)
  /\ UNCHANGED <<Counters, Flags, Outcome, Local, MainLocal>>

(* The flag is tested outside of the mutex, and then as the predicate of the  *)
(* wait; between a failed test and the wait nothing keeps the main thread     *)
(* from setting the flag and notifying.                                       *)
HelperGate(t) ==
  /\ pc[t] = "gate"
  /\ IF helperThreadExclusion = "None" \/ mainThreadUnlocked
       THEN Goto(t, PastGate) ELSE Goto(t, "gateSleep")
  /\ UNCHANGED <<Counters, Flags, Outcome, Local, MainLocal>>

HelperSleep(t) ==
  /\ pc[t] = "gateSleep"
  /\ Goto(t, "gateWait")
  /\ UNCHANGED <<Counters, Flags, Outcome, Local, MainLocal>>

SpuriousWakeup(t) ==
  /\ \/ pc[t] = "gateWait" /\ Goto(t, "gate")
     \/ pc[t] = "waiting" /\ Goto(t, "wait")
  /\ UNCHANGED <<setup, helperThreadExclusion, Counters, Flags, Outcome, Local, MainLocal>>

HelperExit(t) ==
  /\ t \in Helpers /\ pc[t] = "exit"
  /\ ctx' = [ctx EXCEPT ![t] = FALSE]
  /\ Goto(t, "done")
  /\ UNCHANGED <<Counters, Flags, Outcome, task, mode, MainLocal>>

-----------------------------------------------------------------------------
(* runInnerLoop *)
RunTask(t) ==
  /\ pc[t] = "run"
  /\ \/ /\ ran' = ran \cup {task[t]}
        /\ mode' = [mode EXCEPT ![t] = "ok"]
        /\ Goto(t, "complete")
        /\ UNCHANGED failed
     \/ /\ failed' = failed \cup {task[t]}
        /\ Goto(t, "record")
        /\ UNCHANGED <<ran, mode>>
  /\ UNCHANGED <<Counters, Flags, haveError, error, task, ctx, MainLocal>>

(* Mutant: who loses the race for the error does not complete its task. *)
RecordErrorLeaves(t) ==
  /\ pc[t] = "record"
  /\ haveError' = TRUE
  /\ mode' = [mode EXCEPT ![t] = IF haveError THEN "lost" ELSE "recorded"]
  /\ Goto(t, IF haveError THEN "after" ELSE "store")
  /\ UNCHANGED <<Counters, Flags, error, ran, failed, task, ctx, MainLocal>>

(* Mutant: the flag is set but the error is not stored. *)
RecordErrorOnlyFlag(t) ==
  /\ pc[t] = "record"
  /\ haveError' = TRUE
  /\ mode' = [mode EXCEPT ![t] = IF haveError THEN "lost" ELSE "recorded"]
  /\ Goto(t, "complete")
  /\ UNCHANGED <<Counters, Flags, error, ran, failed, task, ctx, MainLocal>>

(* Mutant: completion is signalled before the error is stored. *)
RecordErrorLate(t) ==
  /\ pc[t] = "record"
  /\ haveError' = TRUE
  /\ mode' = [mode EXCEPT ![t] = IF haveError THEN "lost" ELSE "recorded"]
  /\ Goto(t, IF haveError THEN "complete" ELSE "store")
  /\ completed' = IF haveError THEN completed ELSE completed + 1
  /\ UNCHANGED <<next, Flags, error, ran, failed, task, ctx, MainLocal>>

(* recordError: the exchange, then the assignment of the winner. *)
RecordError(t) ==
  /\ pc[t] = "record"
  /\ haveError' = TRUE
  /\ mode' = [mode EXCEPT ![t] = IF haveError THEN "lost" ELSE "recorded"]
  /\ Goto(t, IF haveError THEN "complete" ELSE "store")
  /\ UNCHANGED <<Counters, Flags, error, ran, failed, task, ctx, MainLocal>>

StoreError(t) ==
  /\ pc[t] = "store"
  /\ error' = task[t]
  /\ Goto(t, "complete")
  /\ UNCHANGED <<Counters, Flags, haveError, ran, failed, Local, MainLocal>>

(* TaskCompleted; our own provider notifies its event after the last task,    *)
(* without the lock that WaitForTasks holds.                                  *)
TaskCompleted(t) ==
  /\ pc[t] = "complete"
  /\ completed' = completed + 1
  /\ Goto(t, IF setup.provider = "internal" /\ completed + 1 = NumTasks THEN "notify" ELSE "after")
  /\ UNCHANGED <<next, Flags, Outcome, Local, MainLocal>>

Wake(from, to) == [u \in Threads |-> IF pc[u] = from THEN to ELSE pc[u]]

NotifyEvent(t) ==
  /\ pc[t] = "notify"
  /\ pc' = [Wake("waiting", "wait") EXCEPT ![t] = "after"]
  /\ UNCHANGED <<Counters, Flags, Outcome, Local, MainLocal>>

(* Mutant: the thread that recorded the error leaves without draining. *)
AfterTaskLeaves(t) ==
  /\ pc[t] = "after"
  /\ Goto(t, CASE mode[t] # "ok" -> "exit"
               [] t = Main /\ pass = 1 /\ helperThreadJoined -> "exit"
               [] OTHER -> "check")
  /\ drained' = (drained \/ (t = Main /\ mode[t] # "ok"))
  /\ UNCHANGED <<Counters, Flags, Outcome, Local, pass>>

(* The thread that recorded the error drains; one that lost the race leaves;  *)
(* the main thread breaks off its first pass once a helper has joined.        *)
AfterTask(t) ==
  /\ pc[t] = "after"
  /\ Goto(t, CASE mode[t] = "lost" -> "exit"
               [] mode[t] \in {"recorded", "drain"} -> "drain"
               [] t = Main /\ pass = 1 /\ helperThreadJoined /\ mode[t] = "ok" -> "exit"
               [] OTHER -> "check")
  /\ drained' = (drained \/ (t = Main /\ mode[t] = "lost"))
  /\ UNCHANGED <<Counters, Flags, Outcome, Local, pass>>

(* Somebody else had an error and drains. *)
CheckError(t) ==
  /\ pc[t] = "check"
  /\ Goto(t, IF haveError THEN "exit" ELSE "next")
  /\ drained' = (drained \/ (t = Main /\ haveError))
  /\ UNCHANGED <<Counters, Flags, Outcome, Local, pass>>

NextTask(t) ==
  /\ pc[t] = "next"
  /\ GetNextTask(t, "run", "exit")
  /\ drained' = (drained \/ (t = Main /\ next >= NumTasks))
  /\ UNCHANGED <<completed, Flags, Outcome, mode, ctx, pass>>

DrainTask(t) ==
  /\ pc[t] = "drain"
  /\ GetNextTask(t, "complete", "exit")
  /\ mode' = [mode EXCEPT ![t] = "drain"]
  /\ drained' = (drained \/ (t = Main /\ next >= NumTasks))
  /\ UNCHANGED <<completed, Flags, Outcome, ctx, pass>>

-----------------------------------------------------------------------------
(* The main thread around the loop.  Its first GetNextTask may fail. *)
MainClaim ==
  /\ pc[Main] = "claim"
  /\ GetNextTask(Main, IF helperThreadExclusion = "None" \/ ExclusiveStart THEN "run" ELSE "second", "wait")
  /\ UNCHANGED <<completed, Flags, Outcome, mode, ctx, MainLocal>>

(* After the first pass: unless drained, claim the task to continue with. *)
MainFirstPassDone ==
  /\ pc[Main] = "exit" /\ pass = 1
  /\ IF drained
       THEN Goto(Main, "unlock") /\ UNCHANGED <<next, task, drained>>
       ELSE /\ GetNextTask(Main, "unlock", "unlock")
            /\ drained' = (next >= NumTasks)
  /\ UNCHANGED <<completed, Flags, Outcome, mode, ctx, pass>>

MainUnlock ==
  /\ pc[Main] = "unlock"
  /\ mainThreadUnlocked' = TRUE
  /\ Goto(Main, "cvNotify")
  /\ UNCHANGED <<Counters, helperThreadJoined, Outcome, Local, MainLocal>>

(* cvar.notify_all, without the mutex. *)
MainNotify ==
  /\ pc[Main] = "cvNotify"
  /\ pc' = [Wake("gateWait", "gate") EXCEPT ![Main] = IF drained THEN "wait" ELSE "second"]
  /\ pass' = 2
  /\ UNCHANGED <<Counters, Flags, Outcome, Local, drained>>

MainCreateContext ==
  /\ pc[Main] = "second"
  /\ ctx' = [ctx EXCEPT ![Main] = TRUE]
  /\ Goto(Main, "run")
  /\ UNCHANGED <<Counters, Flags, Outcome, task, mode, MainLocal>>

MainLoopDone ==
  /\ pc[Main] = "exit" /\ pass = 2
  /\ ctx' = [ctx EXCEPT ![Main] = FALSE]
  /\ Goto(Main, "wait")
  /\ UNCHANGED <<Counters, Flags, Outcome, task, mode, MainLocal>>

(* WaitForTasks: our own provider tests the counter and then waits for the    *)
(* event; the client's is taken to return once all tasks have completed.      *)
WaitForTasks ==
  /\ pc[Main] = "wait"
  /\ IF completed >= NumTasks THEN Goto(Main, "join")
     ELSE setup.provider = "internal" /\ Goto(Main, "waitSleep")
  /\ UNCHANGED <<Counters, Flags, Outcome, Local, MainLocal>>

WaitSleep ==
  /\ pc[Main] = "waitSleep"
  /\ Goto(Main, "waiting")
  /\ UNCHANGED <<Counters, Flags, Outcome, Local, MainLocal>>

Return ==
  /\ pc[Main] = "join"
  /\ \A t \in Extra : pc[t] = "done"
  /\ Goto(Main, "returned")
  /\ UNCHANGED <<Counters, Flags, Outcome, Local, MainLocal>>

-----------------------------------------------------------------------------
InnerLoop(t) ==
  /\ \/ RunTask(t) \/ RecordError(t) \/ StoreError(t) \/ TaskCompleted(t)
     \/ NotifyEvent(t) \/ AfterTask(t) \/ CheckError(t) \/ NextTask(t) \/ DrainTask(t)
  /\ UNCHANGED <<setup, helperThreadExclusion>>

HelperStep(t) ==
  /\ \/ HelperJoin(t) \/ HelperClaim(t) \/ CreateContext(t)
     \/ HelperGate(t) \/ HelperSleep(t) \/ HelperExit(t)
  /\ UNCHANGED <<setup, helperThreadExclusion>>

MainStep ==
  /\ \/ SetTasks \/ MainClaim \/ MainFirstPassDone
     \/ MainUnlock \/ MainNotify \/ MainCreateContext \/ MainLoopDone
     \/ WaitForTasks \/ WaitSleep \/ Return
  /\ UNCHANGED <<setup, helperThreadExclusion>>

Next == \/ MainStep
        \/ \E t \in Threads : InnerLoop(t) \/ SpuriousWakeup(t)
        \/ \E t \in Helpers : HelperStep(t) \/ Arrive(t)

Spec == Init /\ [][Next]_vars

(* Every thread that has started is scheduled; nobody is obliged to come.     *)
FairSpec == /\ Spec
            /\ WF_vars(MainStep)
            /\ \A t \in Threads : WF_vars(InnerLoop(t))
            /\ \A t \in Helpers : WF_vars(HelperStep(t))

-----------------------------------------------------------------------------
(* The state has its types: whatever a thread claims to run or records as the *)
(* error is one of the tasks.                                                 *)
TypeOK ==
  /\ setup \in Setups
  /\ helperThreadExclusion \in Exclusions
  /\ next \in Nat /\ completed \in Nat
  /\ helperThreadJoined \in BOOLEAN /\ mainThreadUnlocked \in BOOLEAN
  /\ haveError \in BOOLEAN /\ error \in Tasks \cup {NoTask}
  /\ pc \in [Threads -> PCs]
  /\ task \in [Threads -> Tasks \cup {NoTask}]
  /\ mode \in [Threads -> {"ok", "recorded", "lost", "drain"}]
  /\ ctx \in [Threads -> BOOLEAN]
  /\ pass \in {1, 2} /\ drained \in BOOLEAN
  /\ ran \subseteq Tasks /\ failed \subseteq Tasks

(* A claimed task that has not been completed yet. *)
InFlight(t) ==
  \/ pc[t] \in {"create", "gate", "gateSleep", "gateWait", "run", "record", "store",
                "complete", "second"}
  \/ t = Main /\ pc[t] \in {"unlock", "cvNotify"} /\ ~drained

Claimed == IF next < NumTasks THEN next ELSE NumTasks

(* TaskCompleted is called "exactly once per successful GetNextTask", errors, *)
(* draining and the main thread's change of context included: every claimed   *)
(* task is completed or in the hands of one thread, its own.                  *)
CompletedOncePerClaim ==
  /\ completed + Cardinality({t \in Threads : InFlight(t)}) = Claimed
  /\ \A t, u \in Threads : InFlight(t) /\ InFlight(u) /\ t # u => task[t] # task[u]
  /\ \A t \in Threads : InFlight(t) => task[t] < Claimed

(* HelperThreadExclusion: no helper runs a task, or with CreateContext creates*)
(* its context, while the main thread runs a task without a context.          *)
ExclusionRespected ==
  helperThreadExclusion # "None" /\ pc[Main] = "run" /\ ~ctx[Main] =>
    \A t \in Helpers : /\ pc[t] # "run"
                       /\ helperThreadExclusion = "CreateContext" => pc[t] # "create"

(* What the caller gets: without an error every task ran; with one, the error *)
(* of a task that really failed is returned, although it was recorded with a  *)
(* relaxed exchange and a plain assignment.                                   *)
ReturnsOutcome ==
  pc[Main] = "returned" =>
    /\ failed = {} => error = NoTask /\ ran = Tasks
    /\ failed # {} => error \in failed

(* "Subtle: signaling completion must happen after recording an error": once  *)
(* the main thread has waited for the tasks, and takes the error, no thread   *)
(* has a task in hand, runs one or stores an error, and none will: neither an *)
(* extra thread nor a thread of the client that comes late or is not joined.  *)
TasksOver ==
  pc[Main] \in {"join", "returned"} =>
    /\ \A t \in Threads : ~InFlight(t)
    /\ next >= NumTasks

(* Thread t is about to read or write the state of the call. *)
Accesses(t) == \/ pc[t] \in {"arriving", "gate", "run", "record", "store", "check"}
               \/ pc[t] = "create" /\ ~ctx[t]
               \/ pc[t] = "exit"

(* The state on the main thread's stack is not accessed any more once the     *)
(* call has returned, as WaitForTasks is the last thing in the lifetime of a  *)
(* provider.                                                                  *)
StateOutlivesHelpers ==
  pc[Main] = "returned" => \A t \in Helpers : ~Accesses(t)

(* The parallel for returns ("The taskFunction is called for each task"). *)
MainReturns == <>(pc[Main] = "returned")

(* Without an exclusion there is no gate, with extra threads it is open, and  *)
(* the client's provider loses no wakeup: whatever tasks fail and however     *)
(* many of the client's threads come, each claimed task is completed, and the *)
(* call returns.                                                              *)
ReturnsUngated ==
  setup.provider = "external" /\ (helperThreadExclusion = "None" \/ Extra # {})
    => <>(pc[Main] = "returned")
==============================================================================
