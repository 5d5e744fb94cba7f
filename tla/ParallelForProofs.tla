-------------------------- MODULE ParallelForProofs --------------------------
(***************************************************************************)
(* Proofs about ParallelFor for any number of tasks and of helper threads, *)
(* wherever they come from, and for every exclusion: the safety properties *)
(* that the runs check on three tasks and two helpers.                     *)
(***************************************************************************)
EXTENDS ParallelFor, FiniteSetTheorems, TLAPS

-----------------------------------------------------------------------------
(* The inductive invariant *)

(* The places of runInnerLoop, which all threads share. *)
Inner == {"run", "record", "store", "complete", "notify", "after", "check", "next",
          "drain", "exit"}

(* Each thread is in its own code. *)
PlaceInv ==
  /\ pc[Main] \in Inner \cup {"begin", "claim", "unlock", "cvNotify", "second", "wait",
                              "waitSleep", "waiting", "join", "returned"}
  /\ \A t \in Helpers : pc[t] \in Inner \cup {"away", "arriving", "joined", "create", "gate",
                                              "gateSleep", "gateWait", "done"}
  /\ pc[Main] = "begin" => \A t \in Helpers : pc[t] = "away"

(* The main thread's first pass has no context and ends with the unlock; in   *)
(* its second one it has a context, unless nobody asked for an exclusion.     *)
PassInv ==
  /\ pass = 1 => /\ ExclusiveStart /\ ~ctx[Main] /\ pc[Main] # "second"
                 /\ mainThreadUnlocked => pc[Main] = "cvNotify"
  /\ pass = 2 => /\ pc[Main] \notin {"unlock", "cvNotify"}
                 /\ pc[Main] \in {"begin", "claim"} => ~ExclusiveStart
                 /\ pc[Main] \in Inner => helperThreadExclusion = "None" \/ ctx[Main]

(* Helpers that are past the gate found the main thread unlocked. *)
GateInv ==
  \A t \in Helpers :
    \/ helperThreadExclusion = "None" \/ mainThreadUnlocked
    \/ pc[t] \notin Inner /\ (helperThreadExclusion = "CreateContext" => pc[t] # "create")

(* Threads that have a claimed task and owe its completion. *)
Flying == {t \in Threads : InFlight(t)}

(* What each thread has done about errors: one that did not succeed knows of  *)
(* the error, and the error is that of a task that failed.                    *)
ErrorInv ==
  /\ \A t \in Threads :
       /\ mode[t] # "ok" \/ pc[t] \in {"store", "drain"} => haveError
       /\ pc[t] = "drain" => mode[t] # "ok"
       /\ pc[t] \in {"record", "store"} => task[t] \in failed
       /\ pc[t] = "complete" => task[t] \in ran \cup failed \/ haveError
  /\ failed # {} => haveError \/ \E t \in Threads : pc[t] = "record"
  /\ IF haveError THEN error \in failed \/ \E t \in Threads : pc[t] = "store"
                  ELSE error = NoTask

(* No task is lost: it was run, or is drained because of an error, or is in   *)
(* the hands of a thread, or has yet to be claimed.                           *)
TaskInv ==
  \A i \in Tasks : \/ i \in ran \cup failed \/ haveError \/ i >= next
                   \/ \E t \in Flying : task[t] = i

(* The call comes to its end when every task has completed. *)
EndInv == pc[Main] \in {"join", "returned"} => completed >= NumTasks

IInv ==
  /\ TypeOK /\ PlaceInv /\ PassInv /\ GateInv /\ CompletedOncePerClaim
  /\ ErrorInv /\ TaskInv /\ EndInv

-----------------------------------------------------------------------------
(* Control: where the threads are, and who is locked out *)

(* A step of runInnerLoop moves one thread from one of its places to another; *)
(* the thread that notifies the event also wakes the main thread.             *)
LEMMA InnerMoves ==
  ASSUME TypeOK, NEW t \in Threads, InnerLoop(t)
  PROVE  /\ pc[t] \in Inner \ {"exit"} /\ pc'[t] \in Inner
         /\ \A u \in Threads \ {t} :
              pc'[u] = pc[u] \/ (pc[u] = "waiting" /\ pc'[u] = "wait")
         /\ UNCHANGED <<setup, helperThreadExclusion, Flags, ctx, pass>>
<1> USE DEF TypeOK, InnerLoop, Goto, Inner, Local, MainLocal, Flags
<1>1. CASE RunTask(t)
  BY <1>1 DEF RunTask
<1>2. CASE RecordError(t) \/ StoreError(t)
  BY <1>2 DEF RecordError, StoreError
<1>3. CASE TaskCompleted(t) \/ NotifyEvent(t)
  BY <1>3 DEF TaskCompleted, NotifyEvent, Wake
<1>4. CASE AfterTask(t) \/ CheckError(t)
  BY <1>4 DEF AfterTask, CheckError
<1>5. CASE NextTask(t) \/ DrainTask(t)
  BY <1>5 DEF NextTask, DrainTask, GetNextTask
<1> QED
  BY <1>1, <1>2, <1>3, <1>4, <1>5

(* The part of the invariant that is about control. *)
ControlInv == PlaceInv /\ PassInv /\ GateInv

(* The threads stay in their code, and the passes and the gate in order. *)
LEMMA InnerControl ==
  ASSUME TypeOK, ControlInv, NEW t \in Threads, InnerLoop(t)
  PROVE  ControlInv'
<1>1. ExclusiveStart' = ExclusiveStart
  BY InnerMoves DEF ExclusiveStart, Extra
<1>2. PlaceInv'
  BY InnerMoves, ThreadsAssumption DEF ControlInv, PlaceInv, Threads, Inner
<1>3. PassInv'
  BY <1>1, InnerMoves, ThreadsAssumption DEF ControlInv, PlaceInv, PassInv, Threads, Inner, Flags
<1>4. GateInv'
  BY InnerMoves, ThreadsAssumption DEF ControlInv, PlaceInv, GateInv, Threads, Inner, Flags
<1> QED
  BY <1>2, <1>3, <1>4 DEF ControlInv

(* So do the steps of a helper: it passes the gate when it finds it open. *)
LEMMA HelperControl ==
  ASSUME TypeOK, ControlInv, NEW t \in Helpers, HelperStep(t) \/ Arrive(t)
  PROVE  ControlInv'
<1> USE ThreadsAssumption DEF TypeOK, Goto, Inner, Local, MainLocal, Flags, Threads
<1>1. ExclusiveStart' = ExclusiveStart
  BY DEF ExclusiveStart, Extra, HelperStep, Arrive
<1>2. /\ pc' = [pc EXCEPT ![t] = pc'[t]]
      /\ pc'[t] \in Inner \cup {"arriving", "joined", "create", "gate", "gateSleep",
                                "gateWait", "done"}
      /\ UNCHANGED <<helperThreadExclusion, mainThreadUnlocked, pass>>
      /\ ctx'[Main] = ctx[Main]
      /\ pc[t] # "away" \/ pc[Main] # "begin"
      /\ \/ pc'[t] \notin Inner /\ (helperThreadExclusion = "CreateContext" => pc'[t] # "create")
         \/ helperThreadExclusion = "None" \/ mainThreadUnlocked
         \/ helperThreadExclusion = "CreateContext" /\ pc[t] = "create"
         \/ pc[t] \in Inner
  BY ExclusionsAssumption DEF HelperStep, Arrive, HelperJoin, HelperClaim, GetNextTask,
     CreateContext, HelperGate, PastGate, HelperSleep, HelperExit
<1>3. PlaceInv'
  BY <1>2 DEF ControlInv, PlaceInv
<1>4. PassInv'
  BY <1>1, <1>2 DEF ControlInv, PassInv
<1>5. GateInv'
  BY <1>2 DEF ControlInv, PlaceInv, GateInv
<1> QED
  BY <1>3, <1>4, <1>5 DEF ControlInv

(* So do the steps of the main thread: it unlocks at the end of its first     *)
(* pass, and creates its context before the second one.                       *)
LEMMA MainControl ==
  ASSUME TypeOK, ControlInv, MainStep
  PROVE  ControlInv'
<1> USE ThreadsAssumption
        DEF TypeOK, ControlInv, PlaceInv, PassInv, GateInv, MainStep, Goto, Inner, Local,
            MainLocal, Flags, Threads
<1>1. ExclusiveStart' = ExclusiveStart /\ Extra' = Extra /\ Extra \subseteq Helpers
  BY SetupsAssumption DEF ExclusiveStart, Extra
<1>2. CASE SetTasks
  BY <1>1, <1>2 DEF SetTasks
<1>3. CASE MainClaim
  BY <1>1, <1>3 DEF MainClaim, GetNextTask, ExclusiveStart
<1>4. CASE MainFirstPassDone
  BY <1>1, <1>4 DEF MainFirstPassDone, GetNextTask
<1>5. CASE MainUnlock
  BY <1>1, <1>5 DEF MainUnlock
<1>6. CASE MainNotify
  BY <1>1, <1>6 DEF MainNotify, Wake
<1>7. CASE MainCreateContext
  BY <1>1, <1>7 DEF MainCreateContext
<1>8. CASE MainLoopDone
  BY <1>1, <1>8 DEF MainLoopDone
<1>9. CASE WaitForTasks
  BY <1>1, <1>9 DEF WaitForTasks
<1>10. CASE WaitSleep \/ Return
  BY <1>1, <1>10 DEF WaitSleep, Return
<1> QED
  BY <1>2, <1>3, <1>4, <1>5, <1>6, <1>7, <1>8, <1>9, <1>10

(* A spurious wake-up sends a thread back to its test. *)
LEMMA SpuriousControl ==
  ASSUME TypeOK, ControlInv, NEW t \in Threads, SpuriousWakeup(t)
  PROVE  ControlInv'
<1> USE ThreadsAssumption
        DEF TypeOK, ControlInv, PlaceInv, PassInv, GateInv, SpuriousWakeup, Goto, Inner, Local,
            MainLocal, Flags, Threads
<1>1. ExclusiveStart' = ExclusiveStart
  BY DEF ExclusiveStart, Extra
<1> QED
  BY <1>1

(* The call ends only when all tasks have completed, and they stay so. *)
LEMMA EndStep ==
  ASSUME TypeOK, PlaceInv, EndInv, Next
  PROVE  EndInv'
<1> USE ThreadsAssumption, NumTasksAssumption
        DEF TypeOK, PlaceInv, EndInv, Goto, Counters, Local, MainLocal, Flags, Threads
<1>1. completed' \in Nat /\ completed' >= completed
  BY DEF Next, MainStep, SetTasks, MainClaim, MainFirstPassDone, MainUnlock, MainNotify,
         MainCreateContext, MainLoopDone, WaitForTasks, WaitSleep, Return,
         InnerLoop, RunTask, RecordError, StoreError, TaskCompleted, NotifyEvent, AfterTask,
         CheckError, NextTask, DrainTask, SpuriousWakeup, HelperStep, HelperJoin, HelperClaim,
         CreateContext, HelperGate, HelperSleep, HelperExit, Arrive, GetNextTask
<1>2. CASE MainStep
  BY <1>1, <1>2 DEF MainStep, SetTasks, MainClaim, MainFirstPassDone, MainUnlock, MainNotify,
     MainCreateContext, MainLoopDone, WaitForTasks, WaitSleep, Return, GetNextTask, Wake
<1>3. ASSUME NEW t \in Threads, InnerLoop(t)
      PROVE  EndInv'
  BY <1>1, <1>3, InnerMoves DEF Inner
<1>4. ASSUME NEW t \in Threads, SpuriousWakeup(t)
      PROVE  EndInv'
  BY <1>1, <1>4 DEF SpuriousWakeup
<1>5. ASSUME NEW t \in Helpers, HelperStep(t)
      PROVE  EndInv'
  <2>1. pc' = [pc EXCEPT ![t] = pc'[t]]
    BY <1>5 DEF HelperStep, HelperJoin, HelperClaim, CreateContext, HelperGate, HelperSleep,
       HelperExit, GetNextTask
  <2> QED
    BY <1>1, <2>1
<1>6. ASSUME NEW t \in Helpers, Arrive(t)
      PROVE  EndInv'
  BY <1>1, <1>6 DEF Arrive
<1> QED
  BY <1>2, <1>3, <1>4, <1>5, <1>6 DEF Next

-----------------------------------------------------------------------------
(* The flow of tasks: what a step does to the claimed tasks is one of three.  *)

Keeps ==
  /\ Flying' = Flying /\ completed' = completed
  /\ next' = next \/ (next >= NumTasks /\ next' = next + 1)
  /\ \A t \in Flying : task'[t] = task[t]

Claims(t) ==
  /\ next < NumTasks /\ next' = next + 1 /\ completed' = completed
  /\ t \notin Flying /\ Flying' = Flying \cup {t}
  /\ task' = [task EXCEPT ![t] = next]

Completes(t) ==
  /\ pc[t] = "complete" /\ Flying' = Flying \ {t}
  /\ completed' = completed + 1
  /\ UNCHANGED <<next, task, haveError, ran, failed>>

(* A thread that calls GetNextTask has no task; it gets one, or there is none *)
(* left and it goes on without.                                               *)
LEMMA ClaimFlow ==
  ASSUME TypeOK, NEW t \in Threads, NEW got, NEW none, GetNextTask(t, got, none),
         t \notin Flying, completed' = completed,
         \A u \in Threads \ {t} : u \in Flying' <=> u \in Flying,
         next < NumTasks => t \in Flying',
         next >= NumTasks => t \notin Flying'
  PROVE  Keeps \/ Claims(t)
<1> USE NumTasksAssumption
<1>0. Flying \subseteq Threads /\ Flying' \subseteq Threads
  BY DEF Flying, Threads
<1>1. CASE next < NumTasks
  <2>1. Flying' = Flying \cup {t}
    BY <1>0, <1>1
  <2> QED
    BY <1>1, <2>1 DEF Claims, GetNextTask
<1>2. CASE ~(next < NumTasks)
  <2>1. next >= NumTasks
    BY <1>2 DEF TypeOK
  <2>2. Flying' = Flying
    BY <1>0, <2>1
  <2> QED
    BY <1>2, <2>1, <2>2 DEF Keeps, GetNextTask
<1> QED
  BY <1>1, <1>2

(* runInnerLoop: a task is completed once, and then the next one is claimed. *)
LEMMA InnerFlow ==
  ASSUME TypeOK, PlaceInv, NEW t \in Threads, InnerLoop(t)
  PROVE  Keeps \/ Claims(t) \/ Completes(t)
<1> USE DEF InnerLoop, TypeOK, Goto, Counters, Local, MainLocal, InFlight
<1>1. CASE RunTask(t)
  BY <1>1 DEF RunTask, Keeps, Flying
<1>2. CASE RecordError(t) \/ StoreError(t)
  BY <1>2 DEF RecordError, StoreError, Keeps, Flying
<1>3. CASE TaskCompleted(t)
  <2>1. Flying' = Flying \ {t}
    BY <1>3 DEF TaskCompleted, Flying
  <2> QED
    BY <1>3, <2>1 DEF TaskCompleted, Completes, Outcome
<1>4. CASE NotifyEvent(t)
  BY <1>4 DEF NotifyEvent, Wake, Keeps, Flying
<1>5. CASE AfterTask(t) \/ CheckError(t)
  BY <1>5 DEF AfterTask, CheckError, Keeps, Flying
<1>6. CASE NextTask(t)
  <2>1. t \notin Flying /\ \A u \in Threads \ {t} : u \in Flying' <=> u \in Flying
    BY <1>6 DEF NextTask, GetNextTask, Flying
  <2>2. /\ next < NumTasks => t \in Flying'
        /\ next >= NumTasks => t \notin Flying'
    BY <1>6, NumTasksAssumption DEF NextTask, GetNextTask, Flying
  <2> QED
    BY <1>6, <2>1, <2>2, ClaimFlow DEF NextTask
<1>7. CASE DrainTask(t)
  <2>1. t \notin Flying /\ \A u \in Threads \ {t} : u \in Flying' <=> u \in Flying
    BY <1>7 DEF DrainTask, GetNextTask, Flying
  <2>2. /\ next < NumTasks => t \in Flying'
        /\ next >= NumTasks => t \notin Flying'
    BY <1>7, NumTasksAssumption DEF DrainTask, GetNextTask, Flying
  <2> QED
    BY <1>7, <2>1, <2>2, ClaimFlow DEF DrainTask
<1> QED
  BY <1>1, <1>2, <1>3, <1>4, <1>5, <1>6, <1>7

(* A helper claims its first task when it has joined, and keeps it while it   *)
(* waits at the gate and creates its context.                                 *)
LEMMA HelperFlow ==
  ASSUME TypeOK, PlaceInv, NEW t \in Helpers, HelperStep(t) \/ Arrive(t)
  PROVE  Keeps \/ Claims(t)
<1> USE ThreadsAssumption DEF TypeOK, Goto, Counters, Local, MainLocal, InFlight, Threads
<1>1. CASE HelperClaim(t)
  <2>1. t \notin Flying /\ \A u \in Threads \ {t} : u \in Flying' <=> u \in Flying
    BY <1>1 DEF HelperClaim, GetNextTask, Flying
  <2>2. /\ next < NumTasks => t \in Flying'
        /\ next >= NumTasks => t \notin Flying'
    BY <1>1, NumTasksAssumption DEF HelperClaim, GetNextTask, Flying
  <2> QED
    BY <1>1, <2>1, <2>2, ClaimFlow DEF HelperClaim
<1>2. CASE HelperJoin(t) \/ CreateContext(t)
  BY <1>2 DEF HelperJoin, CreateContext, Keeps, Flying
<1>3. CASE HelperGate(t) \/ HelperSleep(t)
  BY <1>3 DEF HelperGate, HelperSleep, PastGate, Keeps, Flying
<1>4. CASE HelperExit(t) \/ Arrive(t)
  BY <1>4 DEF HelperExit, Arrive, Keeps, Flying
<1> QED
  BY <1>1, <1>2, <1>3, <1>4 DEF HelperStep

(* The main thread claims a task at the start, and, unless it has drained,    *)
(* one more to continue with after its first pass.                            *)
LEMMA MainFlow ==
  ASSUME TypeOK, ControlInv, MainStep
  PROVE  Keeps \/ Claims(Main)
<1> USE ThreadsAssumption
        DEF TypeOK, MainStep, ControlInv, PlaceInv, Goto, Counters, Local, MainLocal, InFlight,
            Threads
<1>1. CASE SetTasks
  <2>1. Extra \subseteq Helpers /\ \A t \in Extra : pc[t] = "away"
    BY <1>1, SetupsAssumption DEF SetTasks, Extra
  <2> QED
    BY <1>1, <2>1 DEF SetTasks, Keeps, Flying
<1>2. CASE MainClaim
  <2>1. Main \notin Flying /\ \A u \in Threads \ {Main} : u \in Flying' <=> u \in Flying
    BY <1>2 DEF MainClaim, GetNextTask, Flying
  <2>2. /\ next < NumTasks => Main \in Flying'
        /\ next >= NumTasks => Main \notin Flying'
    BY <1>2, NumTasksAssumption DEF MainClaim, GetNextTask, Flying
  <2> QED
    BY <1>2, <2>1, <2>2, ClaimFlow DEF MainClaim
<1>3. CASE MainFirstPassDone
  <2>1. CASE drained
    BY <1>3, <2>1 DEF MainFirstPassDone, Keeps, Flying
  <2>2. CASE ~drained
    <3>1. Main \notin Flying /\ \A u \in Threads \ {Main} : u \in Flying' <=> u \in Flying
      BY <1>3, <2>2 DEF MainFirstPassDone, GetNextTask, Flying
    <3>2. pc'[Main] = "unlock" /\ drained' = (next >= NumTasks)
      BY <1>3, <2>2 DEF MainFirstPassDone, GetNextTask
    <3>3. next < NumTasks <=> ~(next >= NumTasks)
      BY NumTasksAssumption
    <3>4. /\ next < NumTasks => ~drained'
          /\ next >= NumTasks => drained'
      BY <3>2, <3>3, Zenon
    <3>5. /\ next < NumTasks => Main \in Flying'
          /\ next >= NumTasks => Main \notin Flying'
      BY <3>2, <3>4 DEF Flying
    <3> QED
      BY <1>3, <2>2, <3>1, <3>5, ClaimFlow DEF MainFirstPassDone
  <2> QED
    BY <2>1, <2>2
<1>4. CASE MainUnlock \/ MainCreateContext \/ MainLoopDone
  BY <1>4 DEF MainUnlock, MainCreateContext, MainLoopDone, Keeps, Flying
<1>5. CASE MainNotify
  BY <1>5 DEF MainNotify, Wake, Keeps, Flying
<1>6. CASE WaitForTasks \/ WaitSleep \/ Return
  BY <1>6 DEF WaitForTasks, WaitSleep, Return, Keeps, Flying
<1> QED
  BY <1>1, <1>2, <1>3, <1>4, <1>5, <1>6

(* Every step of the system is one of the three. *)
LEMMA StepFlow ==
  ASSUME TypeOK, ControlInv, Next
  PROVE  Keeps \/ \E t \in Threads : Claims(t) \/ Completes(t)
<1>1. CASE MainStep
  BY <1>1, MainFlow DEF Threads
<1>2. ASSUME NEW t \in Threads, InnerLoop(t)
      PROVE  Keeps \/ Claims(t) \/ Completes(t)
  BY <1>2, InnerFlow DEF ControlInv
<1>3. ASSUME NEW t \in Threads, SpuriousWakeup(t)
      PROVE  Keeps
  BY <1>3 DEF SpuriousWakeup, TypeOK, ControlInv, PlaceInv, Goto, Counters, Local, MainLocal,
              InFlight, Keeps, Flying
<1>4. ASSUME NEW t \in Helpers, HelperStep(t) \/ Arrive(t)
      PROVE  Keeps \/ Claims(t)
  BY <1>4, HelperFlow DEF ControlInv
<1> QED
  BY <1>1, <1>2, <1>3, <1>4 DEF Next, Threads

-----------------------------------------------------------------------------
(* Counting *)

(* Sets of threads are finite. *)
LEMMA FlyingFinite ==
  ASSUME NEW S \in SUBSET Threads
  PROVE  IsFiniteSet(S) /\ Cardinality(S) \in Nat
<1>1. IsFiniteSet(Threads)
  BY ThreadsAssumption, FS_AddElement DEF Threads
<1> QED
  BY <1>1, FS_Subset, FS_CardinalityType

(* CompletedOncePerClaim in terms of Flying. *)
LEMMA OncePerClaim ==
  CompletedOncePerClaim <=>
    /\ completed + Cardinality(Flying) = Claimed
    /\ \A t, u \in Flying : t # u => task[t] # task[u]
    /\ \A t \in Flying : task[t] < Claimed
BY DEF CompletedOncePerClaim, Flying

(* A claim takes the next number, which is larger than those that are held;   *)
(* a completion gives up one; so the books stay balanced.                     *)
LEMMA FlowCount ==
  ASSUME TypeOK, CompletedOncePerClaim,
         Keeps \/ \E t \in Threads : Claims(t) \/ Completes(t)
  PROVE  CompletedOncePerClaim'
<1> USE NumTasksAssumption
<1>1. Flying \in SUBSET Threads
  BY DEF Flying
<1>2. /\ completed + Cardinality(Flying) = Claimed
      /\ \A t, u \in Flying : t # u => task[t] # task[u]
      /\ \A t \in Flying : task[t] < Claimed
  BY OncePerClaim
<1>3. SUFFICES /\ completed' + Cardinality(Flying') = Claimed'
               /\ \A t, u \in Flying' : t # u => task'[t] # task'[u]
               /\ \A t \in Flying' : task'[t] < Claimed'
  BY DEF CompletedOncePerClaim, Flying
<1>4. Cardinality(Flying) \in Nat /\ Claimed \in Nat /\ completed \in Nat /\ next \in Nat
  BY <1>1, FlyingFinite DEF Claimed, TypeOK
<1>5. CASE Keeps
  <2>1. Claimed' = Claimed
    BY <1>4, <1>5 DEF Keeps, Claimed
  <2> QED
    BY <1>2, <1>5, <2>1 DEF Keeps
<1>6. ASSUME NEW t \in Threads, Claims(t)
      PROVE  /\ completed' + Cardinality(Flying') = Claimed'
             /\ \A u, v \in Flying' : u # v => task'[u] # task'[v]
             /\ \A u \in Flying' : task'[u] < Claimed'
  <2>1. Claimed = next /\ Claimed' = next + 1
    BY <1>4, <1>6 DEF Claims, Claimed
  <2>2. Cardinality(Flying') = Cardinality(Flying) + 1
    BY <1>1, <1>6, FlyingFinite, FS_AddElement DEF Claims
  <2>3. task'[t] = next /\ \A u \in Flying : task'[u] = task[u] /\ task[u] < next
                                             /\ task[u] \in Nat
    BY <1>1, <1>2, <1>6, <2>1 DEF Claims, TypeOK, Tasks, NoTask
  <2>4. \A u \in Flying' : u = t \/ u \in Flying
    BY <1>6 DEF Claims
  <2>5. \A u \in Flying' : task'[u] < Claimed'
    BY <1>4, <2>1, <2>3, <2>4
  <2>6. \A u, v \in Flying' : u # v => task'[u] # task'[v]
    BY <1>2, <1>4, <2>3, <2>4
  <2> QED
    BY <1>2, <1>4, <1>6, <2>1, <2>2, <2>5, <2>6 DEF Claims
<1>7. ASSUME NEW t \in Threads, Completes(t)
      PROVE  /\ completed' + Cardinality(Flying') = Claimed'
             /\ \A u, v \in Flying' : u # v => task'[u] # task'[v]
             /\ \A u \in Flying' : task'[u] < Claimed'
  <2>1. t \in Flying
    BY <1>7 DEF Completes, Flying, InFlight
  <2>2. Cardinality(Flying') = Cardinality(Flying) - 1
    BY <1>1, <1>7, <2>1, FlyingFinite, FS_RemoveElement DEF Completes
  <2>3. Claimed' = Claimed
    BY <1>7 DEF Completes, Claimed
  <2> QED
    BY <1>2, <1>4, <1>7, <2>2, <2>3 DEF Completes
<1> QED
  BY <1>5, <1>6, <1>7

(* A thread with a task has one of the tasks. *)
LEMMA HeldTask ==
  ASSUME TypeOK, CompletedOncePerClaim, NEW t \in Threads, InFlight(t)
  PROVE  task[t] \in Tasks
<1>1. task[t] < NumTasks
  BY NumTasksAssumption DEF CompletedOncePerClaim, Claimed, TypeOK, Tasks, NoTask
<1> QED
  BY <1>1, NumTasksAssumption DEF TypeOK, Tasks, NoTask

-----------------------------------------------------------------------------
(* Types, errors and tasks *)

(* Every step keeps the variables in their types. *)
LEMMA TypeStep ==
  ASSUME TypeOK, ControlInv, CompletedOncePerClaim, Next
  PROVE  TypeOK'
<1> USE ThreadsAssumption, NumTasksAssumption
    DEF TypeOK, Goto, Counters, Local, MainLocal, Flags, Outcome, Threads, PCs, GetNextTask
<1> DEFINE NextIn == next \in Nat /\ (next < NumTasks => next \in Tasks)
<1>1. NextIn
  BY DEF Tasks
<1>2. CASE MainStep
  <2> USE <1>2 DEF MainStep
  <2>1. CASE SetTasks
    BY <2>1 DEF SetTasks
  <2>2. CASE MainClaim
    BY <1>1, <2>2 DEF MainClaim
  <2>3. CASE MainFirstPassDone
    <3>1. drained' \in BOOLEAN
      <4>1. CASE drained
        BY <2>3, <4>1 DEF MainFirstPassDone
      <4>2. CASE ~drained
        <5>1. drained' = (next >= NumTasks)
          BY <2>3, <4>2 DEF MainFirstPassDone
        <5> QED
          BY <5>1
      <4> QED
        BY <4>1, <4>2
    <3>2. next' \in Nat /\ task' \in [Threads -> Tasks \cup {NoTask}]
      BY <1>1, <2>3 DEF MainFirstPassDone
    <3>3. pc' \in [Threads -> PCs]
      BY <2>3 DEF MainFirstPassDone
    <3> QED
      BY <2>3, <3>1, <3>2, <3>3 DEF MainFirstPassDone
  <2>4. CASE MainUnlock \/ MainCreateContext \/ MainLoopDone
    BY ZenonT(60), <2>4 DEF MainUnlock, MainCreateContext, MainLoopDone
  <2>5. CASE MainNotify
    BY <2>5 DEF MainNotify, Wake
  <2>6. CASE WaitForTasks \/ WaitSleep \/ Return
    BY <2>6 DEF WaitForTasks, WaitSleep, Return
  <2> QED
    BY <2>1, <2>2, <2>3, <2>4, <2>5, <2>6
<1>3. ASSUME NEW t \in Threads, InnerLoop(t)
      PROVE  TypeOK'
  <2> USE <1>3 DEF InnerLoop
  <2>1. CASE RunTask(t)
    <3>1. task[t] \in Tasks
      BY <2>1, HeldTask DEF RunTask, InFlight
    <3> QED
      BY <2>1, <3>1 DEF RunTask
  <2>2. CASE RecordError(t) \/ StoreError(t)
    BY ZenonT(60), <2>2 DEF RecordError, StoreError
  <2>3. CASE TaskCompleted(t)
    BY <2>3 DEF TaskCompleted
  <2>8. CASE NotifyEvent(t)
    BY <2>8 DEF NotifyEvent, Wake
  <2>4. CASE AfterTask(t)
    BY <2>4 DEF AfterTask
  <2>5. CASE CheckError(t)
    BY <2>5 DEF CheckError
  <2>6. CASE NextTask(t)
    BY <1>1, <2>6 DEF NextTask
  <2>7. CASE DrainTask(t)
    BY <1>1, <2>7 DEF DrainTask
  <2> QED
    BY <2>1, <2>2, <2>3, <2>4, <2>5, <2>6, <2>7, <2>8
<1>4. ASSUME NEW t \in Threads, SpuriousWakeup(t)
      PROVE  TypeOK'
  BY <1>4 DEF SpuriousWakeup
<1>5. ASSUME NEW t \in Helpers, HelperStep(t) \/ Arrive(t)
      PROVE  TypeOK'
  <2>1. CASE HelperClaim(t)
    BY <1>1, <1>5, <2>1 DEF HelperStep, Arrive, HelperClaim
  <2>2. CASE HelperJoin(t) \/ HelperSleep(t)
    BY ZenonT(60), <1>5, <2>2 DEF HelperStep, Arrive, HelperJoin, HelperSleep
  <2>3. CASE CreateContext(t)
    BY <1>5, <2>3 DEF HelperStep, Arrive, CreateContext
  <2>6. CASE HelperExit(t)
    BY <1>5, <2>6 DEF HelperStep, Arrive, HelperExit
  <2>4. CASE HelperGate(t)
    BY <1>5, <2>4 DEF HelperStep, Arrive, HelperGate, PastGate
  <2>5. CASE Arrive(t)
    BY <2>5 DEF Arrive
  <2> QED
    BY <1>5, <2>1, <2>2, <2>3, <2>4, <2>5, <2>6 DEF HelperStep
<1> QED
  BY <1>2, <1>3, <1>4, <1>5 DEF Next

(* Steps outside of runInnerLoop leave alone what is known about errors. *)
Quiet ==
  /\ UNCHANGED <<haveError, error, ran, failed, mode>>
  /\ \A t \in Threads :
       /\ pc'[t] \in {"record", "store", "complete", "drain"} => pc'[t] = pc[t]
       /\ pc[t] \in {"record", "store"} => pc'[t] = pc[t]
       /\ pc[t] \in {"record", "store", "complete"} => task'[t] = task[t]

LEMMA QuietError ==
  ASSUME TypeOK, ErrorInv, Quiet
  PROVE  ErrorInv'
BY DEF ErrorInv, Quiet

LEMMA OuterQuiet ==
  ASSUME TypeOK, PlaceInv,
         MainStep \/ (\E t \in Threads : SpuriousWakeup(t))
                  \/ (\E t \in Helpers : HelperStep(t) \/ Arrive(t))
  PROVE  Quiet
<1> USE ThreadsAssumption
    DEF TypeOK, PlaceInv, Goto, Counters, Local, MainLocal, Outcome, Threads, GetNextTask, Quiet
<1>1. CASE MainStep
  <2> USE <1>1 DEF MainStep
  <2>1. CASE SetTasks
    BY <2>1 DEF SetTasks, Extra
  <2>2. CASE MainClaim
    BY <2>2 DEF MainClaim
  <2>3. CASE MainFirstPassDone
    BY <2>3 DEF MainFirstPassDone
  <2>4. CASE MainUnlock \/ MainCreateContext \/ MainLoopDone
    BY <2>4 DEF MainUnlock, MainCreateContext, MainLoopDone
  <2>5. CASE MainNotify
    BY <2>5 DEF MainNotify, Wake
  <2>6. CASE WaitForTasks \/ WaitSleep \/ Return
    BY <2>6 DEF WaitForTasks, WaitSleep, Return
  <2> QED
    BY <2>1, <2>2, <2>3, <2>4, <2>5, <2>6
<1>2. ASSUME NEW t \in Threads, SpuriousWakeup(t)
      PROVE  Quiet
  BY <1>2 DEF SpuriousWakeup
<1>3. ASSUME NEW t \in Helpers, HelperStep(t) \/ Arrive(t)
      PROVE  Quiet
  <2>1. CASE HelperClaim(t)
    BY <1>3, <2>1 DEF HelperStep, Arrive, HelperClaim
  <2>2. CASE ~HelperClaim(t)
    BY <1>3, <2>2 DEF HelperStep, Arrive, HelperJoin, CreateContext, HelperGate, PastGate,
       HelperSleep, HelperExit
  <2> QED
    BY <2>1, <2>2
<1> QED
  BY <1>1, <1>2, <1>3

(* runInnerLoop: the one who sets the flag stores the error of its task, who  *)
(* comes second leaves it, and only they and those that drain do not run.     *)
LEMMA InnerError ==
  ASSUME TypeOK, PlaceInv, ErrorInv, CompletedOncePerClaim, NEW t \in Threads, InnerLoop(t)
  PROVE  ErrorInv'
<1> USE DEF TypeOK, InnerLoop, Goto, Counters, Local, MainLocal, Outcome
<1>1. CASE RunTask(t)
  BY <1>1 DEF RunTask, ErrorInv
<1>2. CASE RecordError(t)
  BY <1>2 DEF RecordError, ErrorInv
<1>3. CASE StoreError(t)
  BY <1>3 DEF StoreError, ErrorInv
<1>4. CASE TaskCompleted(t)
  BY <1>4 DEF TaskCompleted, ErrorInv
<1>5. CASE NotifyEvent(t)
  BY <1>5 DEF NotifyEvent, Wake, ErrorInv
<1>6. CASE AfterTask(t)
  BY <1>6 DEF AfterTask, ErrorInv
<1>7. CASE CheckError(t)
  BY <1>7 DEF CheckError, ErrorInv
<1>8. CASE NextTask(t)
  BY <1>8 DEF NextTask, GetNextTask, ErrorInv
<1>9. CASE DrainTask(t)
  BY <1>9 DEF DrainTask, GetNextTask, ErrorInv
<1> QED
  BY <1>1, <1>2, <1>3, <1>4, <1>5, <1>6, <1>7, <1>8, <1>9

(* What has been run, and the flag, are never taken back. *)
LEMMA OutcomeGrows ==
  ASSUME TypeOK, PlaceInv, Next
  PROVE  /\ ran \subseteq ran' /\ failed \subseteq failed'
         /\ haveError => haveError'
<1>1. CASE Quiet
  BY <1>1 DEF Quiet
<1>2. ASSUME NEW t \in Threads, InnerLoop(t)
      PROVE  /\ ran \subseteq ran' /\ failed \subseteq failed'
             /\ haveError => haveError'
  BY <1>2 DEF InnerLoop, RunTask, RecordError, StoreError, TaskCompleted, NotifyEvent,
              AfterTask, CheckError, NextTask, DrainTask, Outcome
<1> QED
  BY <1>1, <1>2, OuterQuiet DEF Next

(* A task that is given up has been run or there is an error; a task that is  *)
(* claimed is in the hands of the one who claimed it.                         *)
LEMMA TaskStep ==
  ASSUME TypeOK, ControlInv, ErrorInv, TaskInv, Next
  PROVE  TaskInv'
<1> SUFFICES ASSUME NEW i \in Tasks'
             PROVE  (\/ i \in ran \cup failed \/ haveError \/ i >= next
                     \/ \E t \in Flying : task[t] = i)'
  BY DEF TaskInv
<1> USE NumTasksAssumption
<1>1. i \in Tasks /\ i \in Nat /\ i < NumTasks /\ next \in Nat
  BY DEF Tasks, TypeOK
<1>2. /\ ran \subseteq ran' /\ failed \subseteq failed'
      /\ haveError => haveError'
  BY OutcomeGrows DEF ControlInv
<1>3. CASE i \in ran \cup failed \/ haveError
  BY <1>2, <1>3
<1>4. CASE Keeps
  BY <1>1, <1>2, <1>4 DEF TaskInv, Keeps
<1>5. ASSUME NEW t \in Threads, Claims(t)
      PROVE  (\/ i \in ran \cup failed \/ haveError \/ i >= next
              \/ \E u \in Flying : task[u] = i)'
  <2>1. task'[t] = next /\ t \in Flying' /\ next' = next + 1
    BY <1>5 DEF Claims, TypeOK
  <2>2. \A u \in Flying : u \in Flying' /\ task'[u] = task[u]
    BY <1>5 DEF Claims, TypeOK, Flying
  <2> QED
    BY <1>1, <1>3, <2>1, <2>2 DEF TaskInv
<1>6. ASSUME NEW t \in Threads, Completes(t)
      PROVE  (\/ i \in ran \cup failed \/ haveError \/ i >= next
              \/ \E u \in Flying : task[u] = i)'
  <2>1. task[t] \in ran \cup failed \/ haveError
    BY <1>6 DEF Completes, ErrorInv
  <2>2. \A u \in Flying \ {t} : u \in Flying' /\ task'[u] = task[u]
    BY <1>6 DEF Completes
  <2> QED
    BY <1>1, <1>3, <1>6, <2>1, <2>2 DEF TaskInv, Completes
<1> QED
  BY <1>4, <1>5, <1>6, StepFlow

-----------------------------------------------------------------------------
(* The theorems *)

(* The state in which the call begins. *)
LEMMA InitIInv == Init => IInv
<1> SUFFICES ASSUME Init PROVE IInv
  OBVIOUS
<1> USE ThreadsAssumption, NumTasksAssumption DEF Init, Threads
<1>1. Extra \subseteq Helpers
  BY SetupsAssumption DEF Extra
<1>2. TypeOK
  BY DEF TypeOK, PCs, Tasks, NoTask
<1>3. PlaceInv /\ GateInv /\ EndInv
  BY DEF PlaceInv, GateInv, EndInv, Inner
<1>4. PassInv
  <2>1. ExclusiveStart => Extra = {}
    BY DEF ExclusiveStart
  <2>2. Extra = {} => ~mainThreadUnlocked
    BY Zenon
  <2>3. pc[Main] = "begin" /\ ~ctx[Main] /\ pass = IF ExclusiveStart THEN 1 ELSE 2
    OBVIOUS
  <2> QED
    BY <2>1, <2>2, <2>3 DEF PassInv, Inner
<1>5. Flying = {}
  BY DEF Flying, InFlight
<1>6. CompletedOncePerClaim
  BY <1>5, OncePerClaim, FS_EmptySet DEF Claimed
<1>7. ErrorInv /\ TaskInv
  BY DEF ErrorInv, TaskInv, Tasks
<1> QED
  BY <1>2, <1>3, <1>4, <1>6, <1>7 DEF IInv

(* A step in which nothing changes. *)
LEMMA StutterIInv ==
  ASSUME IInv, UNCHANGED vars
  PROVE  IInv'
<1> USE DEF IInv, vars
<1>1. Extra' = Extra /\ ExclusiveStart' = ExclusiveStart
  BY DEF Extra, ExclusiveStart
<1>2. TypeOK' /\ PlaceInv' /\ GateInv'
  BY DEF TypeOK, PlaceInv, GateInv
<1>3. PassInv' /\ EndInv'
  BY <1>1 DEF PassInv, EndInv
<1>4. Flying' = Flying
  BY DEF Flying, InFlight
<1>5. CompletedOncePerClaim'
  BY DEF CompletedOncePerClaim, InFlight, Claimed
<1>6. ErrorInv' /\ TaskInv'
  BY <1>4 DEF ErrorInv, TaskInv
<1> QED
  BY <1>2, <1>3, <1>5, <1>6

(* Every step keeps the invariant. *)
LEMMA StepIInv == IInv /\ [Next]_vars => IInv'
<1> SUFFICES ASSUME IInv, Next PROVE IInv'
  BY StutterIInv
<1>0. ControlInv
  BY DEF IInv, ControlInv
<1>1. TypeOK'
  BY <1>0, TypeStep DEF IInv
<1>2. ControlInv'
  BY <1>0, MainControl, InnerControl, SpuriousControl, HelperControl DEF IInv, Next
<1>3. CompletedOncePerClaim'
  BY <1>0, StepFlow, FlowCount DEF IInv
<1>4. ErrorInv'
  BY OuterQuiet, QuietError, InnerError DEF IInv, Next
<1>5. TaskInv'
  BY <1>0, TaskStep DEF IInv
<1>6. EndInv'
  BY EndStep DEF IInv
<1> QED
  BY <1>1, <1>2, <1>3, <1>4, <1>5, <1>6 DEF IInv, ControlInv

(* The inductive invariant of the parallel for holds in every reachable state.*)
THEOREM ParallelInductive == Spec => []IInv
BY InitIInv, StepIInv, PTL DEF Spec

(* However many threads share however many tasks, every successful GetNextTask*)
(* is answered by one TaskCompleted, and no two threads have the same task.   *)
THEOREM CompletedOnce == Spec => []CompletedOncePerClaim
<1>1. IInv => CompletedOncePerClaim
  BY DEF IInv
<1> QED
  BY <1>1, ParallelInductive, PTL

(* No helper runs a task, or creates a context, against the exclusion that    *)
(* the caller asked for.                                                      *)
THEOREM ExclusionKept == Spec => []ExclusionRespected
<1>1. IInv => ExclusionRespected
  BY DEF IInv, TypeOK, PassInv, GateInv, ExclusionRespected, Inner
<1> QED
  BY <1>1, ParallelInductive, PTL

(* Once the main thread has waited for the tasks, nobody holds one, and all   *)
(* of them have been claimed.                                                 *)
LEMMA NoneFlying ==
  ASSUME IInv, pc[Main] \in {"join", "returned"}
  PROVE  Flying = {} /\ next >= NumTasks
<1> USE NumTasksAssumption DEF IInv
<1>1. Flying \in SUBSET Threads
  BY DEF Flying
<1>2. Cardinality(Flying) \in Nat
  BY <1>1, FlyingFinite
<1>3. completed + Cardinality(Flying) = Claimed /\ completed >= NumTasks
  BY OncePerClaim DEF EndInv
<1>4. Cardinality(Flying) = 0 /\ next >= NumTasks
  BY <1>2, <1>3 DEF Claimed, TypeOK
<1> QED
  BY <1>1, <1>4, FlyingFinite, FS_EmptySet

(* Whichever threads of the client come, come late or are still on their way, *)
(* when the main thread has waited for the tasks none of them runs a task or  *)
(* stores an error any more, and none will find one to run.                   *)
THEOREM TasksEnd == Spec => []TasksOver
<1>1. IInv => TasksOver
  BY NoneFlying DEF TasksOver, Flying
<1> QED
  BY <1>1, ParallelInductive, PTL

(* When the call returns nobody holds a task, so that all of them ran, or the *)
(* error of one that failed is returned.                                      *)
THEOREM OutcomeReturned == Spec => []ReturnsOutcome
<1>1. ASSUME IInv, pc[Main] = "returned"
      PROVE  (failed = {} => error = NoTask /\ ran = Tasks) /\ (failed # {} => error \in failed)
  <2> USE <1>1, NumTasksAssumption DEF IInv
  <2>1. Flying = {} /\ next >= NumTasks
    BY NoneFlying
  <2>2. \A t \in Threads : pc[t] \notin {"record", "store"}
    BY <2>1 DEF Flying, InFlight
  <2>3. \A i \in Tasks : i \in ran \cup failed \/ haveError
    BY <2>1 DEF TaskInv, Tasks, TypeOK
  <2> QED
    BY <2>2, <2>3 DEF ErrorInv, TypeOK
<1>2. IInv => ReturnsOutcome
  BY <1>1 DEF ReturnsOutcome
<1> QED
  BY <1>2, ParallelInductive, PTL
==============================================================================
