-------------------------- MODULE CompilerPoolProofs -------------------------
(***************************************************************************)
(* Proofs about CompilerPool for any finite set of clients and any sets of *)
(* options, chips and contexts: contexts are used exclusively; compilers   *)
(* run with their own options, unless a command line was rejected since    *)
(* the options were last reset; and the pool and the fatal error handler   *)
(* are there for every compiler that lives, unless one was created during  *)
(* the shutdown of the last one.                                           *)
(***************************************************************************)
EXTENDS CompilerPool, FiniteSetTheorems, TLAPS

-----------------------------------------------------------------------------
(* The inductive invariant *)

(* The compilers that instanceCount, and those that outRedirectCount counts:  *)
(* they have not yet come to the place in ~Compiler that decrements it.       *)
Counted == {t \in Clients : phase[t] \in {"live", "cleaned", "restored"}}
Redirected == {t \in Clients : phase[t] \in {"live", "cleaned"}}

(* The counters that decide who shuts down, and whether options are parsed    *)
(* again, are exact.                                                          *)
CountInv ==
  /\ instanceCount = Cardinality(Counted)
  /\ outRedirectCount = Cardinality(Redirected)

(* Only live compilers build, and what the pool lists is allocated. *)
HoldInv ==
  /\ \A t \in Clients : held[t] # {} => phase[t] = "live"
  /\ members \subseteq live

(* Compilers that redirect the output share one command line, the one whose   *)
(* hash is kept, and LLVM runs with it, rejected ones aside.                  *)
OptionInv ==
  /\ \A t \in Redirected : HaveParsedOptions /\ options[t] = SOptionHash
  /\ ~rejected => inEffect = IF HaveParsedOptions THEN {SOptionHash} ELSE {}

(* While instances are counted there are a pool and one handler; whoever      *)
(* shuts down was the last one; and no handler stays behind.                  *)
ShutdownInv ==
  /\ instanceCount > 0 => pool = "live" /\ handler = 1
  /\ \A t \in Clients : phase[t] \in ShuttingDown => instanceCount = 0
  /\ handler \in {0, 1}
  /\ handler = 1 => instanceCount > 0 \/ \E t \in Clients : phase[t] = "last"

IInv ==
  /\ TypeOK /\ CountInv /\ HoldInv /\ ExclusiveUse /\ OptionInv
  /\ ~raced => ShutdownInv

-----------------------------------------------------------------------------
(* Counting *)

(* Sets of clients are finite, and have a size that is zero for none only. *)
LEMMA ClientCount ==
  ASSUME NEW S \in SUBSET Clients
  PROVE  /\ IsFiniteSet(S) /\ Cardinality(S) \in Nat
         /\ Cardinality(S) = 0 <=> S = {}
<1>1. IsFiniteSet(S)
  BY ClientsAssumption, FS_Subset
<1> QED
  BY <1>1, FS_CardinalityType, FS_EmptySet

(* A client that joins such a set adds one to its size. *)
LEMMA CountJoin ==
  ASSUME NEW S \in SUBSET Clients, NEW t \in Clients, t \notin S
  PROVE  Cardinality(S \cup {t}) = Cardinality(S) + 1
BY ClientCount, FS_AddElement

(* A client that leaves it takes one off. *)
LEMMA CountLeave ==
  ASSUME NEW S \in SUBSET Clients, NEW t \in S
  PROVE  Cardinality(S \ {t}) = Cardinality(S) - 1
BY ClientCount, FS_RemoveElement

(* The counters are zero exactly when nobody is counted. *)
LEMMA CountZero ==
  ASSUME CountInv
  PROVE  /\ instanceCount \in Nat /\ outRedirectCount \in Nat
         /\ instanceCount = 0 <=> Counted = {}
         /\ outRedirectCount = 0 <=> Redirected = {}
<1>1. Counted \in SUBSET Clients /\ Redirected \in SUBSET Clients
  BY DEF Counted, Redirected
<1> QED
  BY <1>1, ClientCount DEF CountInv

(* Create counts the new compiler twice. *)
LEMMA CreateCount ==
  ASSUME TypeOK, CountInv, NEW t \in Clients, NEW o, NEW g,
         phase[t] = "none", NewCompiler(t, o, g)
  PROVE  CountInv'
<1>1. Counted' = Counted \cup {t} /\ t \notin Counted
  BY DEF NewCompiler, Enter, TypeOK, Counted
<1>2. Redirected' = Redirected \cup {t} /\ t \notin Redirected
  BY DEF NewCompiler, Enter, TypeOK, Redirected
<1>3. Cardinality(Counted') = Cardinality(Counted) + 1
  BY <1>1, CountJoin DEF Counted
<1>4. Cardinality(Redirected') = Cardinality(Redirected) + 1
  BY <1>2, CountJoin DEF Redirected
<1> QED
  BY <1>3, <1>4 DEF CountInv, NewCompiler

(* DestroyRestore and DestroyCount count it out, once each. *)
LEMMA DestroyCounts ==
  ASSUME TypeOK, CountInv, NEW t \in Clients, DestroyRestore(t) \/ DestroyCount(t)
  PROVE  CountInv'
<1>1. CASE DestroyRestore(t)
  <2>1. Counted' = Counted
    BY <1>1 DEF DestroyRestore, Enter, TypeOK, Counted
  <2>2. Redirected' = Redirected \ {t} /\ t \in Redirected
    BY <1>1 DEF DestroyRestore, Enter, TypeOK, Redirected
  <2>3. Cardinality(Redirected') = Cardinality(Redirected) - 1
    BY <2>2, CountLeave DEF Redirected
  <2> QED
    BY <1>1, <2>1, <2>3 DEF CountInv, DestroyRestore
<1>2. CASE DestroyCount(t)
  <2>1. Redirected' = Redirected
    BY <1>2 DEF DestroyCount, Enter, TypeOK, Redirected
  <2>2. Counted' = Counted \ {t} /\ t \in Counted
    BY <1>2 DEF DestroyCount, Enter, TypeOK, Counted
  <2>3. Cardinality(Counted') = Cardinality(Counted) - 1
    BY <2>2, CountLeave DEF Counted
  <2> QED
    BY <1>2, <2>1, <2>3 DEF CountInv, DestroyCount
<1> QED
  BY <1>1, <1>2

(* Every other step leaves the counted compilers and the counters alone. *)
LEMMA SameCount ==
  ASSUME CountInv, Counted' = Counted, Redirected' = Redirected,
         UNCHANGED <<instanceCount, outRedirectCount>>
  PROVE  CountInv'
BY DEF CountInv

-----------------------------------------------------------------------------
(* Invariance *)

(* The state before the first compiler is created. *)
LEMMA InitIInv == Init => IInv
<1> SUFFICES ASSUME Init PROVE IInv
  OBVIOUS
<1>1. TypeOK
  BY DEF Init, TypeOK, Phases
<1>2. Counted = {} /\ Redirected = {}
  BY DEF Init, Counted, Redirected
<1>3. CountInv
  BY <1>2, FS_EmptySet DEF Init, CountInv
<1>4. HoldInv /\ ExclusiveUse
  BY DEF Init, HoldInv, ExclusiveUse
<1>5. OptionInv /\ ShutdownInv
  BY <1>2 DEF Init, OptionInv, ShutdownInv
<1> QED
  BY <1>1, <1>3, <1>4, <1>5 DEF IInv

(* A new compiler: when the options are parsed again no compiler redirects    *)
(* the output, and when they are not they are the same.                       *)
LEMMA CreateIInv ==
  ASSUME IInv, NEW t \in Clients, NEW o \in Options, NEW g \in GfxIps, Create(t, o, g)
  PROVE  IInv'
<1> USE DEF IInv
<1>1. CountInv'
  BY CreateCount DEF Create
<1>2. TypeOK'
  <2>1. instanceCount' \in Nat /\ outRedirectCount' \in Nat /\ handler' \in Nat
    BY DEF Create, NewCompiler, TypeOK
  <2>2. phase' \in [Clients -> Phases]
    BY DEF Create, NewCompiler, Enter, TypeOK, Phases
  <2>3. members' \subseteq Contexts /\ pool' \in {"null", "live", "freed"}
    BY DEF Create, NewCompiler, TypeOK
  <2>4. inEffect' \subseteq Options /\ HaveParsedOptions' \in BOOLEAN
    BY DEF Create, LeftInEffect, TypeOK
  <2>5. rejected' \in BOOLEAN /\ raced' \in BOOLEAN
    BY Zenon DEF Create, NewCompiler, TypeOK
  <2> QED
    BY <2>1, <2>2, <2>3, <2>4, <2>5 DEF Create, NewCompiler, TypeOK
<1>3. held[t] = {}
  BY DEF HoldInv, Create
<1>4. HoldInv'
  BY <1>3 DEF HoldInv, Create, NewCompiler, Enter, TypeOK
<1>5. ExclusiveUse'
  BY <1>3 DEF ExclusiveUse, Create, NewCompiler, TypeOK
<1>6. OptionInv'
  <2>1. Redirected' = Redirected \cup {t}
    BY DEF Create, NewCompiler, Enter, TypeOK, Redirected
  <2>2. CASE MustParse(o)
    <3>1. Redirected = {}
      BY <2>2, CountZero DEF MustParse, OptionInv
    <3> QED
      BY <2>1, <2>2, <3>1 DEF OptionInv, Create, NewCompiler, LeftInEffect, TypeOK
  <2>3. CASE ~MustParse(o)
    <3>1. HaveParsedOptions /\ o = SOptionHash
      BY <2>3, CountZero DEF MustParse, Create, Incompatible
    <3> QED
      BY <2>1, <2>3, <3>1 DEF OptionInv, Create, NewCompiler, TypeOK, Redirected
  <2> QED
    BY <2>2, <2>3
<1>7. ASSUME ~raced' PROVE ShutdownInv'
  <2>1. ~raced /\ \A u \in Clients : phase[u] \notin ShuttingDown
    BY <1>7 DEF Create, NewCompiler
  <2>2. \A u \in Clients : phase'[u] \notin ShuttingDown
    BY <2>1 DEF Create, NewCompiler, Enter, TypeOK, ShuttingDown
  <2>3. instanceCount' > 0
    BY DEF Create, NewCompiler, TypeOK
  <2>4. pool' = "live" /\ handler' = 1
    <3>1. CASE instanceCount = 0
      <4>1. handler = 0
        BY <2>1, <3>1 DEF ShutdownInv, ShuttingDown
      <4> QED
        BY <3>1, <4>1 DEF Create, NewCompiler
    <3>2. CASE instanceCount # 0
      BY <2>1, <3>2, CountZero DEF ShutdownInv, Create, NewCompiler
    <3> QED
      BY <3>1, <3>2
  <2> QED
    BY <2>2, <2>3, <2>4 DEF ShutdownInv
<1> QED
  BY <1>1, <1>2, <1>4, <1>5, <1>6, <1>7

(* A create that fails changes the options in effect, or its client only. *)
LEMMA CreateFailsIInv ==
  ASSUME IInv, NEW t \in Clients, NEW o \in Options,
         CreateParseError(t, o) \/ CreateIncompatible(t, o)
  PROVE  IInv'
<1> USE DEF IInv
<1>1. CASE CreateParseError(t, o)
  <2> USE <1>1 DEF CreateParseError, LeftInEffect, countVars, poolVars, clientVars
  <2>1. Counted' = Counted /\ Redirected' = Redirected
    BY DEF Counted, Redirected
  <2>2. TypeOK' /\ CountInv' /\ OptionInv'
    BY <2>1, SameCount DEF TypeOK, OptionInv
  <2>3. HoldInv' /\ ExclusiveUse'
    BY DEF HoldInv, ExclusiveUse
  <2>4. ShutdownInv => ShutdownInv'
    BY DEF ShutdownInv
  <2> QED
    BY <2>2, <2>3, <2>4
<1>2. CASE CreateIncompatible(t, o)
  <2> USE <1>2 DEF CreateIncompatible, Enter, optionVars, countVars, poolVars,
                   clientVars
  <2>1. TypeOK'
    BY DEF TypeOK, Phases
  <2>2. Counted' = Counted /\ Redirected' = Redirected
    BY DEF TypeOK, Counted, Redirected
  <2>3. CountInv' /\ OptionInv'
    BY <2>2, SameCount DEF OptionInv
  <2>4. HoldInv' /\ ExclusiveUse'
    BY DEF TypeOK, HoldInv, ExclusiveUse
  <2>5. ShutdownInv => ShutdownInv'
    BY DEF TypeOK, ShutdownInv, ShuttingDown
  <2> QED
    BY <2>1, <2>3, <2>4, <2>5
<1> QED
  BY <1>1, <1>2

(* A build takes a context that no other build has: a free one of the pool is *)
(* not in use, and a new one was not allocated.                               *)
LEMMA AcquireIInv ==
  ASSUME IInv, NEW t \in Clients, NEW c \in Contexts, AcquireFree(t, c) \/ AcquireNew(t, c)
  PROVE  IInv'
<1> USE DEF IInv
<1>1. PICK uses \in Nat : Acquire(t, c, uses)
  <2>1. CASE AcquireFree(t, c)
    BY <2>1 DEF AcquireFree, TypeOK
  <2>2. CASE AcquireNew(t, c)
    BY <2>2 DEF AcquireNew
  <2> QED
    BY <2>1, <2>2
<1> USE DEF Acquire, optionVars, countVars
<1>2. members' \subseteq live' /\ c \in live' /\ live \subseteq live'
  BY DEF HoldInv, AcquireFree, AcquireNew, Available
<1>3. live' \subseteq Contexts /\ ip' \in [Contexts -> GfxIps]
  BY DEF TypeOK, AcquireFree, AcquireNew
<1>4. TypeOK'
  BY <1>1, <1>2, <1>3 DEF TypeOK
<1>5. Counted' = Counted /\ Redirected' = Redirected
  BY <1>1 DEF Counted, Redirected
<1>6. CountInv' /\ OptionInv'
  BY <1>1, <1>5, SameCount DEF OptionInv
<1>7. HoldInv'
  BY <1>1, <1>2 DEF HoldInv, TypeOK
<1>8. ExclusiveUse'
  <2>1. c \notin inUse /\ \A u \in Clients : c \notin held[u]
    BY DEF ExclusiveUse, AcquireFree, AcquireNew, Available
  <2>2. ip'[c] = gfxIp[t] /\ \A d \in Contexts \ {c} : ip'[d] = ip[d]
    BY DEF TypeOK, AcquireFree, AcquireNew, Available
  <2>3. inUse' = UNION {held'[u] : u \in Clients}
    BY <1>1 DEF ExclusiveUse, TypeOK
  <2>4. \A u \in Clients : \A v \in Clients \ {u} : held'[u] \cap held'[v] = {}
    BY <1>1, <2>1 DEF ExclusiveUse, TypeOK
  <2>5. \A u \in Clients : \A d \in held'[u] : ip'[d] = gfxIp'[u]
    BY <1>1, <2>1, <2>2 DEF ExclusiveUse, TypeOK
  <2> QED
    BY <1>1, <1>2, <2>3, <2>4, <2>5 DEF ExclusiveUse
<1>9. ShutdownInv => ShutdownInv'
  BY <1>1 DEF ShutdownInv
<1> QED
  BY <1>1, <1>4, <1>6, <1>7, <1>8, <1>9

(* A build returns its context. *)
LEMMA ReleaseIInv ==
  ASSUME IInv, NEW t \in Clients, NEW c \in Contexts, ReleaseContext(t, c)
  PROVE  IInv'
<1> USE DEF IInv, ReleaseContext, optionVars, countVars
<1>1. TypeOK'
  BY DEF TypeOK
<1>2. Counted' = Counted /\ Redirected' = Redirected
  BY DEF Counted, Redirected
<1>3. CountInv' /\ OptionInv'
  BY <1>2, SameCount DEF OptionInv
<1>4. HoldInv'
  BY DEF HoldInv, TypeOK
<1>5. ExclusiveUse'
  <2>1. \A u \in Clients \ {t} : c \notin held[u]
    BY DEF ExclusiveUse
  <2>2. inUse' = UNION {held'[u] : u \in Clients}
    BY <2>1 DEF ExclusiveUse, TypeOK
  <2> QED
    BY <2>2 DEF ExclusiveUse, TypeOK
<1>6. ShutdownInv => ShutdownInv'
  BY DEF ShutdownInv
<1> QED
  BY <1>1, <1>3, <1>4, <1>5, <1>6

(* The first part of ~Compiler deletes contexts that nobody uses. *)
LEMMA CleanIInv ==
  ASSUME IInv, NEW t \in Clients, DestroyClean(t)
  PROVE  IInv'
<1> USE DEF IInv, DestroyClean, Enter, optionVars, countVars, clientVars
<1>1. PICK d \in SUBSET members :
        d \cap inUse = {} /\ members' = members \ d /\ live' = live \ d
  BY DEF Surplus
<1>2. TypeOK'
  BY <1>1 DEF TypeOK, Phases, Destroying
<1>3. Counted' = Counted /\ Redirected' = Redirected
  BY DEF TypeOK, Counted, Redirected
<1>4. CountInv' /\ OptionInv'
  BY <1>3, SameCount DEF OptionInv
<1>5. HoldInv' /\ ExclusiveUse'
  BY <1>1 DEF TypeOK, HoldInv, ExclusiveUse
<1>6. ShutdownInv => ShutdownInv'
  BY DEF TypeOK, ShutdownInv, ShuttingDown
<1> QED
  BY <1>2, <1>4, <1>5, <1>6

(* The middle parts of ~Compiler: the compiler that counts itself out as the  *)
(* last one leaves no counted compiler behind.                                *)
LEMMA CountOutIInv ==
  ASSUME IInv, NEW t \in Clients, DestroyRestore(t) \/ DestroyCount(t)
  PROVE  IInv'
<1> USE DEF IInv, DestroyRestore, DestroyCount, Enter, optionVars, poolVars, clientVars
<1>1. CountInv'
  BY DestroyCounts
<1>2. TypeOK'
  <2>1. instanceCount' \in Nat /\ outRedirectCount' \in Nat
    BY <1>1, ClientCount DEF CountInv, Counted, Redirected
  <2>2. phase' \in [Clients -> Phases]
    BY DEF TypeOK, Phases, Destroying
  <2> QED
    BY <2>1, <2>2 DEF TypeOK
<1>3. OptionInv'
  <2>1. Redirected' \subseteq Redirected
    BY DEF TypeOK, Redirected
  <2> QED
    BY <2>1 DEF OptionInv
<1>4. HoldInv' /\ ExclusiveUse'
  BY DEF TypeOK, HoldInv, ExclusiveUse
<1>5. ShutdownInv => ShutdownInv'
  <2>1. CASE DestroyRestore(t)
    BY <2>1 DEF TypeOK, ShutdownInv, ShuttingDown
  <2>2. CASE DestroyCount(t)
    <3>1. t \in Counted
      BY <2>2 DEF Counted
    <3>2. instanceCount \in Nat /\ instanceCount > 0
      BY <3>1, CountZero
    <3> QED
      BY <2>2, <3>2 DEF TypeOK, ShutdownInv, ShuttingDown
  <2> QED
    BY <2>1, <2>2
<1> QED
  BY <1>1, <1>2, <1>3, <1>4, <1>5

(* The shutdown of the last compiler. *)
LEMMA ShutdownIInv ==
  ASSUME IInv, NEW t \in Clients, Shutdown(t)
  PROVE  IInv'
<1> USE DEF IInv, Shutdown, RemoveHandler, DeletePool, ClearPool, Enter, optionVars,
            countVars, poolVars, clientVars
<1>1. TypeOK'
  BY DEF TypeOK, Phases, Destroying
<1>2. Counted' = Counted /\ Redirected' = Redirected
  BY DEF TypeOK, Counted, Redirected
<1>3. CountInv' /\ OptionInv'
  BY <1>2, SameCount DEF OptionInv
<1>4. HoldInv' /\ ExclusiveUse'
  BY DEF TypeOK, HoldInv, ExclusiveUse
<1>5. ShutdownInv => ShutdownInv'
  BY DEF TypeOK, ShutdownInv, ShuttingDown
<1> QED
  BY <1>1, <1>3, <1>4, <1>5

(* Every step keeps the invariant. *)
LEMMA StepIInv == IInv /\ [Next]_vars => IInv'
<1> SUFFICES ASSUME IInv, [Next]_vars PROVE IInv'
  OBVIOUS
<1>1. CASE UNCHANGED vars
  <2> USE <1>1 DEF vars, optionVars, countVars, poolVars, clientVars
  <2>1. Counted' = Counted /\ Redirected' = Redirected
    BY DEF Counted, Redirected
  <2>2. TypeOK' /\ CountInv' /\ OptionInv'
    BY <2>1, SameCount DEF IInv, TypeOK, OptionInv
  <2>3. HoldInv' /\ ExclusiveUse'
    BY DEF IInv, HoldInv, ExclusiveUse
  <2>4. ShutdownInv => ShutdownInv'
    BY DEF ShutdownInv
  <2> QED
    BY <2>2, <2>3, <2>4 DEF IInv
<1>2. CASE Next
  BY <1>2, CreateIInv, CreateFailsIInv, AcquireIInv, ReleaseIInv, CleanIInv,
     CountOutIInv, ShutdownIInv DEF Next
<1> QED
  BY <1>1, <1>2

(* The inductive invariant of the pool holds in every reachable state. *)
THEOREM PoolInductive == Spec => []IInv
BY InitIInv, StepIInv, PTL DEF Spec

(* Every context in use belongs to one build, stays allocated and is for its  *)
(* chip, whatever other compilers are created and destroyed meanwhile.        *)
THEOREM UsedExclusively == Spec => []ExclusiveUse
<1>1. IInv => ExclusiveUse
  BY DEF IInv
<1> QED
  BY <1>1, PoolInductive, PTL

(* A compiler runs with its own command line, and with no other, unless a     *)
(* line was rejected since the options were last reset (ICompiler::Create).   *)
THEOREM OptionsKept == Spec => []OptionsNotMixed
<1>1. IInv => OptionsNotMixed
  BY DEF IInv, OptionInv, OptionsNotMixed, Redirected
<1> QED
  BY <1>1, PoolInductive, PTL

(* A live compiler has its pool and the one fatal error handler, however      *)
(* creations and destructions overlap, unless a compiler was created during   *)
(* the shutdown of the last one, which runs under no lock (~Compiler).        *)
THEOREM PoolKept == Spec => []PoolAlive
<1>1. ASSUME IInv PROVE PoolAlive
  <2>1. ASSUME NEW t \in Clients, phase[t] = "live"
        PROVE  instanceCount > 0
    <3>1. t \in Counted
      BY <2>1 DEF Counted
    <3> QED
      BY <1>1, <3>1, CountZero DEF IInv
  <2> QED
    BY <1>1, <2>1 DEF IInv, ShutdownInv, PoolAlive
<1> QED
  BY <1>1, PoolInductive, PTL

(* With -context-reuse-limit no context is used again more often than that:   *)
(* acquireContext replaces a worn one before it counts the use.               *)
THEOREM ReuseKept == Spec => []ReuseBounded
<1>1. Init => ReuseBounded
  BY DEF Init, ReuseBounded
<1>2. ASSUME IInv, ReuseBounded, [Next]_vars PROVE ReuseBounded'
  <2> SUFFICES ASSUME ContextReuseLimit > 0, NEW c \in live'
               PROVE  useCount'[c] - 1 <= ContextReuseLimit
    BY DEF ReuseBounded
  <2> USE <1>2, LimitAssumption DEF IInv, TypeOK, ReuseBounded
  <2>1. CASE c \in live /\ useCount'[c] = useCount[c]
    BY <2>1
  <2>2. ASSUME NEW t \in Clients, NEW d \in Contexts, AcquireFree(t, d)
        PROVE  useCount'[c] - 1 <= ContextReuseLimit
    <3>1. c \in live /\ d \in live
      BY <2>2 DEF AcquireFree, Available, HoldInv
    <3>2. useCount' = [useCount EXCEPT ![d] = IF Worn(d) THEN 1 ELSE useCount[d] + 1]
      BY <2>2 DEF AcquireFree, Acquire
    <3>3. CASE c # d
      BY <3>1, <3>2, <3>3, <2>1
    <3>4. CASE c = d /\ Worn(d)
      BY <3>1, <3>2, <3>4 DEF Worn
    <3>5. CASE c = d /\ ~Worn(d)
      BY <3>1, <3>2, <3>5 DEF Worn
    <3> QED
      BY <3>3, <3>4, <3>5
  <2>3. ASSUME NEW t \in Clients, NEW d \in Contexts, AcquireNew(t, d)
        PROVE  useCount'[c] - 1 <= ContextReuseLimit
    <3>1. useCount' = [useCount EXCEPT ![d] = 1] /\ live' = live \cup {d}
      BY <2>3 DEF AcquireNew, Acquire
    <3> QED
      BY <3>1, <2>1
  <2>4. CASE UNCHANGED useCount /\ live' \subseteq live
    BY <2>1, <2>4
  <2>5. \/ \E t \in Clients : \E d \in Contexts : AcquireFree(t, d) \/ AcquireNew(t, d)
        \/ UNCHANGED useCount /\ live' \subseteq live
    BY DEF Next, Create, NewCompiler, CreateParseError, CreateIncompatible, ReleaseContext,
           DestroyClean, DestroyRestore, DestroyCount, Shutdown, RemoveHandler, DeletePool,
           ClearPool, vars, poolVars
  <2> QED
    BY <2>2, <2>3, <2>4, <2>5
<1> QED
  BY <1>1, <1>2, PoolInductive, PTL DEF Spec
==============================================================================
