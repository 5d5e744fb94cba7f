---------------------------- MODULE CompilerPool -----------------------------
(***************************************************************************)
(* The process-wide state behind ICompiler::Create and Destroy             *)
(* (llpc/context/llpcCompiler.cpp): the parsed LLVM options, the instance  *)
(* counters, the fatal error handler, and the pool of LLVM contexts that   *)
(* all compilers share.  A client has at most one compiler at a time; the  *)
(* threads that build with it hold any number of contexts.                 *)
(*                                                                         *)
(* Create runs under SCompilerMutex and is one step.  ~Compiler is a step  *)
(* per critical section, and its shutdown part, which runs under no lock,  *)
(* a step per statement.  The pool is a set: the first free context that   *)
(* acquireContext finds, and the ones ~Compiler finds first, are arbitrary *)
(* here.                                                                   *)
(***************************************************************************)
EXTENDS Integers, FiniteSets, FiniteSetsExt

CONSTANTS Clients,
          Options,            \* command lines, told apart by their hash
          NoOptions,          \* the hash before a command line was accepted
          GfxIps,
          Contexts,           \* heap slots for contexts: the bound on live contexts
          ContextReuseLimit,  \* -context-reuse-limit
          MaxUses,            \* bound on the use count of a context
          MaxResident         \* AMD_RESIDENT_CONTEXTS

(* A process has finitely many compilers at any time. *)
ASSUME ClientsAssumption == IsFiniteSet(Clients)
ASSUME NoOptionsAssumption == NoOptions \notin Options
ASSUME LimitAssumption ==
         ContextReuseLimit \in Int /\ MaxResident \in Nat /\ MaxUses \in Nat

VARIABLES
  HaveParsedOptions, SOptionHash,
  inEffect,                 \* the command lines that LLVM's options come from
  rejected,                 \* a command line was rejected since the options were last reset
  instanceCount, outRedirectCount,
  handler,                  \* fatal error handlers installed
  pool,                     \* m_contextPool: "null", "live" or "freed"
  members,                  \* the contexts in the pool's vector
  live, inUse,              \* contexts that are allocated, and m_isInUse
  useCount, ip,             \* m_useCount and m_gfxIp of a context
  phase,                    \* where each client is with its compiler
  options, gfxIp,           \* m_options and m_gfxIp of the client's compiler
  held,                     \* contexts that builds of the client's compiler acquired
  raced                     \* a compiler was created during the shutdown of the last one

optionVars == <<HaveParsedOptions, SOptionHash, inEffect, rejected>>
countVars == <<instanceCount, outRedirectCount, handler>>
poolVars == <<pool, members, live, inUse, useCount, ip>>
clientVars == <<options, gfxIp, held, raced>>
vars == <<optionVars, countVars, poolVars, phase, clientVars>>

(* In ~Compiler: the pool is cleaned, the output restored, the last instance  *)
(* counted out, the handler removed, the pool deleted.                        *)
Destroying == {"cleaned", "restored", "last", "removed", "deleted"}
ShuttingDown == {"last", "removed", "deleted"}

(* "aborted": the program ran into llvm_unreachable.                          *)
Phases == {"none", "live", "aborted"} \cup Destroying

Init ==
  /\ HaveParsedOptions = FALSE /\ SOptionHash = NoOptions
  /\ inEffect = {} /\ rejected = FALSE
  /\ instanceCount = 0 /\ outRedirectCount = 0 /\ handler = 0
  /\ pool = "null" /\ members = {} /\ live = {} /\ inUse = {}
  /\ useCount = [c \in Contexts |-> 0]
  /\ ip \in {[c \in Contexts |-> g] : g \in GfxIps}
  /\ phase = [t \in Clients |-> "none"]
  /\ options = [t \in Clients |-> NoOptions]
  /\ gfxIp \in {[t \in Clients |-> g] : g \in GfxIps}
  /\ held = [t \in Clients |-> {}]
  /\ raced = FALSE

Enter(t, p) == phase' = [phase EXCEPT ![t] = p]

-----------------------------------------------------------------------------
(* ICompiler::Create *)

(* The command line is parsed the first time, and again when it differs and   *)
(* no compiler is left.                                                       *)
MustParse(o) == HaveParsedOptions => o # SOptionHash /\ outRedirectCount = 0

(* What parsing adds to: cl::ResetAllOptionOccurrences is called only when a  *)
(* command line was accepted before.                                          *)
LeftInEffect == IF HaveParsedOptions THEN {} ELSE inEffect

(* Mutant: other options are accepted while compilers exist. *)
IncompatibleNever(o) == FALSE

Incompatible(o) == HaveParsedOptions /\ o # SOptionHash /\ outRedirectCount > 0

(* The constructor; the first instance installs the handler and the pool. *)
NewCompiler(t, o, g) ==
  /\ Enter(t, "live")
  /\ options' = [options EXCEPT ![t] = o]
  /\ gfxIp' = [gfxIp EXCEPT ![t] = g]
  /\ IF instanceCount = 0
       THEN handler' = handler + 1 /\ pool' = "live" /\ members' = {}
       ELSE UNCHANGED <<handler, pool, members>>
  /\ instanceCount' = instanceCount + 1
  /\ outRedirectCount' = outRedirectCount + 1
  /\ raced' = (raced \/ \E u \in Clients : phase[u] \in ShuttingDown)
  /\ UNCHANGED <<live, inUse, useCount, ip, held>>

Create(t, o, g) ==
  /\ phase[t] = "none" /\ ~Incompatible(o)
  /\ IF MustParse(o)
       THEN /\ HaveParsedOptions' = TRUE
            /\ inEffect' = LeftInEffect \cup {o}
            /\ rejected' = (rejected /\ ~HaveParsedOptions)
       ELSE UNCHANGED <<HaveParsedOptions, inEffect, rejected>>
  /\ SOptionHash' = o
  /\ NewCompiler(t, o, g)

(* ParseCommandLineOptions fails: ErrorInvalidValue and no compiler.  The     *)
(* options of the line that it accepted, if any, stay in effect, and so does  *)
(* the hash of the line before.                                               *)
CreateParseError(t, o) ==
  /\ phase[t] = "none" /\ MustParse(o)
  /\ \E accepted \in SUBSET {o} : inEffect' = LeftInEffect \cup accepted
  /\ rejected' = TRUE
  /\ UNCHANGED <<HaveParsedOptions, SOptionHash, countVars, poolVars, phase, clientVars>>

(* "Incompatible compiler options cross compiler instances!" *)
CreateIncompatible(t, o) ==
  /\ phase[t] = "none" /\ Incompatible(o)
  /\ Enter(t, "aborted")
  /\ UNCHANGED <<optionVars, countVars, poolVars, clientVars>>

-----------------------------------------------------------------------------
(* acquireContext and releaseContext.  Nothing is said of what the code does  *)
(* once the pool is gone under a compiler that lives: PoolAlive says when.    *)

Available(t) == {c \in members \ inUse : ip[c] = gfxIp[t]}

Worn(c) == ContextReuseLimit > 0 /\ useCount[c] > ContextReuseLimit

Acquire(t, c, uses) ==
  /\ phase[t] = "live" /\ pool = "live"
  /\ inUse' = inUse \cup {c}
  /\ useCount' = [useCount EXCEPT ![c] = uses]
  /\ held' = [held EXCEPT ![t] = @ \cup {c}]
  /\ UNCHANGED <<optionVars, countVars, pool, phase, options, gfxIp, raced>>

(* A free context of the right chip; a worn one is deleted and replaced. *)
AcquireFree(t, c) ==
  /\ c \in Available(t)
  /\ useCount[c] < MaxUses
  /\ Acquire(t, c, IF Worn(c) THEN 1 ELSE useCount[c] + 1)
  /\ UNCHANGED <<members, live, ip>>

(* No context is free: a new one joins the pool. *)
AcquireNew(t, c) ==
  /\ Available(t) = {}
  /\ c \in Contexts \ live
  /\ Acquire(t, c, 1)
  /\ live' = live \cup {c}
  /\ members' = members \cup {c}
  /\ ip' = [ip EXCEPT ![c] = gfxIp[t]]

ReleaseContext(t, c) ==
  /\ c \in held[t]
  /\ inUse' = inUse \ {c}
  /\ held' = [held EXCEPT ![t] = @ \ {c}]
  /\ UNCHANGED <<optionVars, countVars, pool, members, live, useCount, ip,
                 phase, options, gfxIp, raced>>

-----------------------------------------------------------------------------
(* ~Compiler: free contexts go while the pool holds more than MaxResident. *)

(* Mutant: contexts in use go as well. *)
SurplusInUse(d) ==
  /\ d \subseteq members
  /\ Cardinality(d) = Max({0, Cardinality(members) - MaxResident})

Surplus(d) ==
  /\ d \subseteq members \ inUse
  /\ Cardinality(d) = Min({Cardinality(members \ inUse),
                           Max({0, Cardinality(members) - MaxResident})})

(* Mutant: contexts are erased from the pool but not deleted. *)
DestroyCleanErases(t) ==
  /\ phase[t] = "live" /\ held[t] = {} /\ pool = "live"
  /\ \E d \in SUBSET members : Surplus(d) /\ members' = members \ d
  /\ Enter(t, "cleaned")
  /\ UNCHANGED <<optionVars, countVars, pool, live, inUse, useCount, ip, clientVars>>

DestroyClean(t) ==
  /\ phase[t] = "live" /\ held[t] = {} /\ pool = "live"
  /\ \E d \in SUBSET members :
       /\ Surplus(d)
       /\ members' = members \ d
       /\ live' = live \ d
  /\ Enter(t, "cleaned")
  /\ UNCHANGED <<optionVars, countVars, pool, inUse, useCount, ip, clientVars>>

DestroyRestore(t) ==
  /\ phase[t] = "cleaned"
  /\ outRedirectCount' = outRedirectCount - 1
  /\ Enter(t, "restored")
  /\ UNCHANGED <<optionVars, instanceCount, handler, poolVars, clientVars>>

(* Mutant: every instance shuts down. *)
DestroyCountAll(t) ==
  /\ phase[t] = "restored"
  /\ instanceCount' = instanceCount - 1
  /\ Enter(t, "last")
  /\ UNCHANGED <<optionVars, outRedirectCount, handler, poolVars, clientVars>>

DestroyCount(t) ==
  /\ phase[t] = "restored"
  /\ instanceCount' = instanceCount - 1
  /\ Enter(t, IF instanceCount = 1 THEN "last" ELSE "none")
  /\ UNCHANGED <<optionVars, outRedirectCount, handler, poolVars, clientVars>>

(* The shutdown of the last instance, without a lock. *)
RemoveHandler(t) ==
  /\ phase[t] = "last"
  /\ handler' = 0
  /\ Enter(t, "removed")
  /\ UNCHANGED <<optionVars, instanceCount, outRedirectCount, poolVars, clientVars>>

DeletePool(t) ==
  /\ phase[t] = "removed"
  /\ pool' = "freed" /\ members' = {}
  /\ Enter(t, "deleted")
  /\ UNCHANGED <<optionVars, countVars, live, inUse, useCount, ip, clientVars>>

ClearPool(t) ==
  /\ phase[t] = "deleted"
  /\ pool' = "null"
  /\ Enter(t, "none")
  /\ UNCHANGED <<optionVars, countVars, members, live, inUse, useCount, ip, clientVars>>

Shutdown(t) == RemoveHandler(t) \/ DeletePool(t) \/ ClearPool(t)

Next ==
  \E t \in Clients :
    \/ \E o \in Options : \/ \E g \in GfxIps : Create(t, o, g)
                          \/ CreateParseError(t, o) \/ CreateIncompatible(t, o)
    \/ \E c \in Contexts : AcquireFree(t, c) \/ AcquireNew(t, c) \/ ReleaseContext(t, c)
    \/ DestroyClean(t) \/ DestroyRestore(t) \/ DestroyCount(t) \/ Shutdown(t)

Spec == Init /\ [][Next]_vars

-----------------------------------------------------------------------------
TypeOK ==
  /\ HaveParsedOptions \in BOOLEAN
  /\ SOptionHash \in Options \cup {NoOptions} /\ inEffect \subseteq Options
  /\ rejected \in BOOLEAN /\ raced \in BOOLEAN
  /\ instanceCount \in Nat /\ outRedirectCount \in Nat /\ handler \in Nat
  /\ pool \in {"null", "live", "freed"}
  /\ members \subseteq Contexts /\ live \subseteq Contexts /\ inUse \subseteq Contexts
  /\ useCount \in [Contexts -> Nat] /\ ip \in [Contexts -> GfxIps]
  /\ phase \in [Clients -> Phases]
  /\ options \in [Clients -> Options \cup {NoOptions}]
  /\ gfxIp \in [Clients -> GfxIps]
  /\ held \in [Clients -> SUBSET Contexts]

(* A context that a build holds is its alone, is still allocated, is for the  *)
(* chip of the compiler, and is marked in use; nothing else is: neither the   *)
(* replacement of worn contexts nor the clean-up by a compiler that is        *)
(* destroyed meanwhile takes a context away from a build.                     *)
ExclusiveUse ==
  /\ inUse = UNION {held[t] : t \in Clients}
  /\ inUse \subseteq live
  /\ \A t \in Clients : /\ \A u \in Clients \ {t} : held[t] \cap held[u] = {}
                        /\ \A c \in held[t] : ip[c] = gfxIp[t]

(* -context-reuse-limit: "The maximum number of times a compiler context can  *)
(* be reused", after its first use.                                           *)
ReuseBounded ==
  ContextReuseLimit > 0 => \A c \in live : useCount[c] - 1 <= ContextReuseLimit

(* As long as a compiler lives, so does the pool that its builds take their   *)
(* contexts from, and the one handler is there to report fatal errors: only a *)
(* creation during the shutdown of the last compiler, which holds no lock,    *)
(* takes them away; all other creations and destructions may overlap.         *)
PoolAlive ==
  \A t \in Clients : phase[t] = "live" /\ ~raced => pool = "live" /\ handler = 1

(* "LLVM fatal error handler only can be installed once." *)
HandlerOnce == handler <= 1

(* Contexts stay reachable, so that one kept as a resident can "speed up the  *)
(* creation of the compiler next time".                                       *)
ResidentsReachable == live \subseteq members

(* A compiler runs with its own command line only, as its results are cached  *)
(* under the hash of that, unless a line was rejected since the options were  *)
(* last reset: the reset of ICompiler::Create undoes that, too.               *)
OptionsNotMixed ==
  \A t \in Clients : phase[t] = "live" /\ ~rejected => inEffect = {options[t]}

(* "Incompatible compiler options cross compiler instances!": no compiler     *)
(* runs with options of another command line, a rejected one included.        *)
OptionsOwn == \A t \in Clients : phase[t] = "live" => inEffect = {options[t]}
==============================================================================
