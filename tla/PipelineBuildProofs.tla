------------------------- MODULE PipelineBuildProofs -------------------------
(***************************************************************************)
(* Proofs about PipelineBuild for any threads, jobs and options: what the  *)
(* builds owe to the cache and to the pool of contexts, and what they find *)
(* in the cache.                                                           *)
(***************************************************************************)
EXTENDS PipelineBuild, FiniteSetTheorems, SequenceTheorems, TLAPS

-----------------------------------------------------------------------------
(* The inductive invariant *)

Places == {"idle", "lookup", "acquire", "return", "unlinked", "unlinkedCompile", "glue",
           "glueCompile", "part", "partCompile", "whole", "checkPre", "generate", "setPre",
           "setFs", "release", "output"}

(* The places of a build that has a context. *)
Inside == Places \ {"idle", "lookup", "acquire", "return", "output"}

Visiting == {"unlinkedCompile", "partCompile"}

(* The keys there can be. *)
Keys ==
  {<<>>} \cup {FullKey(j) : j \in Jobs} \cup {GlueKey(j) : j \in Jobs}
    \cup {StageKey(j, p) : j \in Jobs, p \in PartSet}
    \cup {UnlinkedKey(j, p) : j \in Jobs, p \in PartSet}
    \cup {PartKey(j, p) : j \in {x \in Jobs : TwoParts(x)}, p \in {"pre", "fs"}}

AccType == acc \in [Threads -> [Accessors -> [state : AccStates, key : Keys]]]

TypeInv ==
  /\ pc \in [Threads -> Places]
  /\ scenario \in DOMAIN Scenarios /\ job \in [Threads -> Options.jobs]
  /\ todo \in [Threads -> Seq(PartSet)]
  /\ ctx \subseteq Threads
  /\ elf \in [Threads -> Elfs]
  /\ AccType

(* Where a thread has a context and which accessor, and where one that has to *)
(* be populated: none outlives its part of the build.                         *)
ThreadInv(t) ==
  /\ t \in ctx => pc[t] \in Inside
  /\ pc[t] \in Visiting => todo[t] # <<>>
  /\ pc[t] \in {"part", "partCompile"} => TwoParts(job[t]) /\ todo[t] \in Seq({"pre", "fs"})
  /\ acc[t]["full"] # NoAcc => pc[t] \in Inside \cup {"acquire", "output"}
  /\ acc[t]["fs"] # NoAcc => pc[t] \in {"checkPre", "generate", "setPre", "setFs", "release"}
  /\ acc[t]["pre"] # NoAcc => pc[t] \in {"generate", "setPre", "setFs", "release"}
  /\ acc[t]["unit"] # NoAcc => pc[t] \in {"unlinked", "glueCompile", "part", "release"} \cup Visiting
  /\ acc[t]["unit"].state = "must" => pc[t] \in {"glueCompile"} \cup Visiting
  /\ acc[t]["unit"].state = "must" /\ pc[t] = "unlinkedCompile" => Head(todo[t]) # "cs"

(* Accessor a of thread t has to populate the entry of k. *)
Must(t, a, k) == acc[t][a].state = "must" /\ acc[t][a].key = k

(* The entry of k holds an ELF. *)
HoldsElf(k) == k \in DOMAIN cache /\ cache[k] \in Elfs

(* Every entry that is being compiled is owed by exactly one accessor; what   *)
(* an accessor found stays there.                                             *)
CacheInv ==
  /\ \A k \in DOMAIN cache : cache[k] \in Elfs \cup {Compiling, Empty}
  /\ \A k \in DOMAIN cache : cache[k] = Compiling => \E t \in Threads, a \in Accessors : Must(t, a, k)
  /\ \A t \in Threads, a \in Accessors :
       acc[t][a].state = "must" => /\ acc[t][a].key \in DOMAIN cache
                                   /\ cache[acc[t][a].key] = Compiling
  /\ \A t, u \in Threads, a, b \in Accessors :
       acc[t][a].state = "must" /\ acc[u][b].state = "must" /\ acc[t][a].key = acc[u][b].key
         => t = u /\ a = b
  /\ \A t \in Threads, a \in Accessors : acc[t][a].state = "hit" => HoldsElf(acc[t][a].key)

IInv == TypeInv /\ CacheInv /\ \A t \in Threads : ThreadInv(t)

-----------------------------------------------------------------------------
(* Jobs, keys and code *)

LEMMA JobFacts ==
  ASSUME TypeInv, NEW t \in Threads
  PROVE  job[t] \in Jobs
  BY DEF TypeInv, Jobs, Options

LEMMA KeyFacts ==
  ASSUME NEW j \in Jobs, NEW p \in PartSet
  PROVE  /\ FullKey(j) \in Keys /\ GlueKey(j) \in Keys
         /\ StageKey(j, p) \in Keys /\ UnlinkedKey(j, p) \in Keys
         /\ TwoParts(j) /\ p \in {"pre", "fs"} => PartKey(j, p) \in Keys
  BY DEF Keys

LEMMA CodeFacts ==
  ASSUME NEW j \in Jobs, NEW p \in PartSet
  PROVE  /\ NoCode \in Codes /\ GlueCode(j) \in Codes
         /\ WholeCode(j, p) \in Codes /\ UnlinkedCode(j, p) \in Codes
         /\ TwoParts(j) /\ p \in {"pre", "fs"} => PartCode(j, p) \in Codes
  BY DEF Codes

LEMMA NoElfFacts == NoElf \in Elfs
  BY DEF NoElf, Elfs, Codes

(* An entry is missing, being compiled, given up or an ELF. *)
LEMMA FoundFacts ==
  ASSUME CacheInv, NEW k, Entry(k) # Compiling
  PROVE  /\ Found(k) = "must" => k \notin DOMAIN cache
         /\ Found(k) = "hit" => k \in DOMAIN cache /\ cache[k] \in Elfs
         /\ Found(k) \in {"must", "held", "hit"}
<1>1. CASE k \notin DOMAIN cache
  BY <1>1 DEF Entry, Found
<1>2. CASE k \in DOMAIN cache
  <2>1. Entry(k) = cache[k] /\ cache[k] \in Elfs \cup {Empty}
    BY <1>2 DEF Entry, CacheInv
  <2>2. Entry(k) # Missing
    BY <2>1, EntriesAssumption
  <2>3. CASE cache[k] = Empty
    BY <1>2, <2>1, <2>2, <2>3, EntriesAssumption DEF Found
  <2>4. CASE cache[k] # Empty
    BY <1>2, <2>1, <2>2, <2>4 DEF Found
  <2> QED
    BY <2>3, <2>4
<1> QED
  BY <1>1, <1>2

-----------------------------------------------------------------------------
(* What the accessors do to the cache *)

(* An accessor that owes nothing is used for another key. *)
LEMMA LookUpKeeps ==
  ASSUME CacheInv, AccType, NEW t \in Threads, NEW a \in Accessors, NEW k \in Keys,
         LookUp(t, a, k), acc[t][a].state # "must"
  PROVE  /\ CacheInv' /\ AccType'
         /\ acc'[t][a] = [state |-> Found(k), key |-> k]
         /\ \A b \in Accessors \ {a} : acc'[t][b] = acc[t][b]
         /\ \A u \in Threads \ {t} : acc'[u] = acc[u]
<1>1. Found(k) \in {"must", "held", "hit"} /\ (Found(k) = "must" => k \notin DOMAIN cache)
  BY FoundFacts DEF LookUp
<1>2. acc' = [acc EXCEPT ![t][a] = [state |-> Found(k), key |-> k]]
  BY DEF LookUp
<1>3. AccType'
  BY <1>1, <1>2 DEF AccType, AccStates
<1>4. /\ acc'[t][a] = [state |-> Found(k), key |-> k]
      /\ \A b \in Accessors \ {a} : acc'[t][b] = acc[t][b]
      /\ \A u \in Threads \ {t} : acc'[u] = acc[u]
  BY <1>2 DEF AccType
<1>5. CacheInv'
  <2>1. CASE Found(k) = "must"
    <3>1. cache' = [x \in DOMAIN cache \cup {k} |-> IF x = k THEN Compiling ELSE cache[x]]
      BY <2>1 DEF LookUp, Store
    <3>2. \A u \in Threads, b \in Accessors : acc[u][b].state = "must" => acc[u][b].key # k
      BY <1>1, <2>1 DEF CacheInv
    <3>3. ASSUME NEW u \in Threads, NEW b \in Accessors
          PROVE  \/ u = t /\ b = a /\ acc'[u][b].state = "must" /\ acc'[u][b].key = k
                 \/ (u # t \/ b # a) /\ acc'[u][b] = acc[u][b]
      BY <1>4, <2>1
    <3>4. \A x \in DOMAIN cache' : cache'[x] \in Elfs \cup {Compiling, Empty}
      BY <3>1 DEF CacheInv
    <3>5. ASSUME NEW x \in DOMAIN cache', cache'[x] = Compiling
          PROVE  \E u \in Threads, b \in Accessors : Must(u, b, x)'
      <4>1. CASE x = k
        BY <3>3, <4>1 DEF Must
      <4>2. CASE x # k
        <5>1. PICK u \in Threads, b \in Accessors : Must(u, b, x)
          BY <3>1, <3>5, <4>2 DEF CacheInv
        <5>2. ~(u = t /\ b = a)
          BY <5>1 DEF Must
        <5> QED
          BY <3>3, <5>1, <5>2 DEF Must
      <4> QED
        BY <4>1, <4>2
    <3>6. ASSUME NEW u \in Threads, NEW b \in Accessors, acc'[u][b].state = "must"
          PROVE  acc'[u][b].key \in DOMAIN cache' /\ cache'[acc'[u][b].key] = Compiling
      BY <3>1, <3>3, <3>6 DEF CacheInv
    <3>7. ASSUME NEW u \in Threads, NEW v \in Threads, NEW b \in Accessors, NEW c \in Accessors,
                 acc'[u][b].state = "must", acc'[v][c].state = "must", acc'[u][b].key = acc'[v][c].key
          PROVE  u = v /\ b = c
      BY SMTT(40), <3>2, <3>3, <3>7 DEF CacheInv
    <3>8. ASSUME NEW u \in Threads, NEW b \in Accessors, acc'[u][b].state = "hit"
          PROVE  HoldsElf(acc[u][b].key)'
      <4>1. acc'[u][b] = acc[u][b]
        BY <3>3, <3>8
      <4>2. HoldsElf(acc[u][b].key)
        BY <3>8, <4>1 DEF CacheInv
      <4> QED
        BY <1>1, <2>1, <3>1, <4>1, <4>2 DEF HoldsElf
    <3> QED
      BY <3>4, <3>5, <3>6, <3>7, <3>8 DEF CacheInv
  <2>2. CASE Found(k) # "must"
    <3>1. cache' = cache
      BY <2>2 DEF LookUp
    <3>2. \A u \in Threads, b \in Accessors :
            (acc'[u][b].state = "must" <=> acc[u][b].state = "must")
            /\ (acc[u][b].state = "must" => acc'[u][b] = acc[u][b])
      BY <1>4, <2>2
    <3>3. ASSUME NEW u \in Threads, NEW b \in Accessors, acc'[u][b].state = "hit"
          PROVE  HoldsElf(acc[u][b].key)'
      <4>1. CASE u = t /\ b = a
        <5>1. acc'[u][b].key = k /\ Found(k) = "hit"
          BY <1>4, <3>3, <4>1
        <5>2. HoldsElf(k)
          BY <5>1, FoundFacts DEF LookUp, HoldsElf
        <5> QED
          BY <3>1, <5>1, <5>2 DEF HoldsElf
      <4>2. CASE ~(u = t /\ b = a)
        <5>1. acc'[u][b] = acc[u][b]
          BY <1>4, <4>2
        <5>2. HoldsElf(acc[u][b].key)
          BY <3>3, <5>1 DEF CacheInv
        <5> QED
          BY <3>1, <5>1, <5>2 DEF HoldsElf
      <4> QED
        BY <4>1, <4>2
    <3> QED
      BY SMTT(40), <3>1, <3>2, <3>3 DEF CacheInv, Must
  <2> QED
    BY <2>1, <2>2
<1> QED
  BY <1>3, <1>4, <1>5

(* Accessors as of a thread settle what they owe, and owe nothing after that. *)
LEMMA SettleKeeps ==
  ASSUME CacheInv, NEW t \in Threads, NEW as \in SUBSET Accessors,
         \A a \in as : acc'[t][a].state # "must",
         \A a \in as : acc'[t][a].state = "hit" => HoldsElf(acc[t][a].key)',
         \A a \in Accessors \ as : acc'[t][a] = acc[t][a],
         \A u \in Threads \ {t} : acc'[u] = acc[u],
         DOMAIN cache' = DOMAIN cache,
         \A k \in DOMAIN cache : IF \E a \in as : Must(t, a, k) THEN cache'[k] \in Elfs \cup {Empty}
                                                              ELSE cache'[k] = cache[k]
  PROVE  CacheInv'
<1>1. Compiling \notin Elfs \cup {Empty}
  BY EntriesAssumption
<1>2. \A u \in Threads, b \in Accessors :
        acc'[u][b].state = "must" => acc'[u][b] = acc[u][b] /\ ~(u = t /\ b \in as)
  OBVIOUS
<1>3. \A k \in DOMAIN cache' : cache'[k] \in Elfs \cup {Compiling, Empty}
  BY DEF CacheInv
<1>owe. \A u \in Threads, b \in Accessors :
          acc[u][b].state = "must" => acc[u][b].key \in DOMAIN cache /\ cache[acc[u][b].key] = Compiling
  BY DEF CacheInv
<1>one. \A u, v \in Threads, b, c \in Accessors :
          acc[u][b].state = "must" /\ acc[v][c].state = "must" /\ acc[u][b].key = acc[v][c].key
            => u = v /\ b = c
  BY DEF CacheInv
<1>4. ASSUME NEW k \in DOMAIN cache', cache'[k] = Compiling
      PROVE  \E u \in Threads, b \in Accessors : Must(u, b, k)'
  <2>1. ~(\E a \in as : Must(t, a, k)) /\ cache[k] = Compiling
    BY <1>1, <1>4
  <2>2. PICK u \in Threads, b \in Accessors : Must(u, b, k)
    BY <1>4, <2>1 DEF CacheInv
  <2>3. acc'[u][b] = acc[u][b]
    BY <2>1, <2>2
  <2> QED
    BY <2>2, <2>3 DEF Must
<1>5. ASSUME NEW u \in Threads, NEW b \in Accessors, acc'[u][b].state = "must"
      PROVE  acc'[u][b].key \in DOMAIN cache' /\ cache'[acc'[u][b].key] = Compiling
  <2>1. /\ acc'[u][b] = acc[u][b] /\ ~(u = t /\ b \in as)
        /\ acc[u][b].key \in DOMAIN cache /\ cache[acc[u][b].key] = Compiling
    <3>1. acc'[u][b] = acc[u][b] /\ ~(u = t /\ b \in as)
      BY <1>2, <1>5
    <3>2. acc[u][b].state = "must"
      BY <1>5, <3>1
    <3> QED
      BY <3>1, <3>2, <1>owe
  <2>2. ~(\E a \in as : Must(t, a, acc[u][b].key))
    BY ONLY ZenonT(60), <1>5, <2>1, <1>one, t \in Threads, as \in SUBSET Accessors DEF Must
  <2> QED
    BY <2>1, <2>2
<1>6. ASSUME NEW u \in Threads, NEW v \in Threads, NEW b \in Accessors, NEW c \in Accessors,
             acc'[u][b].state = "must", acc'[v][c].state = "must", acc'[u][b].key = acc'[v][c].key
      PROVE  u = v /\ b = c
  <2>1. acc'[u][b] = acc[u][b] /\ acc'[v][c] = acc[v][c]
    BY <1>2, <1>6
  <2> QED
    BY <1>6, <1>one, <2>1
<1>7. ASSUME NEW u \in Threads, NEW b \in Accessors, acc'[u][b].state = "hit"
      PROVE  HoldsElf(acc[u][b].key)'
  <2>1. CASE u = t /\ b \in as
    BY <1>7, <2>1
  <2>2. CASE ~(u = t /\ b \in as)
    <3>1. acc'[u][b] = acc[u][b]
      BY <2>2
    <3>2. HoldsElf(acc[u][b].key)
      BY <1>7, <3>1 DEF CacheInv
    <3>3. ASSUME NEW a \in as, Must(t, a, acc[u][b].key)  PROVE FALSE
      <4>1. cache[acc[u][b].key] = Compiling
        BY ONLY <1>owe, <3>3, t \in Threads, as \in SUBSET Accessors DEF Must
      <4> QED
        BY <1>1, <3>2, <4>1 DEF HoldsElf
    <3> QED
      BY <3>1, <3>2, <3>3 DEF HoldsElf
  <2> QED
    BY <2>1, <2>2
<1> QED
  BY <1>3, <1>4, <1>5, <1>6, <1>7 DEF CacheInv

(* setElfInCache. *)
LEMMA SetElfKeeps ==
  ASSUME CacheInv, AccType, NEW t \in Threads, NEW a \in Accessors, NEW e \in Elfs, SetElf(t, a, e)
  PROVE  /\ CacheInv' /\ AccType'
         /\ acc'[t][a] = [state |-> "hit", key |-> acc[t][a].key]
         /\ \A b \in Accessors \ {a} : acc'[t][b] = acc[t][b]
         /\ \A u \in Threads \ {t} : acc'[u] = acc[u]
<1>1. acc' = [acc EXCEPT ![t][a].state = "hit"]
  BY DEF SetElf
<1>2. AccType'
  BY <1>1 DEF AccType, AccStates
<1>3. /\ acc'[t][a] = [state |-> "hit", key |-> acc[t][a].key]
      /\ \A b \in Accessors \ {a} : acc'[t][b] = acc[t][b]
      /\ \A u \in Threads \ {t} : acc'[u] = acc[u]
  BY <1>1 DEF AccType
<1>4. Must(t, a, acc[t][a].key) /\ acc[t][a].key \in DOMAIN cache
  BY DEF SetElf, CacheInv, Must
<1>5. /\ DOMAIN cache' = DOMAIN cache
      /\ \A k \in DOMAIN cache : cache'[k] = IF k = acc[t][a].key THEN e ELSE cache[k]
  BY <1>4 DEF SetElf, Store
<1>6. CacheInv'
  <2>1. \A k \in DOMAIN cache : IF \E b \in {a} : Must(t, b, k) THEN cache'[k] \in Elfs \cup {Empty}
                                                               ELSE cache'[k] = cache[k]
    BY <1>4, <1>5 DEF Must
  <2> QED
    <3>1. {a} \in SUBSET Accessors /\ \A b \in {a} : acc'[t][b].state # "must"
      BY <1>3
    <3>2. \A b \in {a} : HoldsElf(acc[t][b].key)'
      BY <1>3, <1>4, <1>5 DEF HoldsElf
    <3> HIDE DEF CacheInv
    <3> QED
      BY ONLY <1>3, <1>5, <2>1, <3>1, <3>2, SettleKeeps, CacheInv, t \in Threads
<1> QED
  BY <1>2, <1>3, <1>6

(* The destructors of accessors as, after which there are none. *)
LEMMA DropKeeps ==
  ASSUME CacheInv, AccType, NEW t \in Threads, NEW as \in SUBSET Accessors,
         acc' = Without(t, as), cache' = Dropped(t, as)
  PROVE  /\ CacheInv' /\ AccType'
         /\ \A a \in as : acc'[t][a] = NoAcc
         /\ \A a \in Accessors \ as : acc'[t][a] = acc[t][a]
         /\ \A u \in Threads \ {t} : acc'[u] = acc[u]
<1>1. acc' = [acc EXCEPT ![t] = [a \in Accessors |-> IF a \in as THEN NoAcc ELSE acc[t][a]]]
  BY DEF Without
<1>2. NoAcc \in [state : AccStates, key : Keys] /\ NoAcc.state = "none"
  BY DEF NoAcc, AccStates, Keys
<1>3. AccType'
  <2>1. [a \in Accessors |-> IF a \in as THEN NoAcc ELSE acc[t][a]]
          \in [Accessors -> [state : AccStates, key : Keys]]
    BY ZenonT(60), <1>2 DEF AccType
  <2> QED
    BY <1>1, <2>1 DEF AccType
<1>4. /\ \A a \in as : acc'[t][a] = NoAcc
      /\ \A a \in Accessors \ as : acc'[t][a] = acc[t][a]
      /\ \A u \in Threads \ {t} : acc'[u] = acc[u]
  BY <1>1 DEF AccType
<1>5. \A k \in DOMAIN cache :
        k \in {acc[t][a].key : a \in {b \in as : acc[t][b].state = "must"}} <=> \E a \in as : Must(t, a, k)
  BY DEF Must
<1>6. /\ DOMAIN cache' = DOMAIN cache
      /\ \A k \in DOMAIN cache : cache'[k] = IF \E a \in as : Must(t, a, k) THEN Empty ELSE cache[k]
  BY <1>5 DEF Dropped
<1>7. CacheInv'
  <2>1. \A k \in DOMAIN cache : IF \E a \in as : Must(t, a, k) THEN cache'[k] \in Elfs \cup {Empty}
                                                               ELSE cache'[k] = cache[k]
    BY <1>6
  <2>2. \A a \in as : acc'[t][a].state # "must" /\ acc'[t][a].state # "hit"
    BY <1>2, <1>4
  <2> QED
    BY <1>4, <1>6, <2>1, <2>2, SettleKeeps
<1> QED
  BY <1>3, <1>4, <1>7

(* The miss of the full pipeline is populated and its accessor destroyed. *)
LEMMA PopulateKeeps ==
  ASSUME CacheInv, AccType, NEW t \in Threads, NEW e \in Elfs, acc[t]["full"].state = "must",
         acc' = Without(t, {"full"}), cache' = Store(acc[t]["full"].key, e)
  PROVE  /\ CacheInv' /\ AccType'
         /\ acc'[t]["full"] = NoAcc
         /\ \A a \in Accessors \ {"full"} : acc'[t][a] = acc[t][a]
         /\ \A u \in Threads \ {t} : acc'[u] = acc[u]
<1>1. acc' = [acc EXCEPT ![t] = [a \in Accessors |-> IF a \in {"full"} THEN NoAcc ELSE acc[t][a]]]
  BY DEF Without
<1>2. NoAcc \in [state : AccStates, key : Keys] /\ NoAcc.state = "none"
  BY DEF NoAcc, AccStates, Keys
<1>3. AccType'
  <2>1. [a \in Accessors |-> IF a \in {"full"} THEN NoAcc ELSE acc[t][a]]
          \in [Accessors -> [state : AccStates, key : Keys]]
    BY <1>2 DEF AccType
  <2> QED
    BY <1>1, <2>1 DEF AccType
<1>4. "full" \in Accessors
  BY DEF Accessors
<1>5. /\ acc'[t]["full"] = NoAcc
      /\ \A a \in Accessors \ {"full"} : acc'[t][a] = acc[t][a]
      /\ \A u \in Threads \ {t} : acc'[u] = acc[u]
  BY <1>1, <1>4 DEF AccType
<1>6. Must(t, "full", acc[t]["full"].key) /\ acc[t]["full"].key \in DOMAIN cache
  BY <1>4 DEF CacheInv, Must, HoldsElf
<1>7. /\ DOMAIN cache' = DOMAIN cache
      /\ \A k \in DOMAIN cache : cache'[k] = IF k = acc[t]["full"].key THEN e ELSE cache[k]
  BY <1>6 DEF Store
<1>8. CacheInv'
  <2>1. \A k \in DOMAIN cache : IF \E b \in {"full"} : Must(t, b, k) THEN cache'[k] \in Elfs \cup {Empty}
                                                                    ELSE cache'[k] = cache[k]
    BY <1>6, <1>7 DEF Must
  <2> QED
    BY SMTT(40), <1>2, <1>4, <1>5, <1>7, <2>1, SettleKeeps
<1> QED
  BY <1>3, <1>5, <1>8

-----------------------------------------------------------------------------
(* The steps of a build *)

(* Threads share the cache and nothing else. *)
LEMMA OneThread ==
  ASSUME IInv, NEW t \in Threads, TypeInv', CacheInv', ThreadInv(t)',
         \A u \in Threads \ {t} : /\ pc'[u] = pc[u] /\ job'[u] = job[u] /\ todo'[u] = todo[u]
                                  /\ acc'[u] = acc[u] /\ (u \in ctx' <=> u \in ctx)
  PROVE  IInv'
<1>1. ASSUME NEW u \in Threads, u # t  PROVE ThreadInv(u)'
  BY <1>1 DEF IInv, ThreadInv, TwoParts, Present
<1> QED
  BY <1>1 DEF IInv

(* Steps that leave the cache and the accessors alone. *)
LEMMA BeginKeeps ==
  ASSUME IInv, NEW t \in Threads, NEW j \in Options.jobs, Begin(t, j)
  PROVE  IInv'
<1> USE DEF IInv, TypeInv
<1>1. UNCHANGED <<scenario, cache, acc, ctx>> /\ pc[t] = "idle"
  BY DEF Begin
<1>2. /\ \A u \in Threads \ {t} : pc'[u] = pc[u] /\ job'[u] = job[u] /\ todo'[u] = todo[u]
      /\ pc'[t] \in {"return", "acquire", "lookup"}
  BY DEF Begin, Goto
<1>3. TypeInv'
  <2>1. job' \in [Threads -> Options.jobs] /\ Options' = Options
    BY <1>1 DEF Begin, Options
  <2>2. elf' \in [Threads -> Elfs] /\ todo' \in [Threads -> Seq(PartSet)]
    BY NoElfFacts DEF Begin
  <2>3. pc' \in [Threads -> Places]
    BY <1>2 DEF Begin, Goto, Places
  <2> QED
    BY <1>1, <2>1, <2>2, <2>3 DEF AccType
<1>4. CacheInv'
  BY <1>1 DEF CacheInv, Must, HoldsElf
<1>5. ThreadInv(t)'
  BY <1>1, <1>2 DEF ThreadInv, Inside, Visiting, Places, NoAcc
<1> QED
  BY <1>1, <1>2, <1>3, <1>4, <1>5, OneThread

(* The parts a job has, in order, are parts. *)
LEMMA LoopFacts ==
  ASSUME NEW j
  PROVE  Loop(j) \in Seq(PartSet)
<1>1. \A p \in PartSet : IfPresent(j, p) \in Seq(PartSet)
  BY DEF IfPresent
<1>2. {"pre", "fs", "cs"} \subseteq PartSet
  BY DEF PartSet
<1> QED
  BY <1>1, <1>2 DEF Loop

LEMMA AcquireKeeps ==
  ASSUME IInv, NEW t \in Threads, Acquire(t)
  PROVE  IInv'
<1> USE DEF IInv, TypeInv
<1> DEFINE j == job[t]
           way == Way(Options, j)
<1>1. /\ UNCHANGED <<scenario, cache, job, elf, acc>> /\ pc[t] = "acquire" /\ ctx' = ctx \cup {t}
      /\ pc' = [pc EXCEPT ![t] = way]
      /\ todo' = [todo EXCEPT ![t] = CASE way = "part" -> <<"fs", "pre">>
                                       [] way = "unlinked" -> Loop(j)
                                       [] OTHER -> <<>>]
  BY DEF Acquire, Goto
<1>2. way \in {"glue", "unlinked", "part", "whole"} /\ (way = "part" => TwoParts(j))
  BY DEF Way
<1> HIDE DEF way
<1>3. \/ way = "part" /\ todo' = [todo EXCEPT ![t] = <<"fs", "pre">>]
      \/ way = "unlinked" /\ todo' = [todo EXCEPT ![t] = Loop(j)]
      \/ way \in {"glue", "whole"} /\ todo' = [todo EXCEPT ![t] = <<>>]
  BY <1>1, <1>2
<1>4. TypeInv'
  <2>0. <<"fs", "pre">> \in Seq(PartSet) /\ <<>> \in Seq(PartSet) /\ Loop(j) \in Seq(PartSet)
    <3>1. "fs" \in PartSet /\ "pre" \in PartSet
      BY DEF PartSet
    <3> QED
      BY <3>1, LoopFacts
  <2>1. todo' \in [Threads -> Seq(PartSet)]
    <3> HIDE DEF j
    <3> QED
      BY <1>3, <2>0
  <2>2. pc' \in [Threads -> Places]
    BY <1>1, <1>2 DEF Places
  <2> QED
    BY <1>1, <2>1, <2>2 DEF AccType, Options
<1>5. CacheInv'
  BY <1>1 DEF CacheInv, Must, HoldsElf
<1>6. ThreadInv(t)'
  <2>0. pc'[t] = way
    BY <1>1
  <2>1. way = "part" => todo'[t] \in Seq({"pre", "fs"})
    <3>1. ASSUME way = "part"  PROVE todo'[t] = <<"fs", "pre">>
      BY <1>3, <3>1
    <3>2. <<"fs", "pre">> \in Seq({"pre", "fs"})
      OBVIOUS
    <3> QED
      BY <3>1, <3>2
  <2>2. TwoParts(job[t])' = TwoParts(j)
    BY <1>1 DEF TwoParts, Present
  <2> QED
    BY <1>1, <1>2, <2>0, <2>1, <2>2 DEF ThreadInv, Inside, Visiting, Places, NoAcc
<1> QED
  BY <1>1, <1>3, <1>4, <1>5, <1>6, OneThread

(* The other steps that leave the cache and the accessors alone move a thread *)
(* that has nothing to populate to another place of the same way.             *)
QuietStep(t) ==
  \/ Return(t) \/ AssertFails(t) \/ UnlinkedGiven(t) \/ UnlinkedRefused(t) \/ LinkPlain(t)
  \/ PartLink(t) \/ IrLinkFails(t) \/ Generate(t)

LEMMA QuietMoves ==
  ASSUME IInv, NEW t \in Threads, QuietStep(t)
  PROVE  /\ UNCHANGED <<scenario, cache, job, acc, ctx>>
         /\ todo' \in [Threads -> Seq(PartSet)] /\ pc' \in [Threads -> Places]
         /\ \A u \in Threads \ {t} : pc'[u] = pc[u] /\ todo'[u] = todo[u]
         /\ \/ pc'[t] = pc[t] /\ (pc[t] = "unlinked" \/ todo'[t] = todo[t])
            \/ pc[t] \in {"unlinked", "part", "whole"} /\ pc'[t] = "release"
            \/ pc[t] = "generate" /\ pc'[t] = "setPre"
            \/ pc[t] = "return" /\ pc'[t] = "idle"
<1> USE DEF IInv, TypeInv, Goto, Places
<1>1. CASE Return(t)
  BY <1>1 DEF Return
<1>2. CASE AssertFails(t)
  BY <1>2 DEF AssertFails, Asserts
<1>3. CASE UnlinkedGiven(t)
  BY <1>3 DEF UnlinkedGiven, Visit
<1>4. CASE UnlinkedRefused(t)
  <2>1. /\ UNCHANGED <<scenario, cache, job, acc, ctx>> /\ pc[t] = "unlinked"
        /\ todo' = [todo EXCEPT ![t] = <<>>]
        /\ \/ pc' = [pc EXCEPT ![t] = "unlinked"]
           \/ pc' = [pc EXCEPT ![t] = "release"]
    BY <1>4, Zenon DEF UnlinkedRefused, StageFailed
  <2>2. CASE pc' = [pc EXCEPT ![t] = "unlinked"]
    BY <2>1, <2>2
  <2>3. CASE pc' = [pc EXCEPT ![t] = "release"]
    BY <2>1, <2>3
  <2> QED
    BY <2>1, <2>2, <2>3
<1>5. CASE LinkPlain(t)
  BY <1>5 DEF LinkPlain
<1>6. CASE PartLink(t)
  BY <1>6 DEF PartLink
<1>7. CASE IrLinkFails(t)
  BY <1>7 DEF IrLinkFails
<1>8. CASE Generate(t)
  BY <1>8 DEF Generate
<1> QED
  BY <1>1, <1>2, <1>3, <1>4, <1>5, <1>6, <1>7, <1>8 DEF QuietStep

LEMMA QuietElf ==
  ASSUME IInv, NEW t \in Threads, QuietStep(t)
  PROVE  elf' \in [Threads -> Elfs]
<1> USE DEF IInv, TypeInv
<1>1. job[t] \in Jobs /\ DOMAIN elf[t] = PartSet \cup {"glue"}
  BY JobFacts DEF Elfs
<1>2. CASE UnlinkedGiven(t)
  <2>1. Head(todo[t]) \in PartSet
    BY <1>2 DEF UnlinkedGiven
  <2>2. elf' = [elf EXCEPT ![t] = [elf[t] EXCEPT ![Head(todo[t])] = UnlinkedCode(job[t], Head(todo[t]))]]
    BY <1>2 DEF UnlinkedGiven, Visit
  <2>3. [elf[t] EXCEPT ![Head(todo[t])] = UnlinkedCode(job[t], Head(todo[t]))] \in Elfs
    BY <1>1, <2>1, CodeFacts DEF Elfs
  <2> QED
    BY <2>2, <2>3
<1>3. CASE Generate(t)
  <2> DEFINE left == {p \in Present(job[t]) : ~InStageCache(t, p)}
             e == [p \in DOMAIN elf[t] |-> IF p \in left THEN WholeCode(job[t], p) ELSE NoCode]
  <2>1. elf' = [elf EXCEPT ![t] = e]
    BY <1>3 DEF Generate
  <2>2. left \subseteq PartSet
    BY DEF Present
  <2>3. e \in Elfs
    <3> HIDE DEF left
    <3>1. NoCode \in Codes /\ \A p \in PartSet : WholeCode(job[t], p) \in Codes
      BY <1>1, CodeFacts DEF Codes
    <3> QED
      BY <1>1, <2>2, <3>1 DEF Elfs
  <2> HIDE DEF e
  <2> QED
    BY <2>1, <2>3
<1>4. CASE UNCHANGED elf
  BY <1>4
<1>5. UNCHANGED elf \/ UnlinkedGiven(t) \/ Generate(t)
  BY DEF QuietStep, Return, AssertFails, Asserts, UnlinkedRefused, LinkPlain, PartLink, IrLinkFails
<1> QED
  BY <1>2, <1>3, <1>4, <1>5

LEMMA QuietKeeps ==
  ASSUME IInv, NEW t \in Threads, QuietStep(t)
  PROVE  IInv'
<1> USE DEF IInv
<1>1. UNCHANGED <<scenario, cache, job, acc, ctx>>
  BY QuietMoves
<1>2. TypeInv'
  BY QuietMoves, QuietElf DEF TypeInv, AccType, Options
<1>3. CacheInv'
  BY <1>1 DEF CacheInv, Must, HoldsElf
<1>4. ThreadInv(t)'
  <2>1. TwoParts(job[t])' = TwoParts(job[t])
    BY <1>1 DEF TwoParts, Present
  <2>2. ThreadInv(t)
    OBVIOUS
  <2> QED
    BY <1>1, <2>1, <2>2, QuietMoves DEF ThreadInv, Inside, Visiting, Places, NoAcc
<1> QED
  BY <1>1, <1>2, <1>3, <1>4, QuietMoves, OneThread

-----------------------------------------------------------------------------
(* The steps that look up entries *)

(* What is left to show of a step that keeps the cache invariant. *)
LEMMA StepKeeps ==
  ASSUME IInv, NEW t \in Threads, CacheInv', AccType', ThreadInv(t)', UNCHANGED <<scenario, job>>,
         NEW l \in Places, pc' = [pc EXCEPT ![t] = l],
         NEW w \in Seq(PartSet), todo' = [todo EXCEPT ![t] = w],
         NEW e \in Elfs, elf' = [elf EXCEPT ![t] = e],
         ctx' \subseteq Threads, \A u \in Threads \ {t} : acc'[u] = acc[u] /\ (u \in ctx' <=> u \in ctx)
  PROVE  IInv'
<1>1. TypeInv'
  BY DEF IInv, TypeInv, Options
<1>2. \A u \in Threads \ {t} : pc'[u] = pc[u] /\ job'[u] = job[u] /\ todo'[u] = todo[u]
  BY DEF IInv, TypeInv
<1> QED
  BY <1>1, <1>2, OneThread

(* A function that is left alone is updated with what it has. *)
LEMMA SameFacts ==
  ASSUME TypeInv, NEW t \in Threads
  PROVE  /\ pc[t] \in Places /\ todo[t] \in Seq(PartSet) /\ elf[t] \in Elfs
         /\ pc = [pc EXCEPT ![t] = pc[t]]
         /\ todo = [todo EXCEPT ![t] = todo[t]]
         /\ elf = [elf EXCEPT ![t] = elf[t]]
  BY DEF TypeInv

LEMMA LookUpFullKeeps ==
  ASSUME IInv, NEW t \in Threads, LookUpFull(t)
  PROVE  IInv'
<1> DEFINE k == FullKey(job[t])
<1>1. TypeInv /\ CacheInv /\ AccType /\ ThreadInv(t)
  BY DEF IInv, TypeInv
<1>2. UNCHANGED <<scenario, job, todo, ctx>> /\ pc[t] = "lookup"
  BY DEF LookUpFull
<1>3. k \in Keys /\ "full" \in Accessors
  BY <1>1, JobFacts, KeyFacts DEF Accessors, PartSet
<1>4. \A a \in Accessors : acc[t][a] = NoAcc
  BY <1>1, <1>2 DEF ThreadInv, Inside, Visiting, Places, Accessors
<1>5. CASE ~Options.full
  <2>1. UNCHANGED <<cache, acc, elf>> /\ pc' = [pc EXCEPT ![t] = "acquire"]
    BY <1>5 DEF LookUpFull, Goto
  <2>2. CacheInv' /\ AccType'
    BY <1>1, <2>1 DEF CacheInv, Must, HoldsElf, AccType
  <2>3. ThreadInv(t)'
    <3>1. pc'[t] = "acquire" /\ t \notin ctx
      BY <1>1, <1>2, <2>1 DEF TypeInv, ThreadInv, Inside
    <3> QED
      BY <1>2, <1>4, <2>1, <3>1 DEF ThreadInv, Inside, Visiting, Places, NoAcc, Accessors
  <2>4. "acquire" \in Places /\ ctx' \subseteq Threads
    BY <1>1, <1>2 DEF Places, TypeInv
  <2> QED
    BY <1>1, <1>2, <2>1, <2>2, <2>3, <2>4, SameFacts, StepKeeps
<1>6. CASE Options.full
  <2>1. LookUp(t, "full", k)
    BY <1>6 DEF LookUpFull
  <2>2. acc[t]["full"].state # "must"
    BY <1>3, <1>4 DEF NoAcc
  <2>3. /\ CacheInv' /\ AccType'
        /\ acc'[t]["full"] = [state |-> Found(k), key |-> k]
        /\ \A b \in Accessors \ {"full"} : acc'[t][b] = acc[t][b]
        /\ \A u \in Threads \ {t} : acc'[u] = acc[u]
    BY <1>1, <1>3, <2>1, <2>2, LookUpKeeps
  <2>4. Found(k) = "hit" => cache[k] \in Elfs
    BY <1>1, <2>1, FoundFacts DEF LookUp
  <2>5. PICK l \in {"output", "acquire"}, e \in Elfs :
          pc' = [pc EXCEPT ![t] = l] /\ elf' = [elf EXCEPT ![t] = e]
    <3>1. CASE acc'[t]["full"].state = "hit"
      <4>1. Found(k) = "hit"
        BY <2>3, <3>1
      <4>2. pc' = [pc EXCEPT ![t] = "output"] /\ elf' = [elf EXCEPT ![t] = cache[k]]
        BY <1>6, <3>1 DEF LookUpFull, Goto
      <4> QED
        BY <2>4, <4>1, <4>2
    <3>2. CASE acc'[t]["full"].state # "hit"
      <4>1. pc' = [pc EXCEPT ![t] = "acquire"] /\ elf' = elf
        BY <1>6, <3>2 DEF LookUpFull, Goto
      <4> QED
        BY <1>1, <4>1, SameFacts
    <3> QED
      BY <3>1, <3>2
  <2>6. ThreadInv(t)'
    <3>1. pc'[t] = l /\ t \notin ctx'
      BY <1>1, <1>2, <2>5 DEF TypeInv, ThreadInv, Inside
    <3>2. acc'[t]["fs"] = NoAcc /\ acc'[t]["pre"] = NoAcc /\ acc'[t]["unit"] = NoAcc
      BY <1>4, <2>3 DEF Accessors
    <3> QED
      BY <2>5, <3>1, <3>2 DEF ThreadInv, Inside, Visiting, Places, NoAcc
  <2>7. l \in Places /\ ctx' \subseteq Threads
    BY <1>1, <1>2, <2>5 DEF Places, TypeInv
  <2> QED
    BY <1>1, <1>2, <2>3, <2>5, <2>6, <2>7, SameFacts, StepKeeps
<1> QED
  BY <1>5, <1>6

(* A part that is visited gets its code. *)
LEMMA VisitFacts ==
  ASSUME TypeInv, NEW t \in Threads, todo[t] # <<>>, NEW c \in Codes, Visit(t, Head(todo[t]), c)
  PROVE  \E e \in Elfs : /\ elf' = [elf EXCEPT ![t] = e]
                         /\ Tail(todo[t]) \in Seq(PartSet)
                         /\ todo' = [todo EXCEPT ![t] = Tail(todo[t])]
                         /\ todo'[t] = Tail(todo[t])
<1>1. Head(todo[t]) \in PartSet /\ Tail(todo[t]) \in Seq(PartSet)
  BY DEF TypeInv
<1>2. [elf[t] EXCEPT ![Head(todo[t])] = c] \in Elfs
  BY <1>1 DEF TypeInv, Elfs
<1>3. elf' = [elf EXCEPT ![t] = [elf[t] EXCEPT ![Head(todo[t])] = c]]
  BY DEF Visit
<1>4. todo' = [todo EXCEPT ![t] = Tail(todo[t])]
  BY DEF Visit
<1>5. todo'[t] = Tail(todo[t])
  BY <1>4 DEF TypeInv
<1> QED
  BY <1>1, <1>2, <1>3, <1>4, <1>5

(* The accessor of a unit is free where a unit is looked up. *)
LEMMA UnitLookUp ==
  ASSUME IInv, NEW t \in Threads, pc[t] \in {"unlinked", "part", "glue"}, NEW k \in Keys,
         LookUp(t, "unit", k)
  PROVE  /\ CacheInv' /\ AccType'
         /\ acc'[t]["unit"] = [state |-> Found(k), key |-> k]
         /\ acc'[t]["full"] = acc[t]["full"] /\ acc'[t]["fs"] = NoAcc /\ acc'[t]["pre"] = NoAcc
         /\ \A u \in Threads \ {t} : acc'[u] = acc[u]
         /\ Found(k) = "hit" => cache[k] \in Elfs
<1>1. CacheInv /\ AccType /\ ThreadInv(t) /\ "unit" \in Accessors
  BY DEF IInv, TypeInv, Accessors
<1>2. acc[t]["unit"].state # "must" /\ acc[t]["fs"] = NoAcc /\ acc[t]["pre"] = NoAcc
  BY <1>1 DEF ThreadInv, Visiting
<1>3. /\ CacheInv' /\ AccType'
      /\ acc'[t]["unit"] = [state |-> Found(k), key |-> k]
      /\ \A b \in Accessors \ {"unit"} : acc'[t][b] = acc[t][b]
      /\ \A u \in Threads \ {t} : acc'[u] = acc[u]
  BY <1>1, <1>2, LookUpKeeps
<1>4. acc'[t]["full"] = acc[t]["full"] /\ acc'[t]["fs"] = NoAcc /\ acc'[t]["pre"] = NoAcc
  BY <1>2, <1>3 DEF Accessors
<1>5. Found(k) = "hit" => cache[k] \in Elfs
  BY <1>1, FoundFacts DEF LookUp
<1> QED
  BY <1>3, <1>4, <1>5

LEMMA UnlinkedLookUpKeeps ==
  ASSUME IInv, NEW t \in Threads, UnlinkedLookUp(t)
  PROVE  IInv'
<1> DEFINE p == Head(todo[t])
           k == UnlinkedKey(job[t], p)
<1>1. TypeInv /\ CacheInv /\ AccType /\ ThreadInv(t)
  BY DEF IInv, TypeInv
<1>2. /\ UNCHANGED <<scenario, job, ctx>> /\ pc[t] = "unlinked" /\ todo[t] # <<>>
      /\ IF p = "cs" THEN UNCHANGED <<cache, acc>> ELSE LookUp(t, "unit", k)
      /\ IF p # "cs" /\ Found(k) = "hit"
           THEN Visit(t, p, cache[k][p]) /\ UNCHANGED pc
           ELSE pc' = [pc EXCEPT ![t] = "unlinkedCompile"] /\ UNCHANGED <<elf, todo>>
  BY DEF UnlinkedLookUp, Goto
<1>3. p \in PartSet /\ k \in Keys
  <2>1. p \in PartSet
    BY <1>1, <1>2 DEF TypeInv
  <2> QED
    BY <1>1, <2>1, JobFacts, KeyFacts
<1>4. {"unlinked", "unlinkedCompile"} \subseteq Places /\ ctx' \subseteq Threads
  BY <1>1, <1>2 DEF Places, TypeInv
<1>5. CASE p = "cs"
  <2>1. UNCHANGED <<cache, acc, elf, todo>> /\ pc' = [pc EXCEPT ![t] = "unlinkedCompile"]
    BY <1>2, <1>5
  <2>2. CacheInv' /\ AccType'
    BY <1>1, <2>1 DEF CacheInv, Must, HoldsElf, AccType
  <2>3. ThreadInv(t)'
    <3>1. pc'[t] = "unlinkedCompile"
      BY <1>1, <2>1 DEF TypeInv
    <3> QED
      BY <1>1, <1>2, <2>1, <3>1 DEF ThreadInv, Inside, Visiting, Places
  <2> QED
    BY <1>1, <1>2, <1>4, <2>1, <2>2, <2>3, SameFacts, StepKeeps
<1>6. CASE p # "cs"
  <2>1. LookUp(t, "unit", k)
    BY <1>2, <1>6
  <2>2. /\ CacheInv' /\ AccType'
        /\ acc'[t]["unit"] = [state |-> Found(k), key |-> k]
        /\ acc'[t]["full"] = acc[t]["full"] /\ acc'[t]["fs"] = NoAcc /\ acc'[t]["pre"] = NoAcc
        /\ \A u \in Threads \ {t} : acc'[u] = acc[u]
        /\ Found(k) = "hit" => cache[k] \in Elfs
    BY <1>2, <1>3, <2>1, UnitLookUp
  <2>3. CASE Found(k) = "hit"
    <3>1. Visit(t, p, cache[k][p]) /\ UNCHANGED pc /\ cache[k][p] \in Codes
      BY <1>2, <1>3, <1>6, <2>2, <2>3 DEF Elfs
    <3>2. PICK e \in Elfs : /\ elf' = [elf EXCEPT ![t] = e]
                            /\ Tail(todo[t]) \in Seq(PartSet)
                            /\ todo' = [todo EXCEPT ![t] = Tail(todo[t])]
      BY <1>1, <1>2, <3>1, VisitFacts
    <3>3. ThreadInv(t)'
      <4>1. pc'[t] = "unlinked"
        BY <1>2, <3>1
      <4>2. acc'[t]["unit"].state # "must"
        BY <2>2, <2>3
      <4> QED
        BY <1>1, <1>2, <2>2, <4>1, <4>2 DEF ThreadInv, Inside, Visiting, Places
    <3> QED
      BY <1>1, <1>2, <1>4, <2>2, <3>1, <3>2, <3>3, SameFacts, StepKeeps
  <2>4. CASE Found(k) # "hit"
    <3>1. UNCHANGED <<elf, todo>> /\ pc' = [pc EXCEPT ![t] = "unlinkedCompile"]
      BY <1>2, <2>4
    <3>2. ThreadInv(t)'
      <4>1. pc'[t] = "unlinkedCompile" /\ todo'[t] # <<>> /\ Head(todo'[t]) # "cs"
        BY <1>1, <1>2, <1>6, <3>1 DEF TypeInv
      <4> QED
        BY <1>1, <1>2, <2>2, <4>1 DEF ThreadInv, Inside, Visiting, Places
    <3>3. /\ todo' = [todo EXCEPT ![t] = todo[t]] /\ todo[t] \in Seq(PartSet)
          /\ elf' = [elf EXCEPT ![t] = elf[t]] /\ elf[t] \in Elfs
      BY <1>1, <3>1, SameFacts
    <3> HIDE DEF p, k
    <3> QED
      BY ZenonT(60), <1>1, <1>2, <1>4, <2>2, <3>1, <3>2, <3>3, StepKeeps
  <2> QED
    BY <2>3, <2>4
<1> QED
  BY <1>5, <1>6

LEMMA PartLookUpKeeps ==
  ASSUME IInv, NEW t \in Threads, PartLookUp(t)
  PROVE  IInv'
<1> DEFINE p == Head(todo[t])
           k == PartKey(job[t], p)
<1>1. TypeInv /\ CacheInv /\ AccType /\ ThreadInv(t)
  BY DEF IInv, TypeInv
<1>2. /\ UNCHANGED <<scenario, job, ctx>> /\ pc[t] = "part" /\ todo[t] # <<>>
      /\ LookUp(t, "unit", k)
      /\ IF Found(k) = "hit"
           THEN Visit(t, p, cache[k][p]) /\ UNCHANGED pc
           ELSE pc' = [pc EXCEPT ![t] = "partCompile"] /\ UNCHANGED <<elf, todo>>
  BY DEF PartLookUp, Goto
<1>3. p \in PartSet /\ k \in Keys
  <2>1. p \in PartSet /\ p \in {"pre", "fs"} /\ TwoParts(job[t])
    BY <1>1, <1>2 DEF TypeInv, ThreadInv
  <2> QED
    BY <1>1, <2>1, JobFacts, KeyFacts
<1>4. {"part", "partCompile"} \subseteq Places /\ ctx' \subseteq Threads
  BY <1>1, <1>2 DEF Places, TypeInv
<1>5. TwoParts(job[t])' = TwoParts(job[t])
  BY <1>2 DEF TwoParts, Present
<1>6. /\ CacheInv' /\ AccType'
      /\ acc'[t]["unit"] = [state |-> Found(k), key |-> k]
      /\ acc'[t]["full"] = acc[t]["full"] /\ acc'[t]["fs"] = NoAcc /\ acc'[t]["pre"] = NoAcc
      /\ \A u \in Threads \ {t} : acc'[u] = acc[u]
      /\ Found(k) = "hit" => cache[k] \in Elfs
  BY <1>2, <1>3, UnitLookUp
<1>7. CASE Found(k) = "hit"
  <2>1. Visit(t, p, cache[k][p]) /\ UNCHANGED pc /\ cache[k][p] \in Codes
    BY <1>2, <1>3, <1>6, <1>7 DEF Elfs
  <2>2. PICK e \in Elfs : /\ elf' = [elf EXCEPT ![t] = e]
                          /\ Tail(todo[t]) \in Seq(PartSet)
                          /\ todo' = [todo EXCEPT ![t] = Tail(todo[t])]
                          /\ todo'[t] = Tail(todo[t])
    BY <1>1, <1>2, <2>1, VisitFacts
  <2>3. ThreadInv(t)'
    <3>1. pc'[t] = "part"
      BY <1>2, <2>1
    <3>2. acc'[t]["unit"].state # "must"
      BY <1>6, <1>7
    <3>3. todo[t] \in Seq({"pre", "fs"}) /\ TwoParts(job[t])
      BY <1>1, <1>2 DEF ThreadInv
    <3>4. todo'[t] \in Seq({"pre", "fs"})
      BY <1>2, <2>2, <3>3
    <3> QED
      BY <1>1, <1>2, <1>5, <1>6, <3>1, <3>2, <3>3, <3>4 DEF ThreadInv, Inside, Visiting, Places
  <2> QED
    BY <1>1, <1>2, <1>4, <1>6, <2>1, <2>2, <2>3, SameFacts, StepKeeps
<1>8. CASE Found(k) # "hit"
  <2>1. UNCHANGED <<elf, todo>> /\ pc' = [pc EXCEPT ![t] = "partCompile"]
    BY <1>2, <1>8
  <2>2. ThreadInv(t)'
    <3>1. pc'[t] = "partCompile" /\ todo'[t] # <<>>
      BY <1>1, <1>2, <2>1 DEF TypeInv
    <3> QED
      BY <1>1, <1>2, <1>5, <1>6, <2>1, <3>1 DEF ThreadInv, Inside, Visiting, Places
  <2>3. /\ todo' = [todo EXCEPT ![t] = todo[t]] /\ todo[t] \in Seq(PartSet)
        /\ elf' = [elf EXCEPT ![t] = elf[t]] /\ elf[t] \in Elfs
    BY <1>1, <2>1, SameFacts
  <2> HIDE DEF p, k
  <2> QED
    BY ZenonT(60), <1>1, <1>2, <1>4, <1>6, <2>1, <2>2, <2>3, StepKeeps
<1> QED
  BY <1>7, <1>8

LEMMA GlueLookUpKeeps ==
  ASSUME IInv, NEW t \in Threads, GlueLookUp(t)
  PROVE  IInv'
<1> DEFINE k == GlueKey(job[t])
<1>1. TypeInv /\ CacheInv /\ AccType /\ ThreadInv(t)
  BY DEF IInv, TypeInv
<1>2. /\ UNCHANGED <<scenario, job, ctx, todo>> /\ pc[t] \in {"unlinked", "glue"}
      /\ LookUp(t, "unit", k)
      /\ IF Found(k) = "hit"
           THEN /\ elf' = [elf EXCEPT ![t]["glue"] = cache[k]["glue"]]
                /\ pc' = [pc EXCEPT ![t] = "release"]
           ELSE pc' = [pc EXCEPT ![t] = "glueCompile"] /\ UNCHANGED elf
  BY DEF GlueLookUp, Goto, Linkable
<1>3. k \in Keys
  BY <1>1, JobFacts, KeyFacts DEF PartSet
<1>4. {"release", "glueCompile"} \subseteq Places /\ ctx' \subseteq Threads
  BY <1>1, <1>2 DEF Places, TypeInv
<1>5. /\ CacheInv' /\ AccType'
      /\ acc'[t]["unit"] = [state |-> Found(k), key |-> k]
      /\ acc'[t]["full"] = acc[t]["full"] /\ acc'[t]["fs"] = NoAcc /\ acc'[t]["pre"] = NoAcc
      /\ \A u \in Threads \ {t} : acc'[u] = acc[u]
      /\ Found(k) = "hit" => cache[k] \in Elfs
  BY <1>2, <1>3, UnitLookUp
<1>6. CASE Found(k) = "hit"
  <2> DEFINE e == [elf[t] EXCEPT !["glue"] = cache[k]["glue"]]
  <2>1. elf' = [elf EXCEPT ![t] = e] /\ pc' = [pc EXCEPT ![t] = "release"]
    BY <1>2, <1>6
  <2>2. e \in Elfs
    <3>1. elf[t] \in Elfs /\ cache[k]["glue"] \in Codes
      BY <1>1, <1>5, <1>6 DEF TypeInv, Elfs
    <3> QED
      BY <3>1 DEF Elfs
  <2>3. ThreadInv(t)'
    <3>1. pc'[t] = "release" /\ acc'[t]["unit"].state # "must"
      BY <1>1, <1>5, <1>6, <2>1 DEF TypeInv
    <3> QED
      BY <1>1, <1>2, <1>5, <3>1 DEF ThreadInv, Inside, Visiting, Places
  <2> HIDE DEF e
  <2> QED
    BY <1>1, <1>2, <1>4, <1>5, <2>1, <2>2, <2>3, SameFacts, StepKeeps
<1>7. CASE Found(k) # "hit"
  <2>1. UNCHANGED elf /\ pc' = [pc EXCEPT ![t] = "glueCompile"]
    BY <1>2, <1>7
  <2>2. ThreadInv(t)'
    <3>1. pc'[t] = "glueCompile"
      BY <1>1, <2>1 DEF TypeInv
    <3> QED
      BY <1>1, <1>2, <1>5, <3>1 DEF ThreadInv, Inside, Visiting, Places
  <2> QED
    BY ZenonT(60), <1>1, <1>2, <1>4, <1>5, <2>1, <2>2, SameFacts, StepKeeps
<1> QED
  BY <1>6, <1>7

(* The stage caches of a whole pipeline. *)
LEMMA CheckKeeps ==
  ASSUME IInv, NEW t \in Threads, CheckFragment(t) \/ CheckNonFragment(t)
  PROVE  IInv'
<1>1. TypeInv /\ CacheInv /\ AccType /\ ThreadInv(t)
  BY DEF IInv, TypeInv
<1>2. PICK a \in {"fs", "pre"}, l \in {"checkPre", "generate"} :
        /\ (a = "fs" /\ l = "checkPre" /\ pc[t] = "whole") \/ (a = "pre" /\ l = "generate" /\ pc[t] = "checkPre")
        /\ pc' = [pc EXCEPT ![t] = l]
        /\ LookUp(t, a, StageKey(job[t], a)) \/ UNCHANGED <<cache, acc>>
  <2>1. CASE CheckFragment(t)
    <3>1. /\ pc[t] = "whole" /\ pc' = [pc EXCEPT ![t] = "checkPre"]
          /\ LookUp(t, "fs", StageKey(job[t], "fs")) \/ UNCHANGED <<cache, acc>>
      BY <2>1, Zenon DEF CheckFragment, Goto
    <3> WITNESS "fs" \in {"fs", "pre"}, "checkPre" \in {"checkPre", "generate"}
    <3> QED
      BY <3>1
  <2>2. CASE CheckNonFragment(t)
    <3>1. /\ pc[t] = "checkPre" /\ pc' = [pc EXCEPT ![t] = "generate"]
          /\ LookUp(t, "pre", StageKey(job[t], "pre")) \/ UNCHANGED <<cache, acc>>
      BY <2>2, Zenon DEF CheckNonFragment, Goto
    <3> WITNESS "pre" \in {"fs", "pre"}, "generate" \in {"checkPre", "generate"}
    <3> QED
      BY <3>1
  <2> QED
    BY <2>1, <2>2
<1>3. UNCHANGED <<scenario, job, todo, elf, ctx>>
  BY DEF CheckFragment, CheckNonFragment
<1>4. l \in Places /\ ctx' \subseteq Threads /\ pc'[t] = l
  BY <1>1, <1>2, <1>3 DEF Places, TypeInv
<1>5. /\ pc' = [pc EXCEPT ![t] = l]
      /\ elf[t] \in Elfs /\ elf' = [elf EXCEPT ![t] = elf[t]]
      /\ todo[t] \in Seq(PartSet) /\ todo' = [todo EXCEPT ![t] = todo[t]]
  BY <1>1, <1>2, <1>3, SameFacts
<1>6. acc[t][a] = NoAcc /\ acc[t]["unit"] = NoAcc
  BY <1>1, <1>2 DEF ThreadInv, Visiting
<1>7. CASE UNCHANGED <<cache, acc>>
  <2>1. CacheInv' /\ AccType'
    BY <1>1, <1>7 DEF CacheInv, Must, HoldsElf, AccType
  <2>2. ThreadInv(t)'
    BY <1>1, <1>2, <1>3, <1>4, <1>6, <1>7 DEF ThreadInv, Inside, Visiting, Places, NoAcc
  <2> QED
    BY <1>1, <1>2, <1>3, <1>4, <1>7, <2>1, <2>2, SameFacts, StepKeeps
<1>8. CASE LookUp(t, a, StageKey(job[t], a))
  <2> DEFINE k == StageKey(job[t], a)
  <2>1. k \in Keys /\ a \in Accessors
    BY <1>1, JobFacts, KeyFacts DEF PartSet, Accessors
  <2>2. acc[t][a].state # "must"
    BY <1>6 DEF NoAcc
  <2>3. /\ CacheInv' /\ AccType'
        /\ \A b \in Accessors \ {a} : acc'[t][b] = acc[t][b]
        /\ \A u \in Threads \ {t} : acc'[u] = acc[u]
    BY <1>1, <1>8, <2>1, <2>2, LookUpKeeps
  <2>4. ThreadInv(t)'
    <3>1. acc'[t]["unit"] = NoAcc /\ acc'[t]["full"] = acc[t]["full"]
      BY <1>2, <1>6, <2>3 DEF Accessors
    <3>2. a = "fs" => acc'[t]["pre"] = NoAcc
      BY <1>1, <1>2, <2>3 DEF Accessors, ThreadInv
    <3>3. a = "pre" => acc'[t]["fs"] = acc[t]["fs"]
      BY <2>3 DEF Accessors
    <3> QED
      BY <1>1, <1>2, <1>3, <1>4, <3>1, <3>2, <3>3 DEF ThreadInv, Inside, Visiting, Places, NoAcc
  <2> QED
    <3>1. \A u \in Threads \ {t} : acc'[u] = acc[u] /\ (u \in ctx' <=> u \in ctx)
      BY <1>3, <2>3
    <3> QED
      BY ONLY IInv, t \in Threads, <1>3, <1>4, <1>5, <2>3, <2>4, <3>1, StepKeeps
<1> QED
  BY <1>2, <1>7, <1>8

-----------------------------------------------------------------------------
(* The steps that populate entries or give them up *)

(* Where a unit is compiled, the accessors of the stage cache are not in use. *)
LEMMA UnitSetElf ==
  ASSUME IInv, NEW t \in Threads, pc[t] \in {"glueCompile", "unlinkedCompile", "partCompile"},
         NEW e \in Elfs, SetElf(t, "unit", e)
  PROVE  /\ CacheInv' /\ AccType'
         /\ acc'[t]["unit"].state = "hit"
         /\ acc'[t]["full"] = acc[t]["full"] /\ acc'[t]["fs"] = NoAcc /\ acc'[t]["pre"] = NoAcc
         /\ \A u \in Threads \ {t} : acc'[u] = acc[u]
<1>1. CacheInv /\ AccType /\ ThreadInv(t) /\ "unit" \in Accessors
  BY DEF IInv, TypeInv, Accessors
<1>2. acc[t]["fs"] = NoAcc /\ acc[t]["pre"] = NoAcc
  BY <1>1 DEF ThreadInv
<1>3. /\ CacheInv' /\ AccType'
      /\ acc'[t]["unit"] = [state |-> "hit", key |-> acc[t]["unit"].key]
      /\ \A b \in Accessors \ {"unit"} : acc'[t][b] = acc[t][b]
      /\ \A u \in Threads \ {t} : acc'[u] = acc[u]
  BY <1>1, SetElfKeeps
<1> QED
  BY <1>2, <1>3 DEF Accessors

LEMMA UnitDrop ==
  ASSUME IInv, NEW t \in Threads, pc[t] \in {"unlinkedCompile", "partCompile"},
         cache' = Dropped(t, {"unit"}), acc' = Without(t, {"unit"})
  PROVE  /\ CacheInv' /\ AccType'
         /\ acc'[t]["unit"] = NoAcc
         /\ acc'[t]["full"] = acc[t]["full"] /\ acc'[t]["fs"] = NoAcc /\ acc'[t]["pre"] = NoAcc
         /\ \A u \in Threads \ {t} : acc'[u] = acc[u]
<1>1. CacheInv /\ AccType /\ ThreadInv(t) /\ {"unit"} \in SUBSET Accessors
  BY DEF IInv, TypeInv, Accessors
<1>2. acc[t]["fs"] = NoAcc /\ acc[t]["pre"] = NoAcc
  BY <1>1 DEF ThreadInv
<1>3. /\ CacheInv' /\ AccType'
      /\ \A a \in {"unit"} : acc'[t][a] = NoAcc
      /\ \A a \in Accessors \ {"unit"} : acc'[t][a] = acc[t][a]
      /\ \A u \in Threads \ {t} : acc'[u] = acc[u]
  BY <1>1, DropKeeps
<1> QED
  BY <1>2, <1>3 DEF Accessors

LEMMA UnlinkedCompileKeeps ==
  ASSUME IInv, NEW t \in Threads, UnlinkedCompile(t)
  PROVE  IInv'
<1> DEFINE p == Head(todo[t])
           c == UnlinkedCode(job[t], p)
           e == [NoElf EXCEPT ![p] = c]
<1>1. TypeInv /\ CacheInv /\ AccType /\ ThreadInv(t)
  BY DEF IInv, TypeInv
<1>2. UNCHANGED <<scenario, job, ctx>> /\ pc[t] = "unlinkedCompile"
  BY DEF UnlinkedCompile
<1>3. todo[t] # <<>> /\ p \in PartSet
  <2>1. todo[t] # <<>>
    BY <1>1, <1>2 DEF ThreadInv, Visiting
  <2> QED
    BY <1>1, <2>1 DEF TypeInv
<1>4. c \in Codes /\ e[p] = c /\ e \in Elfs
  <2>1. c \in Codes
    BY <1>1, <1>3, JobFacts, CodeFacts
  <2> QED
    BY <1>3, <2>1, NoElfFacts DEF Elfs
<1>5. {"unlinked", "release"} \subseteq Places /\ ctx' \subseteq Threads
  BY <1>1, <1>2 DEF Places, TypeInv
<1>6. CASE Compiles(job[t], p)
  <2>1. /\ Visit(t, p, e[p]) /\ pc' = [pc EXCEPT ![t] = "unlinked"]
        /\ IF p = "cs" THEN UNCHANGED <<cache, acc>> ELSE SetElf(t, "unit", e)
    BY <1>6, Zenon DEF UnlinkedCompile, Goto
  <2>2. PICK x \in Elfs : /\ elf' = [elf EXCEPT ![t] = x]
                          /\ Tail(todo[t]) \in Seq(PartSet)
                          /\ todo' = [todo EXCEPT ![t] = Tail(todo[t])]
    <3>1. Visit(t, Head(todo[t]), c)
      BY <1>4, <2>1
    <3> QED
      BY <1>1, <1>3, <1>4, <3>1, VisitFacts
  <2>3. /\ CacheInv' /\ AccType'
        /\ acc'[t]["unit"].state # "must"
        /\ acc'[t]["full"] = acc[t]["full"] /\ acc'[t]["fs"] = NoAcc /\ acc'[t]["pre"] = NoAcc
        /\ \A u \in Threads \ {t} : acc'[u] = acc[u]
    <3>1. CASE p = "cs"
      <4>1. UNCHANGED <<cache, acc>>
        BY <2>1, <3>1
      <4>2. CacheInv' /\ AccType'
        BY <1>1, <4>1 DEF CacheInv, Must, HoldsElf, AccType
      <4> QED
        BY <1>1, <1>2, <3>1, <4>1, <4>2 DEF ThreadInv, Visiting
    <3>2. CASE p # "cs"
      <4>1. SetElf(t, "unit", e)
        BY <2>1, <3>2
      <4> QED
        BY <1>2, <1>4, <4>1, UnitSetElf
    <3> QED
      BY <3>1, <3>2
  <2>4. ThreadInv(t)'
    <3>1. pc'[t] = "unlinked"
      BY <1>1, <2>1 DEF TypeInv
    <3> QED
      BY <1>1, <1>2, <2>3, <3>1 DEF ThreadInv, Inside, Visiting, Places
  <2> HIDE DEF p
  <2> QED
    BY <1>1, <1>2, <1>5, <2>1, <2>2, <2>3, <2>4, StepKeeps
<1>7. CASE ~Compiles(job[t], p)
  <2>1. /\ cache' = Dropped(t, {"unit"}) /\ acc' = Without(t, {"unit"}) /\ UNCHANGED elf
        /\ todo' = [todo EXCEPT ![t] = <<>>]
        /\ \E l \in {"unlinked", "release"} : pc' = [pc EXCEPT ![t] = l]
    BY <1>7, Zenon DEF UnlinkedCompile, StageFailed, Goto
  <2>2. PICK l \in {"unlinked", "release"} : pc' = [pc EXCEPT ![t] = l]
    BY <2>1
  <2>3. /\ CacheInv' /\ AccType'
        /\ acc'[t]["unit"] = NoAcc
        /\ acc'[t]["full"] = acc[t]["full"] /\ acc'[t]["fs"] = NoAcc /\ acc'[t]["pre"] = NoAcc
        /\ \A u \in Threads \ {t} : acc'[u] = acc[u]
    BY <1>2, <2>1, UnitDrop
  <2>4. ThreadInv(t)'
    <3>1. pc'[t] = l
      BY <1>1, <2>2 DEF TypeInv
    <3> QED
      BY <1>1, <1>2, <2>2, <2>3, <3>1 DEF ThreadInv, Inside, Visiting, Places, NoAcc
  <2>5. <<>> \in Seq(PartSet) /\ l \in Places /\ todo' = [todo EXCEPT ![t] = <<>>]
    BY <1>5, <2>1, <2>2
  <2>6. elf[t] \in Elfs /\ elf' = [elf EXCEPT ![t] = elf[t]]
    BY <1>1, <2>1, SameFacts
  <2> QED
    BY ONLY IInv, t \in Threads, <1>2, <1>5, <2>2, <2>3, <2>4, <2>5, <2>6, StepKeeps
<1> QED
  BY <1>6, <1>7

LEMMA PartCompileKeeps ==
  ASSUME IInv, NEW t \in Threads, PartCompile(t)
  PROVE  IInv'
<1> DEFINE p == Head(todo[t])
           c == PartCode(job[t], p)
           e == [NoElf EXCEPT ![p] = c]
<1>1. TypeInv /\ CacheInv /\ AccType /\ ThreadInv(t)
  BY DEF IInv, TypeInv
<1>2. UNCHANGED <<scenario, job, ctx>> /\ pc[t] = "partCompile"
  BY DEF PartCompile
<1>3. todo[t] # <<>> /\ p \in PartSet /\ p \in {"pre", "fs"} /\ TwoParts(job[t]) /\ todo[t] \in Seq({"pre", "fs"})
  <2>1. todo[t] # <<>> /\ todo[t] \in Seq({"pre", "fs"}) /\ TwoParts(job[t])
    BY <1>1, <1>2 DEF ThreadInv, Visiting
  <2> QED
    BY <1>1, <2>1 DEF TypeInv
<1>4. c \in Codes /\ e[p] = c /\ e \in Elfs
  <2>1. c \in Codes
    BY <1>1, <1>3, JobFacts, CodeFacts
  <2> QED
    BY <1>3, <2>1, NoElfFacts DEF Elfs
<1>5. {"part", "release"} \subseteq Places /\ ctx' \subseteq Threads
  BY <1>1, <1>2 DEF Places, TypeInv
<1>6. CASE Compiles(job[t], p)
  <2>1. Visit(t, p, e[p]) /\ pc' = [pc EXCEPT ![t] = "part"] /\ SetElf(t, "unit", e)
    BY <1>6, Zenon DEF PartCompile, Goto
  <2>2. PICK x \in Elfs : /\ elf' = [elf EXCEPT ![t] = x]
                          /\ Tail(todo[t]) \in Seq(PartSet)
                          /\ todo' = [todo EXCEPT ![t] = Tail(todo[t])]
                          /\ todo'[t] = Tail(todo[t])
    <3>1. Visit(t, Head(todo[t]), c)
      BY <1>4, <2>1
    <3> QED
      BY <1>1, <1>3, <1>4, <3>1, VisitFacts
  <2>3. /\ CacheInv' /\ AccType'
        /\ acc'[t]["unit"].state = "hit"
        /\ acc'[t]["full"] = acc[t]["full"] /\ acc'[t]["fs"] = NoAcc /\ acc'[t]["pre"] = NoAcc
        /\ \A u \in Threads \ {t} : acc'[u] = acc[u]
    BY <1>2, <1>4, <2>1, UnitSetElf
  <2>4. ThreadInv(t)'
    <3>1. pc'[t] = "part"
      BY <1>1, <2>1 DEF TypeInv
    <3>2. todo'[t] \in Seq({"pre", "fs"})
      BY <1>3, <2>2
    <3>3. TwoParts(job[t])'
      BY <1>2, <1>3 DEF TwoParts, Present
    <3> QED
      BY <1>1, <1>2, <2>3, <3>1, <3>2, <3>3 DEF ThreadInv, Inside, Visiting, Places
  <2> HIDE DEF p
  <2> QED
    BY <1>1, <1>2, <1>5, <2>1, <2>2, <2>3, <2>4, StepKeeps
<1>7. CASE ~Compiles(job[t], p)
  <2>1. /\ cache' = Dropped(t, {"unit"}) /\ acc' = Without(t, {"unit"}) /\ UNCHANGED <<elf, todo>>
        /\ pc' = [pc EXCEPT ![t] = "release"]
    BY <1>7, Zenon DEF PartCompile, Goto
  <2>2. /\ CacheInv' /\ AccType'
        /\ acc'[t]["unit"] = NoAcc
        /\ acc'[t]["full"] = acc[t]["full"] /\ acc'[t]["fs"] = NoAcc /\ acc'[t]["pre"] = NoAcc
        /\ \A u \in Threads \ {t} : acc'[u] = acc[u]
    BY <1>2, <2>1, UnitDrop
  <2>3. ThreadInv(t)'
    <3>1. pc'[t] = "release"
      BY <1>1, <2>1 DEF TypeInv
    <3> QED
      BY <1>1, <1>2, <2>2, <3>1 DEF ThreadInv, Inside, Visiting, Places, NoAcc
  <2>4. /\ elf[t] \in Elfs /\ elf' = [elf EXCEPT ![t] = elf[t]]
        /\ pc' = [pc EXCEPT ![t] = "release"]
        /\ todo[t] \in Seq(PartSet) /\ todo' = [todo EXCEPT ![t] = todo[t]]
    BY <1>1, <2>1, SameFacts
  <2> QED
    BY ONLY IInv, t \in Threads, <1>2, <1>5, <2>2, <2>3, <2>4, StepKeeps
<1> QED
  BY <1>6, <1>7

LEMMA GlueCompileKeeps ==
  ASSUME IInv, NEW t \in Threads, GlueCompile(t)
  PROVE  IInv'
<1> DEFINE c == GlueCode(job[t])
           x == [elf[t] EXCEPT !["glue"] = c]
<1>1. TypeInv /\ CacheInv /\ AccType /\ ThreadInv(t)
  BY DEF IInv, TypeInv
<1>2. /\ UNCHANGED <<scenario, job, ctx, todo>> /\ pc[t] = "glueCompile"
      /\ SetElf(t, "unit", [NoElf EXCEPT !["glue"] = c])
      /\ elf' = [elf EXCEPT ![t] = x] /\ pc' = [pc EXCEPT ![t] = "release"]
  BY DEF GlueCompile, Goto
<1>3. c \in Codes
  BY <1>1, JobFacts, CodeFacts DEF PartSet
<1>4. [NoElf EXCEPT !["glue"] = c] \in Elfs /\ x \in Elfs
  <2>1. elf[t] \in Elfs
    BY <1>1 DEF TypeInv
  <2> QED
    BY <1>3, <2>1, NoElfFacts DEF Elfs
<1>5. /\ CacheInv' /\ AccType'
      /\ acc'[t]["unit"].state = "hit"
      /\ acc'[t]["full"] = acc[t]["full"] /\ acc'[t]["fs"] = NoAcc /\ acc'[t]["pre"] = NoAcc
      /\ \A u \in Threads \ {t} : acc'[u] = acc[u]
  BY <1>2, <1>4, UnitSetElf
<1>6. ThreadInv(t)'
  <2>1. pc'[t] = "release"
    BY <1>1, <1>2 DEF TypeInv
  <2> QED
    BY <1>1, <1>2, <1>5, <2>1 DEF ThreadInv, Inside, Visiting, Places
<1>7. "release" \in Places /\ ctx' \subseteq Threads
  BY <1>1, <1>2 DEF Places, TypeInv
<1> HIDE DEF x
<1> QED
  BY <1>1, <1>2, <1>4, <1>5, <1>6, <1>7, SameFacts, StepKeeps

(* updateAndMerge. *)
LEMMA SetKeeps ==
  ASSUME IInv, NEW t \in Threads, SetNonFragment(t) \/ SetFragment(t)
  PROVE  IInv'
<1>1. TypeInv /\ CacheInv /\ AccType /\ ThreadInv(t) /\ elf[t] \in Elfs
  BY DEF IInv, TypeInv
<1>2. PICK a \in {"pre", "fs"}, l \in {"setFs", "release"},
           e \in {elf[t], [p \in DOMAIN elf[t] |-> Merged(t, elf[t], p)]} :
        /\ (a = "pre" /\ l = "setFs" /\ pc[t] = "setPre") \/ (a = "fs" /\ l = "release" /\ pc[t] = "setFs")
        /\ pc' = [pc EXCEPT ![t] = l]
        /\ SetElf(t, a, elf[t]) \/ UNCHANGED <<cache, acc>>
        /\ elf' = [elf EXCEPT ![t] = e]
  <2>1. CASE SetNonFragment(t)
    <3>1. elf' = [elf EXCEPT ![t] = elf[t]]
      BY <1>1, <2>1, SameFacts DEF SetNonFragment
    <3>2. /\ pc[t] = "setPre" /\ pc' = [pc EXCEPT ![t] = "setFs"]
          /\ SetElf(t, "pre", elf[t]) \/ UNCHANGED <<cache, acc>>
      BY <2>1, Zenon DEF SetNonFragment, Goto
    <3> QED
      BY <3>1, <3>2
  <2>2. CASE SetFragment(t)
    <3> DEFINE m == [p \in DOMAIN elf[t] |-> Merged(t, elf[t], p)]
    <3>1. /\ pc[t] = "setFs" /\ pc' = [pc EXCEPT ![t] = "release"]
          /\ SetElf(t, "fs", elf[t]) \/ UNCHANGED <<cache, acc>>
          /\ elf' = [elf EXCEPT ![t] = m]
      BY <2>2, Zenon DEF SetFragment, Goto
    <3> HIDE DEF m
    <3>2. m = elf[t] \/ m = [p \in DOMAIN elf[t] |-> Merged(t, elf[t], p)]
      BY DEF m
    <3> QED
      BY <3>1, <3>2
  <2> QED
    BY <2>1, <2>2
<1>3. UNCHANGED <<scenario, job, todo, ctx>>
  BY DEF SetNonFragment, SetFragment
<1>4. l \in Places /\ ctx' \subseteq Threads /\ pc'[t] = l
  BY <1>1, <1>2, <1>3 DEF Places, TypeInv
<1>5. e \in Elfs
  <2>1. ASSUME NEW p \in PartSet \cup {"glue"}  PROVE Merged(t, elf[t], p) \in Codes
    <3>1. CASE InStageCache(t, p)
      <4>1. HoldsElf(acc[t][p].key)
        BY <1>1, <3>1 DEF InStageCache, CacheInv, Accessors
      <4> QED
        BY <3>1, <4>1 DEF Merged, HoldsElf, Elfs
    <3>2. CASE ~InStageCache(t, p)
      BY <1>1, <3>2 DEF Merged, Elfs
    <3> QED
      BY <3>1, <3>2
  <2>2. [p \in DOMAIN elf[t] |-> Merged(t, elf[t], p)] \in Elfs
    <3>1. DOMAIN elf[t] = PartSet \cup {"glue"}
      BY <1>1 DEF Elfs
    <3> QED
      BY <2>1, <3>1 DEF Elfs
  <2> QED
    BY <1>1, <1>2, <2>2
<1>6. a \in Accessors
  BY DEF Accessors
<1>7. /\ CacheInv' /\ AccType' /\ \A b \in Accessors \ {a} : acc'[t][b] = acc[t][b]
      /\ \A u \in Threads \ {t} : acc'[u] = acc[u]
  <2>1. CASE SetElf(t, a, elf[t])
    BY <1>1, <1>6, <2>1, SetElfKeeps
  <2>2. CASE UNCHANGED <<cache, acc>>
    BY <1>1, <2>2 DEF CacheInv, Must, HoldsElf, AccType
  <2> QED
    BY <1>2, <2>1, <2>2
<1>8. ThreadInv(t)'
  <2>1. acc'[t]["unit"] = acc[t]["unit"] /\ acc'[t]["full"] = acc[t]["full"]
    BY <1>2, <1>7 DEF Accessors
  <2>2. acc[t]["unit"] = NoAcc
    BY <1>1, <1>2 DEF ThreadInv, Visiting
  <2> QED
    BY <1>1, <1>2, <1>3, <1>4, <2>1, <2>2 DEF ThreadInv, Inside, Visiting, Places, NoAcc
<1> QED
  BY <1>1, <1>2, <1>3, <1>4, <1>5, <1>7, <1>8, SameFacts, StepKeeps

LEMMA ReleaseKeeps ==
  ASSUME IInv, NEW t \in Threads, Release(t)
  PROVE  IInv'
<1> DEFINE as == {"fs", "pre", "unit"}
<1>1. TypeInv /\ CacheInv /\ AccType /\ ThreadInv(t) /\ as \in SUBSET Accessors
  BY DEF IInv, TypeInv, Accessors
<1>2. /\ UNCHANGED <<scenario, job, todo, elf>> /\ ctx' = ctx \ {t} /\ pc[t] = "release"
      /\ cache' = Dropped(t, as) /\ acc' = Without(t, as)
      /\ pc' = [pc EXCEPT ![t] = "output"]
  BY DEF Release, Goto
<1>3. /\ CacheInv' /\ AccType'
      /\ \A a \in as : acc'[t][a] = NoAcc
      /\ \A u \in Threads \ {t} : acc'[u] = acc[u]
  BY <1>1, <1>2, DropKeeps
<1>4. ThreadInv(t)'
  <2>1. pc'[t] = "output" /\ t \notin ctx'
    BY <1>1, <1>2 DEF TypeInv
  <2> QED
    BY <1>3, <2>1 DEF ThreadInv, Inside, Visiting, Places, NoAcc
<1>5. "output" \in Places /\ ctx' \subseteq Threads /\ \A u \in Threads \ {t} : u \in ctx' <=> u \in ctx
  BY <1>1, <1>2 DEF Places, TypeInv
<1> QED
  BY <1>1, <1>2, <1>3, <1>4, <1>5, SameFacts, StepKeeps

LEMMA OutputKeeps ==
  ASSUME IInv, NEW t \in Threads, Output(t)
  PROVE  IInv'
<1>1. TypeInv /\ CacheInv /\ AccType /\ ThreadInv(t) /\ elf[t] \in Elfs /\ {"full"} \in SUBSET Accessors
  BY DEF IInv, TypeInv, Accessors
<1>2. /\ UNCHANGED <<scenario, job, todo, elf, ctx>> /\ pc[t] = "output"
      /\ acc' = Without(t, {"full"})
      /\ pc' = [pc EXCEPT ![t] = "idle"]
      /\ \/ acc[t]["full"].state = "must" /\ cache' = Store(acc[t]["full"].key, elf[t])
         \/ cache' = Dropped(t, {"full"})
  BY Zenon DEF Output, Goto
<1>3. /\ CacheInv' /\ AccType'
      /\ acc'[t]["full"] = NoAcc
      /\ \A a \in Accessors \ {"full"} : acc'[t][a] = acc[t][a]
      /\ \A u \in Threads \ {t} : acc'[u] = acc[u]
  <2>1. CASE acc[t]["full"].state = "must" /\ cache' = Store(acc[t]["full"].key, elf[t])
    BY <1>1, <1>2, <2>1, PopulateKeeps
  <2>2. CASE cache' = Dropped(t, {"full"})
    BY <1>1, <1>2, <2>2, DropKeeps
  <2> QED
    BY <1>2, <2>1, <2>2
<1>4. ThreadInv(t)'
  <2>1. pc'[t] = "idle" /\ t \notin ctx'
    BY <1>1, <1>2 DEF TypeInv, ThreadInv, Inside
  <2>2. \A a \in Accessors : acc'[t][a] = NoAcc
    BY <1>1, <1>2, <1>3 DEF ThreadInv, Visiting, Accessors
  <2> QED
    BY <2>1, <2>2 DEF ThreadInv, Inside, Visiting, Places, NoAcc, Accessors
<1>5. "idle" \in Places /\ ctx' \subseteq Threads
  BY <1>1, <1>2 DEF Places, TypeInv
<1> QED
  BY ZenonT(60), <1>1, <1>2, <1>3, <1>4, <1>5, SameFacts, StepKeeps

-----------------------------------------------------------------------------
(* The theorems *)

LEMMA InvInit == Init => IInv
<1> SUFFICES ASSUME Init  PROVE IInv
  OBVIOUS
<1> USE DEF Init
<1>1. TypeInv
  <2>1. job \in [Threads -> Options.jobs]
    BY ScenariosAssumption DEF Options
  <2>2. AccType
    BY DEF AccType, NoAcc, AccStates, Keys
  <2>3. pc \in [Threads -> Places] /\ todo \in [Threads -> Seq(PartSet)] /\ ctx \subseteq Threads
    BY DEF Places
  <2>4. elf \in [Threads -> Elfs]
    BY NoElfFacts
  <2> QED
    BY <2>1, <2>2, <2>3, <2>4 DEF TypeInv
<1>2. \A t \in Threads, a \in Accessors : acc[t][a] = NoAcc
  OBVIOUS
<1>3. CacheInv
  BY <1>2 DEF CacheInv, NoAcc
<1>4. \A t \in Threads : ThreadInv(t)
  BY <1>2 DEF ThreadInv, Visiting, NoAcc, Accessors
<1> QED
  BY <1>1, <1>3, <1>4 DEF IInv

LEMMA InvStep ==
  ASSUME IInv, NEW t \in Threads, Step(t)
  PROVE  IInv'
<1>1. CASE QuietStep(t)
  BY <1>1, QuietKeeps
<1>2. CASE LookUpFull(t) \/ Acquire(t) \/ Release(t) \/ Output(t)
  BY <1>2, LookUpFullKeeps, AcquireKeeps, ReleaseKeeps, OutputKeeps
<1>3. CASE UnlinkedLookUp(t) \/ UnlinkedCompile(t) \/ GlueLookUp(t) \/ GlueCompile(t)
  BY <1>3, UnlinkedLookUpKeeps, UnlinkedCompileKeeps, GlueLookUpKeeps, GlueCompileKeeps
<1>4. CASE PartLookUp(t) \/ PartCompile(t)
  BY <1>4, PartLookUpKeeps, PartCompileKeeps
<1>5. CASE CheckFragment(t) \/ CheckNonFragment(t) \/ SetNonFragment(t) \/ SetFragment(t)
  BY <1>5, CheckKeeps, SetKeeps
<1> QED
  BY <1>1, <1>2, <1>3, <1>4, <1>5 DEF Step, QuietStep

LEMMA InvNext == IInv /\ [Next]_vars => IInv'
<1> SUFFICES ASSUME IInv, [Next]_vars  PROVE IInv'
  OBVIOUS
<1>1. CASE UNCHANGED vars
  BY <1>1 DEF vars, IInv, TypeInv, CacheInv, ThreadInv, AccType, Must, HoldsElf, Options, TwoParts, Present
<1>2. ASSUME NEW t \in Threads, Step(t)  PROVE IInv'
  BY <1>2, InvStep
<1>3. ASSUME NEW t \in Threads, NEW j \in Options.jobs, Begin(t, j)  PROVE IInv'
  BY <1>3, BeginKeeps
<1> QED
  BY <1>1, <1>2, <1>3 DEF Next

(* The invariant holds for any threads, jobs, options and faults. *)
THEOREM PipelineInductive == Spec => []IInv
  BY InvInit, InvNext, PTL DEF Spec

(* One accessor owes the entry of k when and only when it is being compiled. *)
LEMMA OneOwner ==
  ASSUME IInv, NEW k \in DOMAIN cache
  PROVE  cache[k] = Compiling <=>
           Cardinality({x \in Threads \X Accessors :
                         acc[x[1]][x[2]] = [state |-> "must", key |-> k]}) = 1
<1> DEFINE S == {x \in Threads \X Accessors : acc[x[1]][x[2]] = [state |-> "must", key |-> k]}
<1>1. ASSUME NEW x \in Threads \X Accessors
      PROVE  x \in S <=> Must(x[1], x[2], k)
  <2>1. acc[x[1]][x[2]] \in [state : AccStates, key : Keys]
    BY DEF IInv, TypeInv, AccType
  <2> QED
    BY <2>1 DEF Must
<1>2. CASE cache[k] = Compiling
  <2>1. PICK t \in Threads, a \in Accessors : Must(t, a, k)
    BY <1>2 DEF IInv, CacheInv
  <2>2. <<t, a>> \in S
    BY <1>1, <2>1
  <2>3. ASSUME NEW x \in S  PROVE x = <<t, a>>
    <3>1. x \in Threads \X Accessors /\ Must(x[1], x[2], k)
      BY <1>1
    <3>2. x[1] = t /\ x[2] = a
      BY <2>1, <3>1 DEF IInv, CacheInv, Must
    <3> QED
      BY <3>1, <3>2
  <2>4. S = {<<t, a>>}
    BY <2>2, <2>3
  <2>5. Cardinality({<<t, a>>}) = 1
    BY FS_Singleton
  <2> QED
    BY <1>2, <2>4, <2>5
<1>3. CASE cache[k] # Compiling
  <2>1. ASSUME NEW x \in S  PROVE FALSE
    <3>1. x \in Threads \X Accessors /\ Must(x[1], x[2], k)
      BY <1>1
    <3> QED
      BY <1>3, <3>1 DEF IInv, CacheInv, Must
  <2>2. S = {}
    BY <2>1
  <2>3. Cardinality({}) = 0
    BY FS_EmptySet
  <2> QED
    BY <1>3, <2>2, <2>3
<1> QED
  BY <1>2, <1>3

(* On every path through a build, with any error, in any interleaving: an     *)
(* entry is being compiled exactly while one accessor owes it, and a build    *)
(* that returned has neither a context nor an accessor left.                  *)
THEOREM NothingKept == Spec => []NothingLeftBehind
<1>1. ASSUME IInv  PROVE NothingLeftBehind
  <2>1. ASSUME NEW t \in Threads, pc[t] = "idle"
        PROVE  t \notin ctx /\ acc[t] = [a \in Accessors |-> NoAcc]
    <3>1. ThreadInv(t) /\ acc[t] \in [Accessors -> [state : AccStates, key : Keys]]
      BY <1>1 DEF IInv, TypeInv, AccType
    <3>2. t \notin ctx /\ \A a \in Accessors : acc[t][a] = NoAcc
      BY <2>1, <3>1 DEF ThreadInv, Inside, Visiting, Accessors
    <3> QED
      BY <3>1, <3>2
  <2> QED
    BY <1>1, <2>1, OneOwner DEF NothingLeftBehind
<1> QED
  BY <1>1, PipelineInductive, PTL
-----------------------------------------------------------------------------
(***************************************************************************)
(* That what a build puts into the cache is right for every later build    *)
(* that finds it there, and that what a build returns is therefore the     *)
(* answer to its job.  The builds of all threads are taken together with   *)
(* the contents of the cache they share; what the callers have to ensure   *)
(* is WellPosed.                                                           *)
(***************************************************************************)

-----------------------------------------------------------------------------
(* What the builds put into the cache, and what they have put together *)

(* The options and jobs of every process are as the callers ensure. *)
AllWellPosed == \A s \in DOMAIN Scenarios : WellPosed(Scenarios[s])

LookedUp(j) == j.api \notin {"stage", "colorExport"}

(* Buildable, but for the client's allocator. *)
Sound(j) ==
  /\ j.links
  /\ NoneBad(j) \/ j.api = "colorExport"
  /\ j.api = "compute" => j.valid
  /\ j.api \in {"stage", "withElf"} => \A p \in Present(j) \ j.given : ~NeedsFull(j, p)

(* What a build of job j puts under a key. *)
StoredFull(j, k, e) ==
  k = FullKey(j) /\ LookedUp(j) /\ MayBuild(Options, j) /\ e = Answer(Options, j)

StoredStage(j, k, e) ==
  \E p \in {"pre", "fs"} :
    /\ k = StageKey(j, p) /\ j[p] # NoShader /\ e[p] = WholeCode(j, p)
    /\ \A q \in PartSet : e[q] \in {NoCode, WholeCode(j, q)}
    /\ UsesStageCache(Options, j)

StoredUnlinked(j, k, e) ==
  \E p \in PartSet : /\ k = UnlinkedKey(j, p) /\ j[p] # NoShader /\ j[p] \notin Bad
                     /\ e = [NoElf EXCEPT ![p] = UnlinkedCode(j, p)]

StoredPart(j, k, e) ==
  \E p \in {"pre", "fs"} : /\ TwoParts(j) /\ k = PartKey(j, p) /\ j[p] \notin Bad
                           /\ e = [NoElf EXCEPT ![p] = PartCode(j, p)]

StoredGlue(j, k, e) == k = GlueKey(j) /\ e = [NoElf EXCEPT !["glue"] = GlueCode(j)]

Stored(j, k, e) ==
  \/ StoredFull(j, k, e) \/ StoredStage(j, k, e) \/ StoredUnlinked(j, k, e)
  \/ StoredPart(j, k, e) \/ StoredGlue(j, k, e)

ContentInv ==
  \A k \in DOMAIN cache : cache[k] \in Elfs => \E j \in Options.jobs : Stored(j, k, cache[k])

ResultType ==
  /\ result \in [Threads -> {"Success", "Error"}]
  /\ out \in [Threads -> [result : {"none", "Success", "Error"}, elf : Elfs]]

(* The keys of the accessors are those of the thread's job. *)
KeyInv(t) ==
  /\ acc[t]["full"] # NoAcc =>
       acc[t]["full"].key = FullKey(job[t]) /\ Options.full /\ LookedUp(job[t])
  /\ \A p \in {"pre", "fs"} : acc[t][p] # NoAcc =>
       acc[t][p].key = StageKey(job[t], p) /\ PerStage(t) /\ job[t][p] # NoShader
  /\ acc[t]["unit"].state = "must" =>
       /\ pc[t] = "unlinkedCompile" => acc[t]["unit"].key = UnlinkedKey(job[t], Head(todo[t]))
       /\ pc[t] = "partCompile" => acc[t]["unit"].key = PartKey(job[t], Head(todo[t]))
       /\ pc[t] = "glueCompile" => acc[t]["unit"].key = GlueKey(job[t])

WholePlaces == {"whole", "checkPre", "generate", "setPre", "setFs"}

(* A thread is where the way its job is built takes it. *)
WayInv(t) ==
  /\ pc[t] = "return" => Refused(job[t])
  /\ pc[t] \notin {"idle", "return"} => ~Refused(job[t])
  /\ pc[t] = "lookup" => LookedUp(job[t]) /\ (Options.full => result[t] = "Success")
  /\ pc[t] \in {"unlinked", "unlinkedCompile"} => Way(Options, job[t]) = "unlinked"
  /\ pc[t] \in {"part", "partCompile"} => Way(Options, job[t]) = "part"
  /\ pc[t] \in WholePlaces => Way(Options, job[t]) = "whole"
  /\ pc[t] = "glue" => Way(Options, job[t]) = "glue"
  /\ pc[t] \in {"unlinked", "unlinkedCompile", "part", "partCompile", "glue", "glueCompile",
                "whole", "checkPre", "generate"} => result[t] = "Success"
  /\ pc[t] \in {"lookup", "acquire", "glue", "whole", "checkPre", "generate"} => elf[t] = NoElf
  /\ pc[t] \in {"checkPre", "generate", "setPre", "setFs"} => job[t].links

(* The parts that the loop of a thread has still to visit. *)
Parts(w) == {w[i] : i \in DOMAIN w}
Distinct(w) == \A i, k \in DOMAIN w : w[i] = w[k] => i = k

(* The ELF of relocatable stages holds those of parts ps. *)
HoldsUnlinked(j, e, ps) ==
  /\ e["glue"] = NoCode
  /\ \A p \in PartSet : e[p] = IF p \in ps THEN UnlinkedCode(j, p) ELSE NoCode
  /\ \A p \in ps : ~Fails(j, p)

(* The stages that are to be linked are there. *)
LinkReady(j, e) ==
  /\ HoldsUnlinked(j, e, Linked(j))
  /\ j.api \in {"graphics", "compute"} \/ Linked(j) = Present(j)

(* The loop over the stages has parts w still to visit, in order; it has none *)
(* when it is through, or when a stage of a pipeline failed.                  *)
LoopAt(j, w, e) ==
  IF w = <<>> THEN LinkReady(j, e)
  ELSE /\ Distinct(w) /\ Parts(w) \subseteq Present(j)
       /\ "pre" \in Parts(w) => Parts(w) = Present(j) /\ Head(w) = "pre"
       /\ HoldsUnlinked(j, e, Present(j) \ Parts(w))

UnlinkedInv(t) ==
  /\ pc[t] \in {"unlinked", "unlinkedCompile"} => LoopAt(job[t], todo[t], elf[t])
  /\ pc[t] = "unlinkedCompile" =>
       Head(todo[t]) \notin job[t].given /\ ~NeedsFull(job[t], Head(todo[t]))

HoldsParts(j, e, ps) ==
  /\ e["glue"] = NoCode
  /\ \A p \in PartSet : e[p] = IF p \in ps THEN PartCode(j, p) ELSE NoCode
  /\ \A p \in ps : j[p] \notin Bad

PartInv(t) ==
  pc[t] \in {"part", "partCompile"} =>
    /\ Distinct(todo[t]) /\ Parts(todo[t]) \subseteq {"pre", "fs"}
    /\ HoldsParts(job[t], elf[t], {"pre", "fs"} \ Parts(todo[t]))

GlueInv(t) ==
  pc[t] = "glueCompile" =>
    \/ job[t].api = "colorExport" /\ elf[t] = NoElf
    \/ Way(Options, job[t]) = "unlinked" /\ Glued(Options, job[t]) /\ LinkReady(job[t], elf[t])

WholeInv(t) ==
  pc[t] \in {"setPre", "setFs"} =>
    /\ elf[t]["glue"] = NoCode
    /\ \A p \in PartSet : /\ elf[t][p] \in {NoCode, WholeCode(job[t], p)}
                          /\ p \notin Present(job[t]) => elf[t][p] = NoCode
                          /\ p \in Present(job[t]) /\ ~InStageCache(t, p)
                               => elf[t][p] = WholeCode(job[t], p)
    /\ IF result[t] = "Success" THEN NoneBad(job[t]) \/ UsesStageCache(Options, job[t]) ELSE ~NoneBad(job[t])

DoneInv(t) ==
  pc[t] \in {"release", "output"} =>
    IF result[t] = "Success" THEN MayBuild(Options, job[t]) /\ elf[t] = Answer(Options, job[t])
                             ELSE ~Sound(job[t])

OutInv(t) ==
  pc[t] = "idle" /\ out[t].result # "none" =>
    /\ Buildable(job[t]) => out[t].result = "Success"
    /\ out[t].result = "Success" => /\ job[t].alloc /\ MayBuild(Options, job[t])
                                    /\ out[t].elf = Answer(Options, job[t])

WorkInv(t) ==
  /\ KeyInv(t) /\ WayInv(t) /\ UnlinkedInv(t) /\ PartInv(t)
  /\ GlueInv(t) /\ WholeInv(t) /\ DoneInv(t) /\ OutInv(t)

AnswerInv == IInv /\ ResultType /\ ContentInv /\ \A t \in Threads : WorkInv(t)

-----------------------------------------------------------------------------
(* What is found in the cache *)

LEMMA OptionsPosed ==
  ASSUME AllWellPosed, TypeInv
  PROVE  WellPosed(Options)
  BY DEF AllWellPosed, TypeInv, Options

(* A shader is one of one stage. *)
LEMMA OnePart ==
  ASSUME NEW o, WellPosed(o), NEW i \in o.jobs, NEW j \in o.jobs, NEW p \in PartSet, NEW q \in PartSet,
         i[p] = j[q], i[p] # NoShader
  PROVE  p = q
  BY DEF WellPosed

LEMMA SoundFacts ==
  ASSUME NEW j
  PROVE  Buildable(j) <=> j.alloc /\ Sound(j)
  BY DEF Buildable, Sound

(* The first element of a key tells what it is for. *)
LEMMA KeyTags ==
  ASSUME NEW j, NEW p
  PROVE  /\ FullKey(j)[1] = "pipeline" /\ StageKey(j, p)[1] = "stage"
         /\ UnlinkedKey(j, p)[1] = "unlinked" /\ PartKey(j, p)[1] = "part" /\ GlueKey(j)[1] = "glue"
  BY DEF FullKey, StageKey, UnlinkedKey, PartKey, GlueKey

LEMMA StoredTags ==
  ASSUME NEW j, NEW k, NEW e, Stored(j, k, e)
  PROVE  /\ k[1] = "pipeline" => StoredFull(j, k, e)
         /\ k[1] = "stage" => StoredStage(j, k, e)
         /\ k[1] = "unlinked" => StoredUnlinked(j, k, e)
         /\ k[1] = "part" => StoredPart(j, k, e)
         /\ k[1] = "glue" => StoredGlue(j, k, e)
<1>1. StoredFull(j, k, e) => k[1] = "pipeline"
  BY DEF StoredFull, FullKey
<1>2. StoredStage(j, k, e) => k[1] = "stage"
  BY DEF StoredStage, StageKey
<1>3. StoredUnlinked(j, k, e) => k[1] = "unlinked"
  BY DEF StoredUnlinked, UnlinkedKey
<1>4. StoredPart(j, k, e) => k[1] = "part"
  BY DEF StoredPart, PartKey
<1>5. StoredGlue(j, k, e) => k[1] = "glue"
  BY DEF StoredGlue, GlueKey
<1> QED
  BY <1>1, <1>2, <1>3, <1>4, <1>5 DEF Stored

LEMMA HitStored ==
  ASSUME ContentInv, NEW k, HoldsElf(k)
  PROVE  \E i \in Options.jobs : Stored(i, k, cache[k])
  BY DEF ContentInv, HoldsElf

LEMMA NoElfDomain == DOMAIN NoElf = PartSet \cup {"glue"} /\ "glue" \notin PartSet
  BY DEF NoElf, PartSet

LEMMA AnswerFunction ==
  ASSUME NEW o, NEW j
  PROVE  Answer(o, j) = [p \in PartSet \cup {"glue"} |-> Answer(o, j)[p]]
<1> DEFINE F(p) == IF p = "glue" THEN IF Glued(o, j) THEN GlueCode(j) ELSE NoCode
                   ELSE IF p \notin Present(j) THEN NoCode
                   ELSE CASE Way(o, j) = "whole" -> WholeCode(j, p)
                          [] Way(o, j) = "part" -> PartCode(j, p)
                          [] Way(o, j) = "unlinked" -> IF p \in Linked(j) THEN UnlinkedCode(j, p) ELSE NoCode
                          [] Way(o, j) = "glue" -> NoCode
<1>1. Answer(o, j) = [p \in PartSet \cup {"glue"} |-> F(p)]
  BY Zenon DEF Answer
<1> HIDE DEF F
<1> QED
  BY <1>1

(* The same parts, the same answer. *)
LEMMA SameAnswer ==
  ASSUME NEW o, NEW i, NEW j, i.pre = j.pre, i.fs = j.fs, i.cs = j.cs, i.reloc = j.reloc, SamePipeline(i, j),
         ~Refused(j), MayBuild(o, i)
  PROVE  MayBuild(o, j) /\ Answer(o, i) = Answer(o, j)
<1>1. \A p \in PartSet : i[p] = j[p]
  BY DEF PartSet
<1>2. Present(i) = Present(j) /\ (TwoParts(i) <=> TwoParts(j)) /\ Present(i) \subseteq PartSet
  BY <1>1 DEF Present, TwoParts
<1>3. i.api = j.api /\ i.given = j.given /\ (i.links <=> j.links)
  BY DEF SamePipeline
<1>4. Way(o, i) = Way(o, j) /\ (UsesStageCache(o, i) <=> UsesStageCache(o, j)) /\ (NoneBad(i) <=> NoneBad(j))
  BY <1>1, <1>2, <1>3 DEF Way, UsesStageCache, NoneBad
<1>5. \A p \in PartSet : Fails(i, p) <=> Fails(j, p)
  BY <1>1, <1>3 DEF Fails, NeedsFull
<1>6. Linked(i) = Linked(j)
  <2>1. "pre" \in PartSet
    BY DEF PartSet
  <2> QED
    BY <1>2, <1>5, <2>1 DEF Linked
<1>7. Glued(o, i) <=> Glued(o, j)
  BY <1>3, <1>4, <1>6 DEF Glued
<1>8. Interface(i) = Interface(j) /\ GlueCode(i) = GlueCode(j) /\ \A p : Before(i, p) = Before(j, p)
  BY DEF Interface, GlueCode, Before
<1>9. \A p \in PartSet : /\ WholeCode(i, p) = WholeCode(j, p) /\ UnlinkedCode(i, p) = UnlinkedCode(j, p)
                         /\ PartCode(i, p) = PartCode(j, p)
  BY <1>1, <1>8 DEF WholeCode, UnlinkedCode, PartCode
<1>10. MayBuild(o, j)
  <2>1. j.api = "compute" => j.valid
    BY DEF Refused
  <2>2. Way(o, j) \in {"whole", "part", "unlinked", "glue"} /\ j.links
    BY <1>3 DEF Way, MayBuild
  <2>3. CASE Way(o, j) = "whole"
    BY <1>4, <2>1, <2>2, <2>3 DEF MayBuild
  <2>4. CASE Way(o, j) = "part"
    BY <1>4, <2>1, <2>2, <2>4 DEF MayBuild
  <2>5. CASE Way(o, j) = "unlinked"
    BY <1>2, <1>3, <1>4, <1>6, <2>1, <2>2, <2>5 DEF MayBuild
  <2>6. CASE Way(o, j) = "glue"
    BY <2>1, <2>2, <2>6 DEF MayBuild
  <2> QED
    BY <2>2, <2>3, <2>4, <2>5, <2>6
<1>11. Answer(o, i) = Answer(o, j)
  <2>1. ASSUME NEW p \in PartSet \cup {"glue"}  PROVE Answer(o, i)[p] = Answer(o, j)[p]
    <3>1. CASE p = "glue"
      BY <1>7, <1>8, <3>1 DEF Answer
    <3>2. CASE p \in PartSet
      <4>1. p # "glue" /\ (p \in Present(i) <=> p \in Present(j)) /\ (p \in Linked(i) <=> p \in Linked(j))
        BY <1>2, <1>6, <3>2, NoElfDomain
      <4>2. /\ WholeCode(i, p) = WholeCode(j, p) /\ UnlinkedCode(i, p) = UnlinkedCode(j, p)
            /\ PartCode(i, p) = PartCode(j, p)
        BY <1>9, <3>2
      <4>3. Way(o, j) \in {"whole", "part", "unlinked", "glue"}
        BY DEF Way
      <4>4. CASE p \notin Present(j)
        BY <2>1, <4>1, <4>4 DEF Answer
      <4>5. CASE p \in Present(j) /\ Way(o, j) = "whole"
        BY <1>4, <2>1, <4>1, <4>2, <4>5 DEF Answer
      <4>6. CASE p \in Present(j) /\ Way(o, j) = "part"
        BY <1>4, <2>1, <4>1, <4>2, <4>6 DEF Answer
      <4>7. CASE p \in Present(j) /\ Way(o, j) = "unlinked"
        BY <1>4, <2>1, <4>1, <4>2, <4>7 DEF Answer
      <4>8. CASE p \in Present(j) /\ Way(o, j) = "glue"
        BY <1>4, <2>1, <4>1, <4>8 DEF Answer
      <4> QED
        BY <4>3, <4>4, <4>5, <4>6, <4>7, <4>8
    <3> QED
      BY <3>1, <3>2
  <2>2. /\ Answer(o, i) = [p \in PartSet \cup {"glue"} |-> Answer(o, i)[p]]
        /\ Answer(o, j) = [p \in PartSet \cup {"glue"} |-> Answer(o, j)[p]]
    BY AnswerFunction
  <2> QED
    BY <2>1, <2>2
<1> QED
  BY <1>10, <1>11

LEMMA HitFull ==
  ASSUME ContentInv, WellPosed(Options), NEW j \in Options.jobs, Options.full, LookedUp(j), ~Refused(j),
         HoldsElf(FullKey(j))
  PROVE  MayBuild(Options, j) /\ cache[FullKey(j)] = Answer(Options, j)
<1> DEFINE k == FullKey(j)
<1>1. PICK i \in Options.jobs : Stored(i, k, cache[k])
  BY HitStored
<1>2. FullKey(i) = FullKey(j) /\ LookedUp(i) /\ MayBuild(Options, i) /\ cache[k] = Answer(Options, i)
  BY <1>1, KeyTags, StoredTags DEF StoredFull
<1>3. i.pre = j.pre /\ i.fs = j.fs /\ i.cs = j.cs /\ i.reloc = j.reloc
  BY <1>2 DEF FullKey
<1>4. SamePipeline(i, j)
  BY <1>2 DEF WellPosed, LookedUp
<1> QED
  BY <1>2, <1>3, <1>4, SameAnswer

LEMMA HitStage ==
  ASSUME ContentInv, WellPosed(Options), NEW j \in Options.jobs, NEW p \in {"pre", "fs"},
         j[p] # NoShader, HoldsElf(StageKey(j, p))
  PROVE  cache[StageKey(j, p)][p] = WholeCode(j, p)
<1> DEFINE k == StageKey(j, p)
<1>1. PICK i \in Options.jobs : Stored(i, k, cache[k])
  BY HitStored
<1>2. PICK q \in {"pre", "fs"} : k = StageKey(i, q) /\ cache[k][q] = WholeCode(i, q)
  BY <1>1, KeyTags, StoredTags DEF StoredStage
<1>3. i[q] = j[p] /\ Interface(i) = Interface(j) /\ Before(i, q) = Before(j, p)
  BY <1>2 DEF StageKey
<1>4. p \in PartSet /\ q \in PartSet
  BY DEF PartSet
<1>5. q = p
  BY <1>3, <1>4, OnePart
<1> QED
  BY <1>2, <1>3, <1>5 DEF WholeCode

LEMMA HitUnlinked ==
  ASSUME ContentInv, WellPosed(Options), NEW j \in Options.jobs, NEW p \in PartSet,
         j[p] # NoShader, HoldsElf(UnlinkedKey(j, p))
  PROVE  cache[UnlinkedKey(j, p)][p] = UnlinkedCode(j, p) /\ j[p] \notin Bad
<1> DEFINE k == UnlinkedKey(j, p)
<1>1. PICK i \in Options.jobs : Stored(i, k, cache[k])
  BY HitStored
<1>2. PICK q \in PartSet : k = UnlinkedKey(i, q) /\ i[q] \notin Bad
                           /\ cache[k] = [NoElf EXCEPT ![q] = UnlinkedCode(i, q)]
  BY <1>1, KeyTags, StoredTags DEF StoredUnlinked
<1>3. i[q] = j[p]
  BY <1>2 DEF UnlinkedKey
<1>4. q = p
  BY <1>3, OnePart
<1>5. cache[k][q] = UnlinkedCode(i, q)
  BY <1>2 DEF NoElf
<1> QED
  BY <1>2, <1>3, <1>4, <1>5 DEF UnlinkedCode

LEMMA HitPart ==
  ASSUME ContentInv, WellPosed(Options), NEW j \in Options.jobs, NEW p \in {"pre", "fs"},
         TwoParts(j), HoldsElf(PartKey(j, p))
  PROVE  cache[PartKey(j, p)][p] = PartCode(j, p) /\ j[p] \notin Bad
<1> DEFINE k == PartKey(j, p)
<1>1. PICK i \in Options.jobs : Stored(i, k, cache[k])
  BY HitStored
<1>2. PICK q \in {"pre", "fs"} : k = PartKey(i, q) /\ i[q] \notin Bad
                           /\ cache[k] = [NoElf EXCEPT ![q] = PartCode(i, q)]
  <2>1. k[1] = "part"
    BY KeyTags
  <2> HIDE DEF k
  <2>2. StoredPart(i, k, cache[k])
    BY <1>1, <2>1, StoredTags
  <2> QED
    BY <2>2 DEF StoredPart
<1>3. i[q] = j[p]
  BY <1>2 DEF PartKey
<1>4. p \in PartSet /\ q \in PartSet /\ j[p] # NoShader
  BY DEF PartSet, TwoParts, Present
<1>5. q = p
  BY <1>3, <1>4, OnePart
<1>6. cache[k][q] = PartCode(i, q)
  BY <1>2, <1>4 DEF NoElf
<1>7. PartCode(i, q) = PartCode(j, p)
  BY <1>2, <1>5 DEF PartKey, PartCode
<1> QED
  BY <1>2, <1>3, <1>5, <1>6, <1>7

LEMMA HitGlue ==
  ASSUME ContentInv, NEW j, HoldsElf(GlueKey(j))
  PROVE  cache[GlueKey(j)]["glue"] = GlueCode(j)
<1> DEFINE k == GlueKey(j)
<1>1. PICK i \in Options.jobs : Stored(i, k, cache[k])
  BY HitStored
<1>2. k = GlueKey(i) /\ cache[k] = [NoElf EXCEPT !["glue"] = GlueCode(i)]
  BY <1>1, KeyTags, StoredTags DEF StoredGlue
<1>3. cache[k]["glue"] = GlueCode(i)
  BY <1>2 DEF NoElf
<1> QED
  BY <1>2, <1>3 DEF GlueKey, GlueCode

-----------------------------------------------------------------------------
(* Steps of one thread *)

(* What the other threads have done does not depend on the cache. *)
LEMMA OneWorks ==
  ASSUME AnswerInv, NEW t \in Threads, IInv', ResultType', ContentInv', WorkInv(t)', UNCHANGED scenario,
         \A u \in Threads \ {t} : /\ pc'[u] = pc[u] /\ job'[u] = job[u] /\ todo'[u] = todo[u]
                                  /\ acc'[u] = acc[u] /\ elf'[u] = elf[u]
                                  /\ result'[u] = result[u] /\ out'[u] = out[u]
  PROVE  AnswerInv'
<1>1. ASSUME NEW u \in Threads, u # t  PROVE WorkInv(u)'
  <2>1. /\ pc'[u] = pc[u] /\ job'[u] = job[u] /\ todo'[u] = todo[u] /\ acc'[u] = acc[u]
        /\ elf'[u] = elf[u] /\ result'[u] = result[u] /\ out'[u] = out[u]
        /\ Options' = Options
    BY <1>1 DEF Options
  <2>2. WorkInv(u)
    BY DEF AnswerInv
  <2>3. KeyInv(u)'
    <3>1. PerStage(u)' <=> PerStage(u)
      BY <2>1 DEF PerStage
    <3> QED
      BY <2>1, <2>2, <3>1 DEF WorkInv, KeyInv
  <2>4. WayInv(u)'
    BY <2>1, <2>2 DEF WorkInv, WayInv
  <2>5. UnlinkedInv(u)' /\ PartInv(u)' /\ GlueInv(u)'
    BY <2>1, <2>2 DEF WorkInv, UnlinkedInv, PartInv, GlueInv
  <2>6. WholeInv(u)'
    BY <2>1, <2>2 DEF WorkInv, WholeInv, InStageCache
  <2>7. DoneInv(u)' /\ OutInv(u)'
    BY <2>1, <2>2 DEF WorkInv, DoneInv, OutInv
  <2> QED
    BY <2>3, <2>4, <2>5, <2>6, <2>7 DEF WorkInv
<1> QED
  BY <1>1 DEF AnswerInv

LEMMA SameStored ==
  ASSUME UNCHANGED scenario
  PROVE  Options' = Options /\ \A j, k, e : Stored(j, k, e)' <=> Stored(j, k, e)
<1>1. Options' = Options
  BY DEF Options
<1> QED
  BY <1>1 DEF Stored, StoredFull, StoredStage, StoredUnlinked, StoredPart, StoredGlue

(* Entries that are opened or given up hold no ELF. *)
LEMMA ContentSame ==
  ASSUME ContentInv, UNCHANGED scenario,
         \A k \in DOMAIN cache' : cache'[k] \in Elfs => k \in DOMAIN cache /\ cache'[k] = cache[k]
  PROVE  ContentInv'
  BY SameStored DEF ContentInv

LEMMA ContentLookUp ==
  ASSUME ContentInv, UNCHANGED scenario, NEW t, NEW a, NEW k, LookUp(t, a, k)
  PROVE  ContentInv'
<1>1. Compiling \notin Elfs
  BY EntriesAssumption
<1>2. \A x \in DOMAIN cache' : cache'[x] \in Elfs => x \in DOMAIN cache /\ cache'[x] = cache[x]
  <2>1. CASE Found(k) = "must"
    BY <1>1, <2>1 DEF LookUp, Store
  <2>2. CASE Found(k) # "must"
    BY <2>2 DEF LookUp
  <2> QED
    BY <2>1, <2>2
<1> QED
  BY <1>2, ContentSame

LEMMA ContentDrop ==
  ASSUME ContentInv, UNCHANGED scenario, NEW t, NEW as, cache' = Dropped(t, as)
  PROVE  ContentInv'
<1>1. Empty \notin Elfs
  BY EntriesAssumption
<1>2. \A x \in DOMAIN cache' : cache'[x] \in Elfs => x \in DOMAIN cache /\ cache'[x] = cache[x]
  BY <1>1 DEF Dropped
<1> QED
  BY <1>2, ContentSame

LEMMA ContentStore ==
  ASSUME ContentInv, UNCHANGED scenario, NEW k, NEW e, NEW j \in Options.jobs, Stored(j, k, e),
         cache' = Store(k, e)
  PROVE  ContentInv'
<1>1. \A x \in DOMAIN cache' : (x = k /\ cache'[x] = e) \/ (x \in DOMAIN cache /\ cache'[x] = cache[x])
  BY DEF Store
<1>2. Options' = Options
  BY DEF Options
<1>3. ASSUME NEW x \in DOMAIN cache', cache'[x] \in Elfs
      PROVE  \E i \in Options.jobs : Stored(i, x, cache'[x])
  <2>1. CASE x = k /\ cache'[x] = e
    BY <2>1
  <2>2. CASE x \in DOMAIN cache /\ cache'[x] = cache[x]
    BY <1>3, <2>2 DEF ContentInv
  <2> QED
    BY <1>1, <2>1, <2>2
<1> QED
  BY <1>2, <1>3, SameStored DEF ContentInv

(* A build changes what is its thread's. *)
LEMMA Others ==
  ASSUME AnswerInv, NEW t \in Threads, Step(t)
  PROVE  /\ UNCHANGED <<scenario, job>>
         /\ \A u \in Threads \ {t} : /\ pc'[u] = pc[u] /\ todo'[u] = todo[u] /\ acc'[u] = acc[u]
                                     /\ elf'[u] = elf[u] /\ result'[u] = result[u] /\ out'[u] = out[u]
<1> USE DEF Goto, LookUp, SetElf, Without, Visit, StageFailed
<1>1. TypeInv /\ ResultType /\ AccType
  BY DEF AnswerInv, IInv, TypeInv
<1> USE <1>1 DEF TypeInv, AccType, ResultType
<1>2. CASE LookUpFull(t)
  BY <1>2 DEF LookUpFull
<1>3. CASE Acquire(t) \/ Return(t) \/ AssertFails(t)
  BY <1>3 DEF Acquire, Return, AssertFails, Asserts
<1>4. CASE Release(t)
  BY <1>4 DEF Release
<1>5. CASE Output(t)
  BY <1>5 DEF Output
<1>6. CASE UnlinkedGiven(t) \/ LinkPlain(t) \/ PartLink(t) \/ IrLinkFails(t)
  BY <1>6 DEF UnlinkedGiven, LinkPlain, PartLink, IrLinkFails
<1>7. CASE UnlinkedRefused(t)
  BY <1>7 DEF UnlinkedRefused
<1>8. CASE UnlinkedLookUp(t)
  BY <1>8 DEF UnlinkedLookUp
<1>9. CASE UnlinkedCompile(t)
  BY <1>9 DEF UnlinkedCompile
<1>10. CASE GlueLookUp(t)
  BY <1>10 DEF GlueLookUp
<1>11. CASE GlueCompile(t)
  BY <1>11 DEF GlueCompile
<1>12. CASE PartLookUp(t)
  BY <1>12 DEF PartLookUp
<1>13. CASE PartCompile(t)
  BY <1>13 DEF PartCompile
<1>14. CASE CheckFragment(t)
  BY <1>14 DEF CheckFragment
<1>15. CASE CheckNonFragment(t)
  BY <1>15 DEF CheckNonFragment
<1>16. CASE Generate(t)
  BY <1>16 DEF Generate
<1>17. CASE SetNonFragment(t)
  BY <1>17 DEF SetNonFragment
<1>18. CASE SetFragment(t)
  BY <1>18 DEF SetFragment
<1> QED
  BY <1>2, <1>3, <1>4, <1>5, <1>6, <1>7, <1>8, <1>9, <1>10, <1>11, <1>12, <1>13, <1>14, <1>15, <1>16,
     <1>17, <1>18 DEF Step

-----------------------------------------------------------------------------
(* The parts a loop has still to visit *)

LEMMA TailFacts ==
  ASSUME NEW w \in Seq(PartSet), w # <<>>, Distinct(w)
  PROVE  /\ Head(w) \in Parts(w) /\ Distinct(Tail(w))
         /\ Parts(Tail(w)) = Parts(w) \ {Head(w)}
<1>1. /\ DOMAIN w = 1..Len(w) /\ Len(w) \in Nat /\ Len(w) > 0 /\ Head(w) = w[1]
      /\ DOMAIN Tail(w) = 1..(Len(w) - 1) /\ \A i \in 1..(Len(w) - 1) : Tail(w)[i] = w[i + 1]
  OBVIOUS
<1>2. Head(w) \in Parts(w)
  BY <1>1 DEF Parts
<1>3. Distinct(Tail(w))
  <2> SUFFICES ASSUME NEW i \in DOMAIN Tail(w), NEW k \in DOMAIN Tail(w), Tail(w)[i] = Tail(w)[k]
               PROVE  i = k
    BY DEF Distinct
  <2>1. w[i + 1] = w[k + 1] /\ i + 1 \in DOMAIN w /\ k + 1 \in DOMAIN w
    BY <1>1
  <2>2. i + 1 = k + 1
    BY <2>1 DEF Distinct
  <2> QED
    BY <1>1, <2>2
<1>4. ASSUME NEW x \in Parts(Tail(w))  PROVE x \in Parts(w) \ {Head(w)}
  <2>1. PICK i \in DOMAIN Tail(w) : x = Tail(w)[i]
    BY DEF Parts
  <2>2. x = w[i + 1] /\ i + 1 \in DOMAIN w /\ i + 1 # 1 /\ 1 \in DOMAIN w
    BY <1>1, <2>1
  <2>3. x # w[1]
    BY <2>2 DEF Distinct
  <2> QED
    BY <1>1, <2>2, <2>3 DEF Parts
<1>5. ASSUME NEW x \in Parts(w) \ {Head(w)}  PROVE x \in Parts(Tail(w))
  <2>1. PICK i \in DOMAIN w : x = w[i]
    BY DEF Parts
  <2>2. i # 1
    BY <1>1, <2>1
  <2>3. i - 1 \in DOMAIN Tail(w) /\ Tail(w)[i - 1] = x
    BY <1>1, <2>1, <2>2
  <2> QED
    BY <2>3 DEF Parts
<1> QED
  BY <1>2, <1>3, <1>4, <1>5

LEMMA ShortLists ==
  /\ Parts(<<>>) = {} /\ Distinct(<<>>)
  /\ \A x : Parts(<<x>>) = {x} /\ Distinct(<<x>>)
  /\ \A x, y : x # y => Parts(<<x, y>>) = {x, y} /\ Distinct(<<x, y>>)
<1>1. Parts(<<>>) = {} /\ Distinct(<<>>)
  BY DEF Parts, Distinct
<1>2. ASSUME NEW x  PROVE Parts(<<x>>) = {x} /\ Distinct(<<x>>)
  BY DEF Parts, Distinct
<1>3. ASSUME NEW x, NEW y, x # y  PROVE Parts(<<x, y>>) = {x, y} /\ Distinct(<<x, y>>)
  <2>1. DOMAIN <<x, y>> = {1, 2} /\ <<x, y>>[1] = x /\ <<x, y>>[2] = y
    OBVIOUS
  <2> QED
    BY <1>3, <2>1 DEF Parts, Distinct
<1> QED
  BY <1>1, <1>2, <1>3

LEMMA LoopVisits ==
  ASSUME NEW j, j.cs # NoShader => j.pre = NoShader /\ j.fs = NoShader
  PROVE  /\ Distinct(Loop(j)) /\ Parts(Loop(j)) = Present(j)
         /\ "pre" \in Present(j) => Head(Loop(j)) = "pre"
<1>1. j.pre = j["pre"] /\ j.fs = j["fs"] /\ j.cs = j["cs"]
  OBVIOUS
<1>2. CASE j.cs # NoShader
  <2>1. Present(j) = {"cs"}
    BY <1>1, <1>2 DEF Present, PartSet
  <2>2. Loop(j) = <<"cs">>
    <3>1. IfPresent(j, "pre") = <<>> /\ IfPresent(j, "fs") = <<>> /\ IfPresent(j, "cs") = <<"cs">>
      BY <1>1, <1>2 DEF IfPresent
    <3>2. <<>> \in Seq(PartSet) /\ <<"cs">> \in Seq(PartSet)
      BY DEF PartSet
    <3>3. <<>> \o <<>> = <<>> /\ <<>> \o <<"cs">> = <<"cs">>
      BY <3>2, ConcatEmptySeq
    <3> QED
      BY <3>1, <3>3 DEF Loop
  <2> QED
    BY <2>1, <2>2, ShortLists
<1>3. CASE j.cs = NoShader /\ j.pre = NoShader /\ j.fs = NoShader
  <2>1. Loop(j) = <<>> /\ Present(j) = {}
    BY <1>1, <1>3 DEF Loop, IfPresent, Present, PartSet
  <2> QED
    BY <2>1, ShortLists
<1>4. CASE j.cs = NoShader /\ j.pre # NoShader /\ j.fs = NoShader
  <2>1. Loop(j) = <<"pre">> /\ Present(j) = {"pre"}
    BY <1>1, <1>4 DEF Loop, IfPresent, Present, PartSet
  <2> QED
    BY <2>1, ShortLists
<1>5. CASE j.cs = NoShader /\ j.pre = NoShader /\ j.fs # NoShader
  <2>1. Loop(j) = <<"fs">> /\ Present(j) = {"fs"}
    BY <1>1, <1>5 DEF Loop, IfPresent, Present, PartSet
  <2> QED
    BY <2>1, ShortLists
<1>6. CASE j.cs = NoShader /\ j.pre # NoShader /\ j.fs # NoShader
  <2>1. Present(j) = {"pre", "fs"}
    BY <1>1, <1>6 DEF Present, PartSet
  <2>2. Loop(j) = <<"pre", "fs">>
    <3>1. IfPresent(j, "pre") = <<"pre">> /\ IfPresent(j, "fs") = <<"fs">> /\ IfPresent(j, "cs") = <<>>
      BY <1>1, <1>6 DEF IfPresent
    <3>2. <<"pre">> \in Seq(PartSet) /\ <<"fs">> \in Seq(PartSet) /\ <<"pre", "fs">> \in Seq(PartSet)
      BY DEF PartSet
    <3>3. <<"pre">> \o <<"fs">> = <<"pre", "fs">>
      <4> DEFINE c == <<"pre">> \o <<"fs">>
      <4>1. c \in Seq(PartSet) /\ Len(c) = 2 /\ c[1] = "pre" /\ c[2] = "fs"
        BY <3>2, ConcatProperties
      <4> HIDE DEF c
      <4>2. c = <<"pre", "fs">>
        BY <3>2, <4>1, SeqEqual
      <4> QED
        BY <4>2 DEF c
    <3>4. <<"pre", "fs">> \o <<>> = <<"pre", "fs">>
      BY <3>2, ConcatEmptySeq
    <3> QED
      BY <3>1, <3>3, <3>4 DEF Loop
  <2> QED
    BY <2>1, <2>2, ShortLists
<1> QED
  BY <1>2, <1>3, <1>4, <1>5, <1>6

(* The part that is visited next is one of the job. *)
LEMMA LoopHead ==
  ASSUME NEW j, NEW w \in Seq(PartSet), w # <<>>, NEW e, LoopAt(j, w, e)
  PROVE  Head(w) \in Present(j) /\ Head(w) \in PartSet
<1>1. Distinct(w) /\ Parts(w) \subseteq Present(j)
  BY DEF LoopAt
<1> QED
  BY <1>1, TailFacts DEF Present

(* All the stages are there at the end of a loop in which none failed. *)
LEMMA AllLinked ==
  ASSUME NEW j, \A p \in Present(j) : ~Fails(j, p)
  PROVE  Linked(j) = Present(j)
  BY DEF Linked

LEMMA UnlinkedVisited ==
  ASSUME NEW j, NEW w \in Seq(PartSet), w # <<>>, NEW e \in Elfs, LoopAt(j, w, e), ~Fails(j, Head(w))
  PROVE  LoopAt(j, Tail(w), [e EXCEPT ![Head(w)] = UnlinkedCode(j, Head(w))])
<1> DEFINE p == Head(w)
           x == [e EXCEPT ![p] = UnlinkedCode(j, p)]
<1>0. /\ Distinct(w) /\ Parts(w) \subseteq Present(j) /\ HoldsUnlinked(j, e, Present(j) \ Parts(w))
      /\ "pre" \in Parts(w) => Parts(w) = Present(j) /\ p = "pre"
  BY DEF LoopAt
<1>1. p \in Parts(w) /\ Distinct(Tail(w)) /\ Parts(Tail(w)) = Parts(w) \ {p} /\ p \in PartSet
  BY <1>0, TailFacts
<1>2. Present(j) \ Parts(Tail(w)) = (Present(j) \ Parts(w)) \cup {p}
  BY <1>0, <1>1
<1>3. DOMAIN e = PartSet \cup {"glue"} /\ p # "glue"
  BY <1>1 DEF Elfs, PartSet
<1>4. x[p] = UnlinkedCode(j, p) /\ x["glue"] = e["glue"] /\ \A q \in PartSet \ {p} : x[q] = e[q]
  BY <1>1, <1>3
<1> HIDE DEF x
<1>5. HoldsUnlinked(j, x, (Present(j) \ Parts(w)) \cup {p})
  <2>1. x["glue"] = NoCode
    BY <1>0, <1>4 DEF HoldsUnlinked
  <2>2. ASSUME NEW q \in PartSet
        PROVE  x[q] = IF q \in (Present(j) \ Parts(w)) \cup {p} THEN UnlinkedCode(j, q) ELSE NoCode
    BY <1>0, <1>4 DEF HoldsUnlinked
  <2>3. ASSUME NEW q \in (Present(j) \ Parts(w)) \cup {p}
        PROVE  ~Fails(j, q)
    BY <1>0 DEF HoldsUnlinked
  <2> QED
    BY <2>1, <2>2, <2>3 DEF HoldsUnlinked
<1>6. CASE Tail(w) = <<>>
  <2>1. Present(j) \ Parts(Tail(w)) = Present(j)
    BY <1>6, ShortLists
  <2>2. HoldsUnlinked(j, x, Present(j))
    BY <1>2, <1>5, <2>1
  <2>3. Linked(j) = Present(j)
    BY <2>2, AllLinked DEF HoldsUnlinked
  <2> QED
    BY <1>6, <2>2, <2>3 DEF LoopAt, LinkReady, x
<1>7. CASE Tail(w) # <<>>
  <2>1. "pre" \notin Parts(Tail(w))
    BY <1>0, <1>1
  <2>2. Parts(Tail(w)) \subseteq Present(j) /\ HoldsUnlinked(j, x, Present(j) \ Parts(Tail(w)))
    BY <1>0, <1>1, <1>2, <1>5
  <2>3. LoopAt(j, Tail(w), x)
    BY <1>1, <1>7, <2>1, <2>2 DEF LoopAt
  <2> QED
    BY <2>3 DEF x
<1> QED
  BY <1>6, <1>7

(* The loop of a pipeline ends at a stage that fails. *)
LEMMA UnlinkedStopped ==
  ASSUME NEW j, NEW w \in Seq(PartSet), w # <<>>, NEW e \in Elfs, LoopAt(j, w, e), Fails(j, Head(w)),
         j.api \in {"graphics", "compute"}, j.cs # NoShader => j.pre = NoShader /\ j.fs = NoShader
  PROVE  LoopAt(j, <<>>, e)
<1> DEFINE p == Head(w)
<1>1. /\ Distinct(w) /\ Parts(w) \subseteq Present(j) /\ HoldsUnlinked(j, e, Present(j) \ Parts(w))
      /\ "pre" \in Parts(w) => Parts(w) = Present(j) /\ p = "pre"
  BY DEF LoopAt
<1>2. p \in Parts(w) /\ p \in {"pre", "fs", "cs"} /\ p \in Present(j)
  BY <1>1, TailFacts DEF PartSet
<1>3. "cs" \in Present(j) => Present(j) = {"cs"}
  BY DEF Present, PartSet
<1>4. \A q \in Present(j) \ Parts(w) : ~Fails(j, q)
  BY <1>1 DEF HoldsUnlinked
<1>5. Present(j) \subseteq {"pre", "fs", "cs"}
  BY DEF Present, PartSet
<1>6. Linked(j) = Present(j) \ Parts(w)
  <2>1. CASE p = "pre"
    BY <1>1, <1>2, <1>3, <1>5, <2>1 DEF Linked
  <2>2. CASE p = "fs"
    BY <1>1, <1>2, <1>3, <1>4, <1>5, <2>2 DEF Linked
  <2>3. CASE p = "cs"
    BY <1>1, <1>2, <1>3, <1>4, <1>5, <2>3 DEF Linked
  <2> QED
    BY <1>2, <2>1, <2>2, <2>3
<1> QED
  BY <1>1, <1>6 DEF LoopAt, LinkReady

LEMMA PartVisited ==
  ASSUME NEW j, NEW w \in Seq(PartSet), w # <<>>, Distinct(w), Parts(w) \subseteq {"pre", "fs"}, NEW e \in Elfs,
         HoldsParts(j, e, {"pre", "fs"} \ Parts(w)), j[Head(w)] \notin Bad
  PROVE  /\ Distinct(Tail(w)) /\ Parts(Tail(w)) \subseteq {"pre", "fs"}
         /\ HoldsParts(j, [e EXCEPT ![Head(w)] = PartCode(j, Head(w))], {"pre", "fs"} \ Parts(Tail(w)))
<1> DEFINE p == Head(w)
           x == [e EXCEPT ![p] = PartCode(j, p)]
<1>1. p \in Parts(w) /\ Distinct(Tail(w)) /\ Parts(Tail(w)) = Parts(w) \ {p} /\ p \in PartSet
  BY TailFacts
<1>2. {"pre", "fs"} \ Parts(Tail(w)) = ({"pre", "fs"} \ Parts(w)) \cup {p}
  BY <1>1
<1>3. DOMAIN e = PartSet \cup {"glue"} /\ p # "glue"
  BY <1>1 DEF Elfs, PartSet
<1>4. x[p] = PartCode(j, p) /\ x["glue"] = e["glue"] /\ \A q \in PartSet \ {p} : x[q] = e[q]
  BY <1>1, <1>3
<1> HIDE DEF x, p
<1>5. HoldsParts(j, x, ({"pre", "fs"} \ Parts(w)) \cup {p})
  <2>1. x["glue"] = NoCode
    BY <1>4 DEF HoldsParts
  <2>2. ASSUME NEW q \in PartSet
        PROVE  x[q] = IF q \in ({"pre", "fs"} \ Parts(w)) \cup {p} THEN PartCode(j, q) ELSE NoCode
    BY <1>4 DEF HoldsParts
  <2>3. ASSUME NEW q \in ({"pre", "fs"} \ Parts(w)) \cup {p}  PROVE j[q] \notin Bad
    BY DEF HoldsParts, p
  <2> QED
    BY <2>1, <2>2, <2>3 DEF HoldsParts
<1> QED
  BY <1>1, <1>2, <1>5 DEF x, p

-----------------------------------------------------------------------------
(* When a job is answered *)

LEMMA UnlinkedAnswers ==
  ASSUME NEW o, WellPosed(o), NEW j \in o.jobs, j.api \in Apis, Way(o, j) = "unlinked", ~Refused(j),
         NEW e \in Elfs, LinkReady(j, e)
  PROVE  /\ MayBuild(o, j)
         /\ ~Glued(o, j) => e = Answer(o, j)
         /\ Glued(o, j) => [e EXCEPT !["glue"] = GlueCode(j)] = Answer(o, j)
<1>1. WellFormed(o, j) /\ j.api # "colorExport"
  BY DEF WellPosed, Way
<1>2. MayBuild(o, j)
  <2>1. j.links
    BY <1>1 DEF WellFormed
  <2>2. j.api = "compute" => j.valid
    BY DEF Refused
  <2> QED
    BY <2>1, <2>2 DEF MayBuild, LinkReady
<1>3. Linked(j) \subseteq Present(j) /\ Present(j) \subseteq PartSet
  BY DEF Linked, Present
<1>4. ASSUME NEW x \in [PartSet \cup {"glue"} -> Codes \cup {GlueCode(j)}],
             x["glue"] = IF Glued(o, j) THEN GlueCode(j) ELSE NoCode, \A p \in PartSet : x[p] = e[p]
      PROVE  x = Answer(o, j)
  <2>1. ASSUME NEW p \in PartSet
        PROVE  x[p] = IF p \in Linked(j) THEN UnlinkedCode(j, p) ELSE NoCode
    BY <1>4 DEF HoldsUnlinked, LinkReady
  <2>2. ASSUME NEW p \in PartSet  PROVE x[p] = Answer(o, j)[p]
    BY <1>3, <2>1, NoElfDomain DEF Answer
  <2>3. x["glue"] = Answer(o, j)["glue"]
    BY <1>4 DEF Answer
  <2>4. Answer(o, j) = [p \in PartSet \cup {"glue"} |-> Answer(o, j)[p]]
    BY DEF Answer
  <2> QED
    BY <2>2, <2>3, <2>4
<1>5. ASSUME ~Glued(o, j)  PROVE e = Answer(o, j)
  BY <1>4, <1>5 DEF HoldsUnlinked, LinkReady, Elfs
<1>6. ASSUME Glued(o, j)  PROVE [e EXCEPT !["glue"] = GlueCode(j)] = Answer(o, j)
  <2> DEFINE x == [e EXCEPT !["glue"] = GlueCode(j)]
  <2>1. /\ x["glue"] = GlueCode(j) /\ \A p \in PartSet : x[p] = e[p]
        /\ x \in [PartSet \cup {"glue"} -> Codes \cup {GlueCode(j)}]
    BY NoElfDomain DEF Elfs
  <2> HIDE DEF x
  <2>2. x = Answer(o, j)
    BY <1>4, <1>6, <2>1
  <2> QED
    BY <2>2 DEF x
<1> QED
  BY <1>2, <1>5, <1>6

LEMMA PartAnswers ==
  ASSUME NEW o, WellPosed(o), NEW j \in o.jobs, j.api \in Apis, Way(o, j) = "part", ~Refused(j),
         NEW e \in Elfs, HoldsParts(j, e, {"pre", "fs"})
  PROVE  MayBuild(o, j) /\ e = Answer(o, j)
<1>1. WellFormed(o, j) /\ TwoParts(j) /\ j.api \in {"graphics", "compute"}
  BY DEF WellPosed, Way, Apis
<1>2. j.cs = NoShader /\ Present(j) = {"pre", "fs"}
  BY <1>1 DEF WellFormed, TwoParts, Present, PartSet
<1>3. MayBuild(o, j)
  <2>1. j.links
    BY <1>1 DEF WellFormed
  <2>2. NoneBad(j)
    BY <1>2 DEF HoldsParts, NoneBad
  <2>3. j.api = "compute" => j.valid
    BY DEF Refused
  <2> QED
    BY <2>1, <2>2, <2>3 DEF MayBuild
<1>4. e = Answer(o, j)
  <2>1. ASSUME NEW p \in PartSet
        PROVE  e[p] = IF p \in Present(j) THEN PartCode(j, p) ELSE NoCode
    BY <1>2 DEF HoldsParts
  <2>2. e["glue"] = NoCode /\ ~Glued(o, j)
    BY DEF HoldsParts, Glued
  <2>3. ASSUME NEW p \in PartSet \cup {"glue"}  PROVE e[p] = Answer(o, j)[p]
    BY <2>1, <2>2, NoElfDomain DEF Answer
  <2>4. Answer(o, j) = [p \in PartSet \cup {"glue"} |-> Answer(o, j)[p]]
    BY DEF Answer
  <2> QED
    BY <2>3, <2>4 DEF Elfs
<1> QED
  BY <1>3, <1>4

LEMMA WholeAnswers ==
  ASSUME NEW o, NEW j, NEW e \in [PartSet \cup {"glue"} -> Codes], e["glue"] = NoCode, Way(o, j) = "whole",
         \A p \in PartSet : e[p] = IF j[p] = NoShader THEN NoCode ELSE WholeCode(j, p)
  PROVE  e = Answer(o, j)
<1>1. ~Glued(o, j)
  BY DEF Glued
<1>2. ASSUME NEW p \in PartSet \cup {"glue"}  PROVE e[p] = Answer(o, j)[p]
  BY <1>1, NoElfDomain DEF Answer, Present
<1>3. Answer(o, j) = [p \in PartSet \cup {"glue"} |-> Answer(o, j)[p]]
  BY DEF Answer
<1> QED
  BY <1>2, <1>3

LEMMA GlueAnswers ==
  ASSUME NEW o, WellPosed(o), NEW j \in o.jobs, j.api = "colorExport"
  PROVE  MayBuild(o, j) /\ [NoElf EXCEPT !["glue"] = GlueCode(j)] = Answer(o, j)
<1>1. WellFormed(o, j) /\ Way(o, j) = "glue"
  BY DEF WellPosed, Way
<1>2. MayBuild(o, j)
  BY <1>1 DEF WellFormed, MayBuild
<1> DEFINE x == [NoElf EXCEPT !["glue"] = GlueCode(j)]
<1>3. /\ x["glue"] = GlueCode(j) /\ \A p \in PartSet : x[p] = NoCode
      /\ x = [p \in PartSet \cup {"glue"} |-> x[p]]
  BY NoElfDomain DEF NoElf
<1> HIDE DEF x
<1>4. Glued(o, j)
  BY <1>1 DEF Glued
<1>5. ASSUME NEW p \in PartSet \cup {"glue"}  PROVE x[p] = Answer(o, j)[p]
  <2>1. x[p] = IF p = "glue" THEN GlueCode(j) ELSE NoCode
    BY <1>3
  <2>2. Answer(o, j)[p] = IF p = "glue" THEN GlueCode(j) ELSE NoCode
    <3>1. CASE p = "glue"
      BY <1>4, <3>1 DEF Answer
    <3>2. CASE p # "glue"
      BY <1>1, <3>2 DEF Answer
    <3> QED
      BY <3>1, <3>2
  <2> QED
    BY <2>1, <2>2
<1>6. Answer(o, j) = [p \in PartSet \cup {"glue"} |-> Answer(o, j)[p]]
  BY AnswerFunction
<1>7. x = Answer(o, j)
  BY <1>3, <1>5, <1>6
<1> QED
  BY <1>2, <1>7 DEF x

(* A stage that fails ends the build of a relocatable stage, not of a pipeline*)
(* in which it is missing then.                                               *)
LEMMA FailedStage ==
  ASSUME NEW o, NEW j, j.api \in Apis, Way(o, j) = "unlinked", NEW p \in Present(j), Fails(j, p),
         j.api \notin {"graphics", "compute"}
  PROVE  ~Sound(j)
<1>1. j.api \in {"stage", "withElf"}
  BY DEF Way, Apis
<1> QED
  BY <1>1 DEF Sound, Fails, NoneBad

LEMMA WholeFacts ==
  ASSUME NEW o, NEW j, j.api \in Apis, Way(o, j) = "whole", ~Refused(j), j.links
  PROVE  /\ ~NoneBad(j) => ~Sound(j)
         /\ NoneBad(j) \/ UsesStageCache(o, j) => MayBuild(o, j)
<1>1. j.api \in {"graphics", "compute"} /\ (j.api = "compute" => j.valid)
  BY DEF Way, Apis, Refused
<1> QED
  BY <1>1 DEF Sound, MayBuild

-----------------------------------------------------------------------------
(* The steps of a build *)

LEMMA StepAnswers ==
  ASSUME AnswerInv, NEW t \in Threads, Step(t), ResultType', ContentInv', WorkInv(t)'
  PROVE  AnswerInv'
<1>1. IInv'
  BY InvStep DEF AnswerInv
<1>2. /\ UNCHANGED <<scenario, job>>
      /\ \A u \in Threads \ {t} : /\ pc'[u] = pc[u] /\ todo'[u] = todo[u] /\ acc'[u] = acc[u]
                                  /\ elf'[u] = elf[u] /\ result'[u] = result[u] /\ out'[u] = out[u]
  BY Others
<1> QED
  BY <1>1, <1>2, OneWorks

LEMMA ThreadFacts ==
  ASSUME AllWellPosed, AnswerInv, NEW t \in Threads
  PROVE  /\ TypeInv /\ CacheInv /\ AccType /\ ThreadInv(t) /\ ResultType /\ ContentInv
         /\ WorkInv(t) /\ WellPosed(Options) /\ job[t] \in Options.jobs /\ job[t].api \in Apis
         /\ elf[t] \in Elfs /\ todo[t] \in Seq(PartSet)
<1>1. TypeInv /\ CacheInv /\ ThreadInv(t) /\ ResultType /\ ContentInv /\ WorkInv(t)
  BY DEF AnswerInv, IInv
<1>2. AccType /\ job[t] \in Options.jobs /\ elf[t] \in Elfs /\ todo[t] \in Seq(PartSet)
  BY <1>1 DEF TypeInv
<1>3. job[t].api \in Apis
  BY <1>1, <1>2, ScenariosAssumption DEF TypeInv, Options
<1> QED
  BY <1>1, <1>2, <1>3, OptionsPosed

(* Accessors that are kept, or gone, are those of the job still. *)
LEMMA KeySame ==
  ASSUME NEW t \in Threads, KeyInv(t), UNCHANGED <<scenario, job>>,
         acc'[t]["full"] \in {acc[t]["full"], NoAcc},
         \A p \in {"pre", "fs"} : acc'[t][p] \in {acc[t][p], NoAcc},
         acc'[t]["unit"].state # "must"
  PROVE  KeyInv(t)'
<1>1. Options' = Options /\ PerStage(t)' = PerStage(t)
  BY DEF Options, PerStage
<1>2. acc'[t]["full"] # NoAcc =>
        acc'[t]["full"].key = FullKey(job[t]) /\ Options.full /\ LookedUp(job[t])
  BY DEF KeyInv
<1>3. \A p \in {"pre", "fs"} : acc'[t][p] # NoAcc =>
        acc'[t][p].key = StageKey(job[t], p) /\ PerStage(t) /\ job[t][p] # NoShader
  BY DEF KeyInv
<1> QED
  BY <1>1, <1>2, <1>3 DEF KeyInv

LEMMA BeginAnswers ==
  ASSUME AllWellPosed, AnswerInv, NEW t \in Threads, NEW j \in Options.jobs, Begin(t, j)
  PROVE  AnswerInv'
<1>1. /\ TypeInv /\ ThreadInv(t) /\ ResultType /\ ContentInv /\ WellPosed(Options)
  BY ThreadFacts
<1>2. /\ UNCHANGED <<scenario, cache, acc>> /\ pc[t] = "idle"
      /\ job' = [job EXCEPT ![t] = j]
      /\ elf' = [elf EXCEPT ![t] = NoElf]
      /\ todo' = [todo EXCEPT ![t] = <<>>]
      /\ out' = [out EXCEPT ![t] = [result |-> "none", elf |-> NoElf]]
      /\ result' = [result EXCEPT ![t] = IF j.valid /\ ~Refused(j) THEN "Success" ELSE "Error"]
      /\ pc' = [pc EXCEPT ![t] = IF Refused(j) THEN "return" ELSE
                                 IF j.api \in {"stage", "colorExport"} THEN "acquire" ELSE "lookup"]
  BY DEF Begin, Goto
<1>3. /\ job'[t] = j /\ elf'[t] = NoElf /\ out'[t].result = "none"
      /\ result'[t] = IF j.valid /\ ~Refused(j) THEN "Success" ELSE "Error"
      /\ pc'[t] = IF Refused(j) THEN "return" ELSE
                  IF j.api \in {"stage", "colorExport"} THEN "acquire" ELSE "lookup"
  BY <1>1, <1>2 DEF TypeInv, ResultType
<1>4. \A u \in Threads \ {t} : /\ pc'[u] = pc[u] /\ job'[u] = job[u] /\ todo'[u] = todo[u]
                               /\ acc'[u] = acc[u] /\ elf'[u] = elf[u]
                               /\ result'[u] = result[u] /\ out'[u] = out[u]
  BY <1>1, <1>2 DEF TypeInv, ResultType
<1>5. IInv'
  BY BeginKeeps DEF AnswerInv
<1>6. ResultType'
  BY <1>1, <1>2, NoElfFacts DEF ResultType
<1>7. ContentInv'
  BY <1>1, <1>2, ContentSame
<1>8. \A a \in Accessors : acc[t][a] = NoAcc
  BY <1>1, <1>2 DEF ThreadInv, Inside, Visiting, Accessors
<1>9. Options' = Options /\ (Options.full /\ LookedUp(j) /\ ~Refused(j) => j.valid)
  <2>1. WellFormed(Options, j)
    BY <1>1 DEF WellPosed
  <2> QED
    BY <1>2, <2>1 DEF Options, WellFormed, LookedUp, Refused
<1>10. KeyInv(t)'
  <2>1. NoAcc.state = "none" /\ \A a \in Accessors : acc'[t][a] = NoAcc
    BY <1>2, <1>8 DEF NoAcc
  <2> QED
    BY <2>1 DEF KeyInv, Accessors
<1>11. WayInv(t)'
  BY <1>3, <1>9 DEF WayInv, LookedUp, WholePlaces
<1>12. UnlinkedInv(t)' /\ PartInv(t)' /\ GlueInv(t)' /\ WholeInv(t)' /\ DoneInv(t)' /\ OutInv(t)'
  BY <1>3 DEF UnlinkedInv, PartInv, GlueInv, WholeInv, DoneInv, OutInv
<1> QED
  BY <1>2, <1>4, <1>5, <1>6, <1>7, <1>10, <1>11, <1>12, OneWorks DEF WorkInv

LEMMA LookUpFullAnswers ==
  ASSUME AllWellPosed, AnswerInv, NEW t \in Threads, LookUpFull(t)
  PROVE  AnswerInv'
<1> DEFINE j == job[t]
           k == FullKey(j)
<1>1. /\ TypeInv /\ CacheInv /\ AccType /\ ThreadInv(t) /\ ResultType /\ ContentInv /\ WorkInv(t)
      /\ WellPosed(Options) /\ j \in Options.jobs /\ k \in Keys /\ "full" \in Accessors
  BY ThreadFacts, JobFacts, KeyFacts DEF Accessors, PartSet
<1>2. /\ UNCHANGED <<scenario, job, todo, result, out>> /\ pc[t] = "lookup" /\ Step(t)
  BY DEF LookUpFull, Step
<1>3. /\ LookedUp(j) /\ ~Refused(j) /\ elf[t] = NoElf /\ (Options.full => result[t] = "Success")
      /\ acc[t]["full"] = NoAcc /\ acc[t]["fs"] = NoAcc /\ acc[t]["pre"] = NoAcc /\ acc[t]["unit"] = NoAcc
      /\ Options' = Options /\ ResultType'
  BY <1>1, <1>2 DEF WorkInv, WayInv, ThreadInv, Inside, Visiting, Options, ResultType
<1>4. CASE ~Options.full
  <2>1. UNCHANGED <<cache, acc, elf>> /\ pc' = [pc EXCEPT ![t] = "acquire"]
    BY <1>4 DEF LookUpFull, Goto
  <2>2. ContentInv'
    BY <1>1, <1>2, <2>1, ContentSame
  <2>3. pc'[t] = "acquire"
    BY <1>1, <2>1 DEF TypeInv
  <2>4. KeyInv(t)'
    BY <1>1, <1>2, <1>3, <2>1, KeySame DEF WorkInv, NoAcc
  <2>5. WorkInv(t)'
    BY <1>2, <1>3, <2>1, <2>3, <2>4
       DEF WorkInv, WayInv, UnlinkedInv, PartInv, GlueInv, WholeInv, DoneInv, OutInv, WholePlaces
  <2> QED
    BY <1>2, <1>3, <2>2, <2>5, StepAnswers
<1>5. CASE Options.full
  <2>1. LookUp(t, "full", k)
    BY <1>5 DEF LookUpFull
  <2>2. ContentInv'
    BY <1>1, <1>2, <2>1, ContentLookUp
  <2>3. /\ acc'[t]["full"] = [state |-> Found(k), key |-> k]
        /\ \A b \in Accessors \ {"full"} : acc'[t][b] = acc[t][b]
    <3>1. acc[t]["full"].state # "must"
      BY <1>3 DEF NoAcc
    <3> QED
      BY <1>1, <2>1, <3>1, LookUpKeeps
  <2>4. KeyInv(t)'
    <3>1. acc'[t]["fs"] = NoAcc /\ acc'[t]["pre"] = NoAcc /\ acc'[t]["unit"] = NoAcc
      BY <1>3, <2>3 DEF Accessors
    <3>2. acc'[t]["full"].key = FullKey(job'[t]) /\ Options'.full /\ LookedUp(job'[t])
      BY <1>2, <1>3, <1>5, <2>3
    <3> QED
      BY <3>1, <3>2 DEF KeyInv, NoAcc
  <2>5. CASE Found(k) = "hit"
    <3>1. elf' = [elf EXCEPT ![t] = cache[k]] /\ pc' = [pc EXCEPT ![t] = "output"]
      BY <1>5, <2>3, <2>5 DEF LookUpFull, Goto
    <3>2. HoldsElf(k)
      BY <1>1, <2>1, <2>5, FoundFacts DEF LookUp, HoldsElf
    <3>3. MayBuild(Options, j) /\ cache[k] = Answer(Options, j)
      BY <1>1, <1>3, <1>5, <3>2, HitFull
    <3>4. pc'[t] = "output" /\ elf'[t] = cache[k] /\ job'[t] = j /\ result'[t] = "Success"
      BY <1>1, <1>2, <1>3, <1>5, <3>1 DEF TypeInv
    <3>5. DoneInv(t)'
      BY <1>3, <3>3, <3>4 DEF DoneInv
    <3>6. WorkInv(t)'
      BY <1>2, <1>3, <2>4, <3>4, <3>5
         DEF WorkInv, WayInv, UnlinkedInv, PartInv, GlueInv, WholeInv, OutInv, WholePlaces
    <3> QED
      BY <1>2, <1>3, <2>2, <3>6, StepAnswers
  <2>6. CASE Found(k) # "hit"
    <3>1. elf' = elf /\ pc' = [pc EXCEPT ![t] = "acquire"]
      BY <1>5, <2>3, <2>6 DEF LookUpFull, Goto
    <3>2. pc'[t] = "acquire"
      BY <1>1, <3>1 DEF TypeInv
    <3>3. WorkInv(t)'
      BY <1>2, <1>3, <2>4, <3>1, <3>2
         DEF WorkInv, WayInv, UnlinkedInv, PartInv, GlueInv, WholeInv, DoneInv, OutInv, WholePlaces
    <3> QED
      BY <1>2, <1>3, <2>2, <3>3, StepAnswers
  <2> QED
    BY <2>5, <2>6
<1> QED
  BY <1>4, <1>5

LEMMA AcquireAnswers ==
  ASSUME AllWellPosed, AnswerInv, NEW t \in Threads, Acquire(t)
  PROVE  AnswerInv'
<1> DEFINE j == job[t]
           way == Way(Options, j)
<1>1. /\ TypeInv /\ ThreadInv(t) /\ ResultType /\ ContentInv /\ WorkInv(t)
      /\ WellPosed(Options) /\ j \in Options.jobs
  BY ThreadFacts
<1>2. /\ UNCHANGED <<scenario, cache, job, elf, acc, out>> /\ pc[t] = "acquire" /\ Step(t)
      /\ result' = [result EXCEPT ![t] = "Success"]
      /\ pc' = [pc EXCEPT ![t] = way]
      /\ todo' = [todo EXCEPT ![t] = CASE way = "part" -> <<"fs", "pre">>
                                       [] way = "unlinked" -> Loop(j)
                                       [] OTHER -> <<>>]
  BY DEF Acquire, Goto, Step
<1>3. way \in {"glue", "unlinked", "part", "whole"} /\ (way = "part" => TwoParts(j))
  BY DEF Way
<1>4. /\ ~Refused(j) /\ elf[t] = NoElf /\ Options' = Options /\ job'[t] = j /\ elf'[t] = NoElf
      /\ acc[t]["unit"] = NoAcc
  BY <1>1, <1>2 DEF WorkInv, WayInv, ThreadInv, Visiting, Options
<1> HIDE DEF way
<1>5. /\ pc'[t] = way /\ result'[t] = "Success"
      /\ way = "part" => todo'[t] = <<"fs", "pre">>
      /\ way = "unlinked" => todo'[t] = Loop(j)
  BY <1>1, <1>2, <1>3 DEF TypeInv, ResultType
<1>6. ResultType'
  BY <1>1, <1>2 DEF ResultType
<1>7. ContentInv'
  BY <1>1, <1>2, ContentSame
<1>8. KeyInv(t)'
  BY <1>1, <1>2, <1>4, KeySame DEF WorkInv, NoAcc
<1>9. WayInv(t)'
  BY <1>3, <1>4, <1>5 DEF WayInv, WholePlaces, way
<1>10. NoElf["glue"] = NoCode /\ \A p \in PartSet : NoElf[p] = NoCode
  BY DEF NoElf
<1>11. UnlinkedInv(t)'
  <2>1. CASE way = "unlinked"
    <3>1. WellFormed(Options, j)
      BY <1>1 DEF WellPosed
    <3>2. /\ Distinct(Loop(j)) /\ Parts(Loop(j)) = Present(j)
          /\ "pre" \in Present(j) => Head(Loop(j)) = "pre"
      BY <3>1, LoopVisits DEF WellFormed
    <3>3. Present(j) \ Parts(Loop(j)) = {}
      BY <3>2
    <3>4. HoldsUnlinked(j, NoElf, {})
      BY <1>10 DEF HoldsUnlinked
    <3>5. LoopAt(j, Loop(j), NoElf)
      <4>1. CASE Loop(j) = <<>>
        <5>1. Present(j) = {} /\ Linked(j) = {}
          BY <3>2, <4>1, ShortLists DEF Linked
        <5> QED
          BY <3>4, <4>1, <5>1 DEF LoopAt, LinkReady
      <4>2. CASE Loop(j) # <<>>
        BY <3>2, <3>3, <3>4, <4>2 DEF LoopAt
      <4> QED
        BY <4>1, <4>2
    <3> QED
      BY <1>4, <1>5, <2>1, <3>5 DEF UnlinkedInv
  <2>2. CASE way # "unlinked"
    BY <1>3, <1>5, <2>2 DEF UnlinkedInv
  <2> QED
    BY <2>1, <2>2
<1>12. PartInv(t)'
  <2>1. CASE way = "part"
    <3>1. Distinct(<<"fs", "pre">>) /\ Parts(<<"fs", "pre">>) = {"fs", "pre"}
      BY ShortLists
    <3>2. {"pre", "fs"} \ Parts(<<"fs", "pre">>) = {}
      BY <3>1
    <3>3. HoldsParts(j, NoElf, {})
      BY <1>10 DEF HoldsParts
    <3> QED
      BY <1>4, <1>5, <2>1, <3>1, <3>2, <3>3 DEF PartInv
  <2>2. CASE way # "part"
    BY <1>3, <1>5, <2>2 DEF PartInv
  <2> QED
    BY <2>1, <2>2
<1>13. GlueInv(t)' /\ WholeInv(t)' /\ DoneInv(t)' /\ OutInv(t)'
  BY <1>3, <1>5 DEF GlueInv, WholeInv, DoneInv, OutInv
<1> QED
  BY <1>2, <1>6, <1>7, <1>8, <1>9, <1>11, <1>12, <1>13, StepAnswers DEF WorkInv

(* Nothing but the place, the loop, the ELF and the result of a thread. *)
LEMMA QuietAnswers ==
  ASSUME AllWellPosed, AnswerInv, NEW t \in Threads, Step(t), UNCHANGED <<scenario, cache, job, acc>>,
         ResultType', acc[t]["unit"].state # "must",
         WayInv(t)', UnlinkedInv(t)', PartInv(t)', GlueInv(t)', WholeInv(t)', DoneInv(t)', OutInv(t)'
  PROVE  AnswerInv'
<1>1. ContentInv /\ WorkInv(t)
  BY ThreadFacts
<1>2. ContentInv'
  BY <1>1, ContentSame
<1>3. KeyInv(t)'
  BY <1>1, KeySame DEF WorkInv
<1> QED
  BY <1>2, <1>3, StepAnswers DEF WorkInv

LEMMA ReturnAnswers ==
  ASSUME AllWellPosed, AnswerInv, NEW t \in Threads, Return(t)
  PROVE  AnswerInv'
<1>1. /\ TypeInv /\ ThreadInv(t) /\ ResultType /\ WorkInv(t) /\ job[t].api \in Apis
  BY ThreadFacts
<1>2. /\ UNCHANGED <<scenario, cache, job, elf, acc, result>> /\ pc[t] = "return" /\ Step(t)
      /\ out' = [out EXCEPT ![t] = [result |-> "Error", elf |-> NoElf]]
      /\ pc' = [pc EXCEPT ![t] = "idle"]
  BY DEF Return, Goto, Step
<1>3. pc'[t] = "idle" /\ out'[t].result = "Error"
  BY <1>1, <1>2 DEF TypeInv, ResultType
<1>4. ResultType'
  BY <1>1, <1>2, NoElfFacts DEF ResultType
<1>5. Refused(job[t]) /\ acc[t]["unit"].state # "must"
  BY <1>1, <1>2 DEF WorkInv, WayInv, ThreadInv, Visiting
<1>6. ~Buildable(job[t])
  BY <1>1, <1>5 DEF Refused, Buildable, Apis
<1>7. OutInv(t)'
  BY <1>2, <1>3, <1>6 DEF OutInv
<1>8. /\ WayInv(t)' /\ UnlinkedInv(t)' /\ PartInv(t)' /\ GlueInv(t)' /\ WholeInv(t)' /\ DoneInv(t)'
  BY <1>3 DEF WayInv, UnlinkedInv, PartInv, GlueInv, WholeInv, DoneInv, WholePlaces
<1> QED
  BY <1>2, <1>4, <1>5, <1>7, <1>8, QuietAnswers

LEMMA AssertAnswers ==
  ASSUME AllWellPosed, AnswerInv, NEW t \in Threads, AssertFails(t)
  PROVE  AnswerInv'
<1>1. UNCHANGED <<scenario, cache, pc, job, todo, elf, result, acc, ctx, out, builds>> /\ Step(t)
  BY DEF AssertFails, Asserts, Step
<1>2. ContentInv /\ ResultType /\ WorkInv(t)
  BY ThreadFacts
<1>3. ContentInv'
  BY <1>1, <1>2, ContentSame
<1>4. ResultType' /\ Options' = Options
  BY <1>1, <1>2 DEF ResultType, Options
<1>5. WorkInv(t)'
  BY <1>1, <1>2, <1>4
     DEF WorkInv, KeyInv, PerStage, WayInv, UnlinkedInv, PartInv, GlueInv, WholeInv, DoneInv, OutInv,
         InStageCache
<1> QED
  BY <1>1, <1>3, <1>4, <1>5, StepAnswers

(* The given ELF of a part. *)
LEMMA GivenAnswers ==
  ASSUME AllWellPosed, AnswerInv, NEW t \in Threads, UnlinkedGiven(t)
  PROVE  AnswerInv'
<1> DEFINE j == job[t]
           p == Head(todo[t])
           e == [elf[t] EXCEPT ![p] = UnlinkedCode(j, p)]
<1>1. /\ TypeInv /\ ThreadInv(t) /\ ResultType /\ WorkInv(t) /\ WellPosed(Options) /\ j \in Options.jobs
      /\ elf[t] \in Elfs /\ todo[t] \in Seq(PartSet)
  BY ThreadFacts
<1>2. /\ UNCHANGED <<scenario, cache, job, acc, result, out, pc>> /\ pc[t] = "unlinked" /\ Step(t)
      /\ todo[t] # <<>> /\ p \in j.given
      /\ elf' = [elf EXCEPT ![t] = e] /\ todo' = [todo EXCEPT ![t] = Tail(todo[t])]
  BY DEF UnlinkedGiven, Visit, Step
<1>3. elf'[t] = e /\ todo'[t] = Tail(todo[t]) /\ Options' = Options
  BY <1>1, <1>2 DEF TypeInv, Options
<1>4. ~Fails(j, p)
  BY <1>2 DEF Fails
<1>5. LoopAt(j, todo[t], elf[t])
  BY <1>1, <1>2 DEF WorkInv, UnlinkedInv
<1>6. LoopAt(j, Tail(todo[t]), e)
  BY <1>1, <1>2, <1>4, <1>5, UnlinkedVisited
<1> HIDE DEF e
<1>7. UnlinkedInv(t)'
  BY <1>2, <1>3, <1>6 DEF UnlinkedInv
<1>8. WayInv(t)' /\ PartInv(t)' /\ GlueInv(t)' /\ WholeInv(t)' /\ DoneInv(t)' /\ OutInv(t)'
  BY <1>1, <1>2, <1>3 DEF WorkInv, WayInv, PartInv, GlueInv, WholeInv, DoneInv, OutInv, WholePlaces
<1>9. ResultType' /\ acc[t]["unit"].state # "must"
  BY <1>1, <1>2 DEF ResultType, ThreadInv, Visiting
<1> QED
  BY <1>2, <1>7, <1>8, <1>9, QuietAnswers

LEMMA FailedAnswers ==
  ASSUME AllWellPosed, AnswerInv, NEW t \in Threads, pc[t] \in {"unlinked", "unlinkedCompile"},
         todo[t] # <<>>, Fails(job[t], Head(todo[t])), StageFailed(t), UNCHANGED <<scenario, job, elf, out>>
  PROVE  /\ ResultType' /\ WayInv(t)' /\ UnlinkedInv(t)' /\ PartInv(t)' /\ GlueInv(t)'
         /\ WholeInv(t)' /\ DoneInv(t)' /\ OutInv(t)' /\ pc'[t] \in {"unlinked", "release"}
<1> DEFINE j == job[t]
           p == Head(todo[t])
<1>1. /\ TypeInv /\ ResultType /\ WorkInv(t) /\ WellPosed(Options) /\ j \in Options.jobs
      /\ j.api \in Apis /\ elf[t] \in Elfs /\ todo[t] \in Seq(PartSet)
  BY ThreadFacts
<1>2. /\ LoopAt(j, todo[t], elf[t]) /\ Way(Options, j) = "unlinked" /\ ~Refused(j)
      /\ result[t] = "Success" /\ Options' = Options
  BY <1>1 DEF WorkInv, UnlinkedInv, WayInv, Options
<1>3. p \in Present(j)
  BY <1>1, <1>2, LoopHead
<1>4. CASE j.api \in {"graphics", "compute"}
  <2>1. /\ UNCHANGED result /\ todo' = [todo EXCEPT ![t] = <<>>] /\ pc' = [pc EXCEPT ![t] = "unlinked"]
    BY <1>4 DEF StageFailed, Goto
  <2>2. pc'[t] = "unlinked" /\ todo'[t] = <<>> /\ ResultType'
    BY <1>1, <2>1 DEF TypeInv, ResultType
  <2>3. j.cs # NoShader => j.pre = NoShader /\ j.fs = NoShader
    BY <1>1 DEF WellPosed, WellFormed
  <2>4. LoopAt(j, <<>>, elf[t])
    BY <1>1, <1>2, <1>4, <2>3, UnlinkedStopped
  <2>5. UnlinkedInv(t)'
    BY <2>2, <2>4 DEF UnlinkedInv
  <2> QED
    BY <1>2, <2>1, <2>2, <2>5 DEF WayInv, PartInv, GlueInv, WholeInv, DoneInv, OutInv, WholePlaces
<1>5. CASE j.api \notin {"graphics", "compute"}
  <2>1. pc' = [pc EXCEPT ![t] = "release"] /\ result' = [result EXCEPT ![t] = "Error"]
    BY <1>5 DEF StageFailed, Goto
  <2>2. pc'[t] = "release" /\ result'[t] = "Error" /\ ResultType'
    BY <1>1, <2>1 DEF TypeInv, ResultType
  <2>3. DoneInv(t)'
    <3>1. ~Sound(j)
      BY <1>1, <1>2, <1>3, <1>5, FailedStage
    <3> QED
      BY <2>2, <3>1 DEF DoneInv
  <2> QED
    BY <1>2, <2>2, <2>3 DEF WayInv, UnlinkedInv, PartInv, GlueInv, WholeInv, OutInv, WholePlaces
<1> QED
  BY <1>4, <1>5

LEMMA RefusedAnswers ==
  ASSUME AllWellPosed, AnswerInv, NEW t \in Threads, UnlinkedRefused(t)
  PROVE  AnswerInv'
<1>1. ThreadInv(t)
  BY ThreadFacts
<1>2. /\ UNCHANGED <<scenario, cache, job, elf, acc, out>> /\ pc[t] = "unlinked" /\ Step(t)
      /\ todo[t] # <<>> /\ Head(todo[t]) \notin job[t].given /\ NeedsFull(job[t], Head(todo[t]))
      /\ StageFailed(t)
  BY DEF UnlinkedRefused, Step
<1>3. Fails(job[t], Head(todo[t])) /\ acc[t]["unit"].state # "must"
  BY <1>1, <1>2 DEF Fails, ThreadInv, Visiting
<1> QED
  BY <1>2, <1>3, FailedAnswers, QuietAnswers

LEMMA PlainAnswers ==
  ASSUME AllWellPosed, AnswerInv, NEW t \in Threads, LinkPlain(t)
  PROVE  AnswerInv'
<1> DEFINE j == job[t]
<1>1. /\ TypeInv /\ ThreadInv(t) /\ ResultType /\ WorkInv(t) /\ WellPosed(Options) /\ j \in Options.jobs
      /\ j.api \in Apis /\ elf[t] \in Elfs
  BY ThreadFacts
<1>2. /\ UNCHANGED <<scenario, cache, job, elf, acc, out, result>> /\ pc[t] = "unlinked" /\ Step(t)
      /\ todo[t] = <<>> /\ (j.api = "stage" \/ ~NeedsGlue(t))
      /\ pc' = [pc EXCEPT ![t] = "release"]
  BY DEF LinkPlain, Goto, Step
<1>3. /\ LinkReady(j, elf[t]) /\ Way(Options, j) = "unlinked" /\ ~Refused(j)
      /\ result[t] = "Success" /\ Options' = Options
  BY <1>1, <1>2 DEF WorkInv, UnlinkedInv, WayInv, LoopAt, Options
<1>4. ~Glued(Options, j)
  <2>1. CASE j.api = "stage"
    BY <1>3, <2>1 DEF Glued
  <2>2. CASE ~NeedsGlue(t)
    <3>1. j.api = "compute" \/ (j.fs # NoShader /\ elf[t]["fs"] = NoCode)
      BY <2>2 DEF NeedsGlue
    <3>2. "fs" \in Linked(j) => elf[t]["fs"] = UnlinkedCode(j, "fs")
      BY <1>3 DEF LinkReady, HoldsUnlinked, PartSet
    <3>3. UnlinkedCode(j, "fs") # NoCode
      BY DEF UnlinkedCode, NoCode
    <3> QED
      BY <1>3, <3>1, <3>2, <3>3 DEF Glued
  <2> QED
    BY <1>2, <2>1, <2>2
<1>5. MayBuild(Options, j) /\ elf[t] = Answer(Options, j)
  BY <1>1, <1>3, <1>4, UnlinkedAnswers
<1>6. pc'[t] = "release" /\ ResultType'
  BY <1>1, <1>2 DEF TypeInv, ResultType
<1>7. DoneInv(t)' /\ acc[t]["unit"].state # "must"
  BY <1>1, <1>2, <1>3, <1>5, <1>6 DEF DoneInv, ThreadInv, Visiting
<1>8. WayInv(t)' /\ UnlinkedInv(t)' /\ PartInv(t)' /\ GlueInv(t)' /\ WholeInv(t)' /\ OutInv(t)'
  BY <1>2, <1>3, <1>6 DEF WayInv, UnlinkedInv, PartInv, GlueInv, WholeInv, OutInv, WholePlaces
<1> QED
  BY <1>2, <1>6, <1>7, <1>8, QuietAnswers

LEMMA PartLinkAnswers ==
  ASSUME AllWellPosed, AnswerInv, NEW t \in Threads, PartLink(t)
  PROVE  AnswerInv'
<1> DEFINE j == job[t]
<1>1. /\ TypeInv /\ ThreadInv(t) /\ ResultType /\ WorkInv(t) /\ WellPosed(Options) /\ j \in Options.jobs
      /\ j.api \in Apis /\ elf[t] \in Elfs
  BY ThreadFacts
<1>2. /\ UNCHANGED <<scenario, cache, job, elf, acc, out, result>> /\ pc[t] = "part" /\ Step(t)
      /\ todo[t] = <<>> /\ pc' = [pc EXCEPT ![t] = "release"]
  BY DEF PartLink, Goto, Step
<1>3. /\ HoldsParts(j, elf[t], {"pre", "fs"}) /\ Way(Options, j) = "part" /\ ~Refused(j)
      /\ result[t] = "Success" /\ Options' = Options
  <2>1. {"pre", "fs"} \ Parts(<<>>) = {"pre", "fs"}
    BY ShortLists
  <2> QED
    BY <1>1, <1>2, <2>1 DEF WorkInv, PartInv, WayInv, Options
<1>4. MayBuild(Options, j) /\ elf[t] = Answer(Options, j)
  BY <1>1, <1>3, PartAnswers
<1>5. pc'[t] = "release" /\ ResultType'
  BY <1>1, <1>2 DEF TypeInv, ResultType
<1>6. DoneInv(t)' /\ acc[t]["unit"].state # "must"
  BY <1>1, <1>2, <1>3, <1>4, <1>5 DEF DoneInv, ThreadInv, Visiting
<1>7. WayInv(t)' /\ UnlinkedInv(t)' /\ PartInv(t)' /\ GlueInv(t)' /\ WholeInv(t)' /\ OutInv(t)'
  BY <1>2, <1>3, <1>5 DEF WayInv, UnlinkedInv, PartInv, GlueInv, WholeInv, OutInv, WholePlaces
<1> QED
  BY <1>2, <1>5, <1>6, <1>7, QuietAnswers

LEMMA IrLinkAnswers ==
  ASSUME AllWellPosed, AnswerInv, NEW t \in Threads, IrLinkFails(t)
  PROVE  AnswerInv'
<1> DEFINE j == job[t]
<1>1. TypeInv /\ ThreadInv(t) /\ ResultType /\ WorkInv(t)
  BY ThreadFacts
<1>2. /\ UNCHANGED <<scenario, cache, job, elf, acc, out>> /\ pc[t] = "whole" /\ Step(t) /\ ~j.links
      /\ result' = [result EXCEPT ![t] = "Error"] /\ pc' = [pc EXCEPT ![t] = "release"]
  BY DEF IrLinkFails, Goto, Step
<1>3. pc'[t] = "release" /\ result'[t] = "Error" /\ ResultType' /\ ~Refused(j) /\ ~Sound(j)
  BY <1>1, <1>2 DEF TypeInv, ResultType, WorkInv, WayInv, Sound
<1>4. DoneInv(t)' /\ acc[t]["unit"].state # "must"
  BY <1>1, <1>2, <1>3 DEF DoneInv, ThreadInv, Visiting
<1>5. WayInv(t)' /\ UnlinkedInv(t)' /\ PartInv(t)' /\ GlueInv(t)' /\ WholeInv(t)' /\ OutInv(t)'
  BY <1>2, <1>3 DEF WayInv, UnlinkedInv, PartInv, GlueInv, WholeInv, OutInv, WholePlaces
<1> QED
  BY <1>2, <1>3, <1>4, <1>5, QuietAnswers

LEMMA GenerateAnswers ==
  ASSUME AllWellPosed, AnswerInv, NEW t \in Threads, Generate(t)
  PROVE  AnswerInv'
<1> DEFINE j == job[t]
           left == {p \in Present(j) : ~InStageCache(t, p)}
           e == [p \in DOMAIN elf[t] |-> IF p \in left THEN WholeCode(j, p) ELSE NoCode]
           r == IF \A p \in left : j[p] \notin Bad THEN "Success" ELSE "Error"
<1>1. /\ TypeInv /\ ThreadInv(t) /\ ResultType /\ WorkInv(t) /\ WellPosed(Options) /\ j \in Options.jobs
      /\ j.api \in Apis /\ elf[t] \in Elfs
  BY ThreadFacts
<1>2. /\ UNCHANGED <<scenario, cache, job, acc, out>> /\ pc[t] = "generate" /\ Step(t)
      /\ elf' = [elf EXCEPT ![t] = e] /\ result' = [result EXCEPT ![t] = r]
      /\ pc' = [pc EXCEPT ![t] = "setPre"]
  BY DEF Generate, Goto, Step
<1>3. pc'[t] = "setPre" /\ elf'[t] = e /\ result'[t] = r /\ ResultType' /\ Options' = Options
  BY <1>1, <1>2 DEF TypeInv, ResultType, Options
<1>4. /\ Way(Options, j) = "whole" /\ ~Refused(j) /\ j.links
  BY <1>1, <1>2 DEF WorkInv, WayInv, WholePlaces
<1>5. IF r = "Success" THEN NoneBad(j) \/ UsesStageCache(Options, j) ELSE ~NoneBad(j)
  <2>1. CASE UsesStageCache(Options, j)
    BY <2>1 DEF NoneBad
  <2>2. CASE ~UsesStageCache(Options, j)
    <3>1. acc[t]["fs"] = NoAcc /\ acc[t]["pre"] = NoAcc
      BY <1>1, <2>2 DEF WorkInv, KeyInv, PerStage
    <3>2. left = Present(j)
      BY <3>1 DEF InStageCache, NoAcc
    <3> HIDE DEF left
    <3> QED
      BY <3>2 DEF NoneBad
  <2> QED
    BY <2>1, <2>2
<1>6. WholeInv(t)'
  <2>1. DOMAIN elf[t] = PartSet \cup {"glue"} /\ "glue" \notin Present(j) /\ Present(j) \subseteq PartSet
    BY <1>1 DEF Elfs, Present, PartSet
  <2>2. e["glue"] = NoCode /\ \A p \in PartSet : e[p] = IF p \in left THEN WholeCode(j, p) ELSE NoCode
    BY <2>1
  <2>3. \A p : InStageCache(t, p)' <=> InStageCache(t, p)
    BY <1>2 DEF InStageCache
  <2>4. \A p \in PartSet : p \in left <=> p \in Present(j) /\ ~InStageCache(t, p)
    OBVIOUS
  <2> HIDE DEF e, left, r
  <2> QED
    BY <1>2, <1>3, <1>5, <2>2, <2>3, <2>4 DEF WholeInv
<1> HIDE DEF e, r
<1>7. WayInv(t)' /\ UnlinkedInv(t)' /\ PartInv(t)' /\ GlueInv(t)' /\ DoneInv(t)' /\ OutInv(t)'
  BY <1>2, <1>3, <1>4 DEF WayInv, UnlinkedInv, PartInv, GlueInv, DoneInv, OutInv, WholePlaces
<1>8. acc[t]["unit"].state # "must"
  BY <1>1, <1>2 DEF ThreadInv, Visiting
<1> QED
  BY <1>2, <1>3, <1>6, <1>7, <1>8, QuietAnswers

(* Of the accessors of a build in units, one is of a unit. *)
LEMMA KeyUnit ==
  ASSUME NEW t \in Threads, KeyInv(t), UNCHANGED <<scenario, job>>,
         acc'[t]["full"] = acc[t]["full"], acc'[t]["fs"] = NoAcc, acc'[t]["pre"] = NoAcc,
         NEW l \in {"unlinkedCompile", "partCompile", "glueCompile"}, NEW k,
         acc'[t]["unit"].state = "must" => pc'[t] = l /\ acc'[t]["unit"].key = k,
         l = "unlinkedCompile" => k = UnlinkedKey(job[t], Head(todo'[t])),
         l = "partCompile" => k = PartKey(job[t], Head(todo'[t])),
         l = "glueCompile" => k = GlueKey(job[t])
  PROVE  KeyInv(t)'
<1>1. Options' = Options
  BY DEF Options
<1>2. acc'[t]["full"] # NoAcc =>
        acc'[t]["full"].key = FullKey(job[t]) /\ Options.full /\ LookedUp(job[t])
  BY DEF KeyInv
<1> QED
  BY <1>1, <1>2 DEF KeyInv

LEMMA UnlinkedLookUpAnswers ==
  ASSUME AllWellPosed, AnswerInv, NEW t \in Threads, UnlinkedLookUp(t)
  PROVE  AnswerInv'
<1> DEFINE j == job[t]
           p == Head(todo[t])
           k == UnlinkedKey(j, p)
<1>1. /\ TypeInv /\ CacheInv /\ AccType /\ ThreadInv(t) /\ ResultType /\ ContentInv /\ WorkInv(t)
      /\ WellPosed(Options) /\ j \in Options.jobs /\ elf[t] \in Elfs /\ todo[t] \in Seq(PartSet) /\ IInv
  BY ThreadFacts DEF AnswerInv
<1>2. /\ UNCHANGED <<scenario, job, result, out>> /\ pc[t] = "unlinked" /\ Step(t) /\ todo[t] # <<>>
      /\ p \notin j.given /\ ~NeedsFull(j, p)
  BY DEF UnlinkedLookUp, Step
<1>3. /\ LoopAt(j, todo[t], elf[t])
      /\ Way(Options, j) = "unlinked" /\ ~Refused(j) /\ result[t] = "Success" /\ KeyInv(t)
  BY <1>1, <1>2 DEF WorkInv, UnlinkedInv, WayInv
<1>4. p \in Present(j) /\ p \in PartSet /\ j[p] # NoShader
  BY <1>1, <1>2, <1>3, LoopHead DEF Present
<1>5. k \in Keys /\ ResultType' /\ Options' = Options
  BY <1>1, <1>2, <1>4, JobFacts, KeyFacts DEF ResultType, Options
<1> HIDE DEF k
<1>6. CASE p # "cs" /\ Found(k) = "hit"
  <2>1. LookUp(t, "unit", k) /\ Visit(t, p, cache[k][p]) /\ UNCHANGED pc
    BY <1>6, Zenon DEF UnlinkedLookUp, k
  <2>2. /\ acc'[t]["unit"] = [state |-> Found(k), key |-> k]
        /\ acc'[t]["full"] = acc[t]["full"] /\ acc'[t]["fs"] = NoAcc /\ acc'[t]["pre"] = NoAcc
        /\ cache[k] \in Elfs
    BY <1>1, <1>2, <1>5, <1>6, <2>1, UnitLookUp
  <2>3. HoldsElf(k)
    BY <1>1, <1>6, <2>1, FoundFacts DEF LookUp, HoldsElf
  <2>4. cache[k][p] = UnlinkedCode(j, p) /\ j[p] \notin Bad
    BY <1>1, <1>4, <2>3, HitUnlinked DEF k
  <2> DEFINE e == [elf[t] EXCEPT ![p] = UnlinkedCode(j, p)]
  <2>5. elf'[t] = e /\ todo'[t] = Tail(todo[t]) /\ pc'[t] = "unlinked"
    BY <1>1, <1>2, <2>1, <2>4 DEF Visit, TypeInv
  <2>6. LoopAt(j, Tail(todo[t]), e)
    <3>1. ~Fails(j, p)
      BY <1>2, <2>4 DEF Fails
    <3> QED
      BY <1>1, <1>2, <1>3, <3>1, UnlinkedVisited
  <2> HIDE DEF e
  <2>7. UnlinkedInv(t)'
    BY <1>2, <2>5, <2>6 DEF UnlinkedInv
  <2>8. KeyInv(t)'
    BY <1>2, <1>3, <1>6, <2>2, KeySame
  <2>9. WayInv(t)' /\ PartInv(t)' /\ GlueInv(t)' /\ WholeInv(t)' /\ DoneInv(t)' /\ OutInv(t)'
    BY <1>2, <1>3, <1>5, <2>5 DEF WayInv, PartInv, GlueInv, WholeInv, DoneInv, OutInv, WholePlaces
  <2>10. ContentInv'
    BY <1>1, <1>2, <2>1, ContentLookUp
  <2> QED
    BY <1>2, <1>5, <2>7, <2>8, <2>9, <2>10, StepAnswers DEF WorkInv
<1>7. CASE ~(p # "cs" /\ Found(k) = "hit")
  <2>1. /\ UNCHANGED <<elf, todo>> /\ pc' = [pc EXCEPT ![t] = "unlinkedCompile"]
        /\ (p = "cs" /\ UNCHANGED <<cache, acc>>) \/ LookUp(t, "unit", k)
    BY <1>7, Zenon DEF UnlinkedLookUp, k, Goto
  <2>2. pc'[t] = "unlinkedCompile"
    BY <1>1, <2>1 DEF TypeInv
  <2>3. ContentInv'
    BY <1>1, <1>2, <2>1, ContentLookUp, ContentSame
  <2>4. KeyInv(t)'
    <3>1. CASE UNCHANGED <<cache, acc>>
      <4>1. acc[t]["unit"].state # "must"
        BY <1>1, <1>2 DEF ThreadInv, Visiting
      <4> QED
        BY <1>2, <1>3, <3>1, <4>1, KeySame
    <3>2. CASE LookUp(t, "unit", k)
      <4>1. /\ acc'[t]["unit"] = [state |-> Found(k), key |-> k]
            /\ acc'[t]["full"] = acc[t]["full"] /\ acc'[t]["fs"] = NoAcc /\ acc'[t]["pre"] = NoAcc
        BY <1>1, <1>2, <1>5, <3>2, UnitLookUp
      <4>2. k = UnlinkedKey(job[t], Head(todo'[t])) /\ acc'[t]["unit"].key = k
        BY <2>1, <4>1 DEF k
      <4> QED
        BY <1>2, <1>3, <2>2, <4>1, <4>2, KeyUnit
    <3> QED
      BY <2>1, <3>1, <3>2
  <2>5. UnlinkedInv(t)'
    BY <1>2, <1>3, <2>1, <2>2 DEF UnlinkedInv
  <2>6. WayInv(t)' /\ PartInv(t)' /\ GlueInv(t)' /\ WholeInv(t)' /\ DoneInv(t)' /\ OutInv(t)'
    BY <1>2, <1>3, <1>5, <2>2 DEF WayInv, PartInv, GlueInv, WholeInv, DoneInv, OutInv, WholePlaces
  <2> QED
    BY <1>2, <1>5, <2>3, <2>4, <2>5, <2>6, StepAnswers DEF WorkInv
<1> QED
  BY <1>6, <1>7

LEMMA UnlinkedCompileAnswers ==
  ASSUME AllWellPosed, AnswerInv, NEW t \in Threads, UnlinkedCompile(t)
  PROVE  AnswerInv'
<1> DEFINE j == job[t]
           p == Head(todo[t])
           x == [NoElf EXCEPT ![p] = UnlinkedCode(j, p)]
           e == [elf[t] EXCEPT ![p] = UnlinkedCode(j, p)]
<1>1. /\ TypeInv /\ CacheInv /\ AccType /\ ThreadInv(t) /\ ResultType /\ ContentInv /\ WorkInv(t)
      /\ WellPosed(Options) /\ j \in Options.jobs /\ elf[t] \in Elfs /\ todo[t] \in Seq(PartSet) /\ IInv
      /\ j.api \in Apis
  BY ThreadFacts DEF AnswerInv
<1>2. /\ UNCHANGED <<scenario, job, out>> /\ pc[t] = "unlinkedCompile" /\ Step(t)
  BY DEF UnlinkedCompile, Step
<1>3. /\ LoopAt(j, todo[t], elf[t]) /\ todo[t] # <<>>
      /\ p \notin j.given /\ ~NeedsFull(j, p)
      /\ Way(Options, j) = "unlinked" /\ ~Refused(j) /\ result[t] = "Success" /\ KeyInv(t)
  BY <1>1, <1>2 DEF WorkInv, UnlinkedInv, WayInv, ThreadInv, Visiting
<1>4. p \in Present(j) /\ p \in PartSet /\ j[p] # NoShader /\ Options' = Options
  BY <1>1, <1>2, <1>3, LoopHead DEF Present, Options
<1>5. CASE Compiles(j, p)
  <2>1. /\ Visit(t, p, x[p]) /\ UNCHANGED result
        /\ (p = "cs" /\ UNCHANGED <<cache, acc>>) \/ (p # "cs" /\ SetElf(t, "unit", x))
        /\ pc' = [pc EXCEPT ![t] = "unlinked"]
    BY <1>5, Zenon DEF UnlinkedCompile, Goto
  <2>2. x[p] = UnlinkedCode(j, p) /\ x \in Elfs
    <3>1. UnlinkedCode(j, p) \in Codes /\ NoCode \in Codes
      BY <1>1, <1>4, JobFacts, CodeFacts
    <3> QED
      BY <1>4, <3>1 DEF NoElf, Elfs
  <2>3. elf'[t] = e /\ todo'[t] = Tail(todo[t]) /\ pc'[t] = "unlinked" /\ ResultType'
    BY <1>1, <1>2, <2>1, <2>2 DEF Visit, TypeInv, ResultType
  <2>4. LoopAt(j, Tail(todo[t]), e)
    <3>1. ~Fails(j, p)
      BY <1>3, <1>5 DEF Fails, Compiles
    <3> QED
      BY <1>1, <1>3, <3>1, UnlinkedVisited
  <2> HIDE DEF e
  <2>5. UnlinkedInv(t)'
    BY <1>2, <2>3, <2>4 DEF UnlinkedInv
  <2>6. WayInv(t)' /\ PartInv(t)' /\ GlueInv(t)' /\ WholeInv(t)' /\ DoneInv(t)' /\ OutInv(t)'
    BY <1>2, <1>3, <1>4, <2>1, <2>3 DEF WayInv, PartInv, GlueInv, WholeInv, DoneInv, OutInv, WholePlaces
  <2>7. ContentInv' /\ KeyInv(t)'
    <3>1. CASE p = "cs" /\ UNCHANGED <<cache, acc>>
      <4>1. acc[t]["unit"].state # "must"
        BY <1>1, <1>2, <3>1 DEF ThreadInv
      <4> QED
        BY <1>1, <1>2, <1>3, <3>1, <4>1, KeySame, ContentSame
    <3>2. CASE p # "cs" /\ SetElf(t, "unit", x)
      <4>1. /\ acc'[t]["unit"].state = "hit"
            /\ acc'[t]["full"] = acc[t]["full"] /\ acc'[t]["fs"] = NoAcc /\ acc'[t]["pre"] = NoAcc
        BY <1>1, <1>2, <2>2, <3>2, UnitSetElf
      <4>2. KeyInv(t)'
        BY <1>2, <1>3, <4>1, KeySame
      <4>3. acc[t]["unit"].key = UnlinkedKey(j, p) /\ cache' = Store(UnlinkedKey(j, p), x)
        BY <1>2, <1>3, <3>2 DEF SetElf, KeyInv
      <4>4. StoredUnlinked(j, UnlinkedKey(j, p), x)
        BY <1>4, <1>5 DEF StoredUnlinked, Compiles
      <4>5. Stored(j, UnlinkedKey(j, p), x)
        BY <4>4 DEF Stored
      <4> HIDE DEF x
      <4> QED
        BY <1>1, <1>2, <4>2, <4>3, <4>5, ContentStore
    <3> QED
      BY <2>1, <3>1, <3>2
  <2> QED
    BY <1>2, <2>3, <2>5, <2>6, <2>7, StepAnswers DEF WorkInv
<1>6. CASE ~Compiles(j, p)
  <2>1. /\ cache' = Dropped(t, {"unit"}) /\ acc' = Without(t, {"unit"}) /\ StageFailed(t) /\ UNCHANGED elf
    BY <1>6, Zenon DEF UnlinkedCompile
  <2>2. Fails(j, p)
    BY <1>3, <1>6 DEF Fails, Compiles
  <2>3. /\ ResultType' /\ WayInv(t)' /\ UnlinkedInv(t)' /\ PartInv(t)' /\ GlueInv(t)'
        /\ WholeInv(t)' /\ DoneInv(t)' /\ OutInv(t)'
    BY <1>2, <1>3, <2>1, <2>2, FailedAnswers
  <2>4. ContentInv'
    BY <1>1, <1>2, <2>1, ContentDrop
  <2>5. KeyInv(t)'
    <3>1. acc'[t]["unit"] = NoAcc /\ acc'[t]["full"] = acc[t]["full"] /\ acc'[t]["fs"] = NoAcc /\ acc'[t]["pre"] = NoAcc
      BY <1>1, <1>2, <2>1, UnitDrop
    <3>2. NoAcc.state # "must"
      BY DEF NoAcc
    <3> QED
      BY <1>2, <1>3, <3>1, <3>2, KeySame
  <2> QED
    BY <1>2, <2>3, <2>4, <2>5, StepAnswers DEF WorkInv
<1> QED
  BY <1>5, <1>6

(* The glue completes what was linked. *)
LEMMA GlueDone ==
  ASSUME NEW o, WellPosed(o), NEW j \in o.jobs, j.api \in Apis, ~Refused(j), NEW e \in Elfs,
         \/ j.api = "colorExport" /\ e = NoElf
         \/ Way(o, j) = "unlinked" /\ Glued(o, j) /\ LinkReady(j, e)
  PROVE  MayBuild(o, j) /\ [e EXCEPT !["glue"] = GlueCode(j)] = Answer(o, j)
<1>1. CASE j.api = "colorExport" /\ e = NoElf
  BY <1>1, GlueAnswers
<1>2. CASE Way(o, j) = "unlinked" /\ Glued(o, j) /\ LinkReady(j, e)
  BY <1>2, UnlinkedAnswers
<1> QED
  BY <1>1, <1>2

LEMMA GlueLookUpAnswers ==
  ASSUME AllWellPosed, AnswerInv, NEW t \in Threads, GlueLookUp(t)
  PROVE  AnswerInv'
<1> DEFINE j == job[t]
           k == GlueKey(j)
<1>1. /\ TypeInv /\ CacheInv /\ AccType /\ ThreadInv(t) /\ ResultType /\ ContentInv /\ WorkInv(t)
      /\ WellPosed(Options) /\ j \in Options.jobs /\ elf[t] \in Elfs /\ todo[t] \in Seq(PartSet) /\ IInv
      /\ j.api \in Apis
  BY ThreadFacts DEF AnswerInv
<1>2. /\ UNCHANGED <<scenario, job, todo, result, out>> /\ Linkable(t) /\ NeedsGlue(t) /\ Step(t)
      /\ LookUp(t, "unit", k)
  BY DEF GlueLookUp, Step
<1>3. /\ pc[t] \in {"glue", "unlinked"} /\ (pc[t] = "unlinked" => todo[t] = <<>> /\ j.api # "stage")
  BY <1>2 DEF Linkable
<1>4. k \in Keys /\ ResultType' /\ Options' = Options /\ ~Refused(j) /\ result[t] = "Success" /\ KeyInv(t)
  <2>1. "pre" \in PartSet
    BY DEF PartSet
  <2> QED
    BY <1>1, <1>2, <1>3, <2>1, JobFacts, KeyFacts DEF ResultType, Options, WorkInv, WayInv
<1>5. \/ j.api = "colorExport" /\ elf[t] = NoElf
      \/ Way(Options, j) = "unlinked" /\ Glued(Options, j) /\ LinkReady(j, elf[t])
  <2>1. CASE pc[t] = "glue"
    BY <1>1, <2>1 DEF WorkInv, WayInv, Way
  <2>2. CASE pc[t] = "unlinked"
    <3>1. Way(Options, j) = "unlinked" /\ LinkReady(j, elf[t])
      BY <1>1, <1>3, <2>2 DEF WorkInv, WayInv, UnlinkedInv, LoopAt
    <3>2. j.api \in {"graphics", "withElf"} /\ (j.fs = NoShader \/ elf[t]["fs"] # NoCode)
      BY <1>1, <1>2, <1>3, <2>2, <3>1 DEF NeedsGlue, Way, Apis
    <3>3. "fs" \notin Linked(j) => elf[t]["fs"] = NoCode
      BY <3>1 DEF LinkReady, HoldsUnlinked, PartSet
    <3> QED
      BY <3>1, <3>2, <3>3 DEF Glued
  <2> QED
    BY <1>3, <2>1, <2>2
<1>6. /\ acc'[t]["unit"] = [state |-> Found(k), key |-> k]
      /\ acc'[t]["full"] = acc[t]["full"] /\ acc'[t]["fs"] = NoAcc /\ acc'[t]["pre"] = NoAcc
  BY <1>1, <1>2, <1>3, <1>4, UnitLookUp
<1>7. ContentInv'
  BY <1>1, <1>2, ContentLookUp
<1>8. CASE Found(k) = "hit"
  <2> DEFINE e == [elf[t] EXCEPT !["glue"] = GlueCode(j)]
  <2>1. HoldsElf(k)
    BY <1>1, <1>2, <1>8, FoundFacts DEF LookUp, HoldsElf
  <2>2. cache[k]["glue"] = GlueCode(j)
    BY <1>1, <2>1, HitGlue
  <2>3. elf' = [elf EXCEPT ![t]["glue"] = cache[k]["glue"]] /\ pc' = [pc EXCEPT ![t] = "release"]
    BY <1>8, Zenon DEF GlueLookUp, Goto
  <2>4. elf'[t] = e /\ pc'[t] = "release"
    BY <1>1, <2>2, <2>3 DEF TypeInv
  <2>5. MayBuild(Options, j) /\ e = Answer(Options, j)
    BY <1>1, <1>4, <1>5, GlueDone
  <2> HIDE DEF e
  <2>6. DoneInv(t)'
    BY <1>2, <1>4, <2>4, <2>5 DEF DoneInv
  <2>7. WayInv(t)' /\ UnlinkedInv(t)' /\ PartInv(t)' /\ GlueInv(t)' /\ WholeInv(t)' /\ OutInv(t)'
    BY <1>2, <1>4, <2>4 DEF WayInv, UnlinkedInv, PartInv, GlueInv, WholeInv, OutInv, WholePlaces
  <2>8. KeyInv(t)'
    BY <1>2, <1>4, <1>6, <1>8, KeySame
  <2> QED
    BY <1>2, <1>4, <1>7, <2>6, <2>7, <2>8, StepAnswers DEF WorkInv
<1>9. CASE Found(k) # "hit"
  <2>1. UNCHANGED elf /\ pc' = [pc EXCEPT ![t] = "glueCompile"]
    BY <1>9, Zenon DEF GlueLookUp, Goto
  <2>2. pc'[t] = "glueCompile"
    BY <1>1, <2>1 DEF TypeInv
  <2>3. GlueInv(t)'
    BY <1>2, <1>4, <1>5, <2>1 DEF GlueInv
  <2>4. WayInv(t)' /\ UnlinkedInv(t)' /\ PartInv(t)' /\ WholeInv(t)' /\ DoneInv(t)' /\ OutInv(t)'
    BY <1>2, <1>4, <2>2 DEF WayInv, UnlinkedInv, PartInv, WholeInv, DoneInv, OutInv, WholePlaces
  <2>5. KeyInv(t)'
    <3>1. acc'[t]["unit"].key = k /\ k = GlueKey(job[t])
      BY <1>6
    <3> HIDE DEF k
    <3> QED
      BY <1>2, <1>4, <1>6, <2>2, <3>1, KeyUnit
  <2> QED
    BY <1>2, <1>4, <1>7, <2>3, <2>4, <2>5, StepAnswers DEF WorkInv
<1> QED
  BY <1>8, <1>9

LEMMA GlueCompileAnswers ==
  ASSUME AllWellPosed, AnswerInv, NEW t \in Threads, GlueCompile(t)
  PROVE  AnswerInv'
<1> DEFINE j == job[t]
           x == [NoElf EXCEPT !["glue"] = GlueCode(j)]
           e == [elf[t] EXCEPT !["glue"] = GlueCode(j)]
<1>1. /\ TypeInv /\ CacheInv /\ AccType /\ ThreadInv(t) /\ ResultType /\ ContentInv /\ WorkInv(t)
      /\ WellPosed(Options) /\ j \in Options.jobs /\ elf[t] \in Elfs /\ IInv /\ j.api \in Apis
  BY ThreadFacts DEF AnswerInv
<1>2. /\ UNCHANGED <<scenario, job, todo, result, out>> /\ pc[t] = "glueCompile" /\ Step(t)
      /\ SetElf(t, "unit", x) /\ elf' = [elf EXCEPT ![t]["glue"] = GlueCode(j)]
      /\ pc' = [pc EXCEPT ![t] = "release"]
  BY DEF GlueCompile, Step, Goto
<1>3. /\ ~Refused(j) /\ result[t] = "Success" /\ KeyInv(t) /\ Options' = Options /\ ResultType'
      /\ \/ j.api = "colorExport" /\ elf[t] = NoElf
         \/ Way(Options, j) = "unlinked" /\ Glued(Options, j) /\ LinkReady(j, elf[t])
  BY <1>1, <1>2 DEF WorkInv, WayInv, GlueInv, Options, ResultType
<1>4. elf'[t] = e /\ pc'[t] = "release"
  BY <1>1, <1>2 DEF TypeInv
<1>5. x \in Elfs
  <2>1. "pre" \in PartSet
    BY DEF PartSet
  <2>2. GlueCode(j) \in Codes /\ NoCode \in Codes
    BY <1>1, <2>1, JobFacts, CodeFacts
  <2> QED
    BY <2>2 DEF NoElf, Elfs
<1>6. MayBuild(Options, j) /\ e = Answer(Options, j)
  BY <1>1, <1>3, GlueDone
<1> HIDE DEF e
<1>7. DoneInv(t)'
  BY <1>2, <1>3, <1>4, <1>6 DEF DoneInv
<1>8. WayInv(t)' /\ UnlinkedInv(t)' /\ PartInv(t)' /\ GlueInv(t)' /\ WholeInv(t)' /\ OutInv(t)'
  BY <1>2, <1>3, <1>4 DEF WayInv, UnlinkedInv, PartInv, GlueInv, WholeInv, OutInv, WholePlaces
<1>9. /\ acc'[t]["unit"].state = "hit"
      /\ acc'[t]["full"] = acc[t]["full"] /\ acc'[t]["fs"] = NoAcc /\ acc'[t]["pre"] = NoAcc
  BY <1>1, <1>2, <1>5, UnitSetElf
<1>10. KeyInv(t)'
  BY <1>2, <1>3, <1>9, KeySame
<1>11. ContentInv'
  <2>1. acc[t]["unit"].key = GlueKey(j) /\ cache' = Store(GlueKey(j), x)
    BY <1>2, <1>3 DEF SetElf, KeyInv
  <2>2. Stored(j, GlueKey(j), x)
    BY DEF Stored, StoredGlue
  <2> HIDE DEF x
  <2> QED
    BY <1>1, <1>2, <2>1, <2>2, ContentStore
<1> QED
  BY <1>2, <1>3, <1>7, <1>8, <1>10, <1>11, StepAnswers DEF WorkInv

LEMMA PartLookUpAnswers ==
  ASSUME AllWellPosed, AnswerInv, NEW t \in Threads, PartLookUp(t)
  PROVE  AnswerInv'
<1> DEFINE j == job[t]
           p == Head(todo[t])
           k == PartKey(j, p)
<1>1. /\ TypeInv /\ CacheInv /\ AccType /\ ThreadInv(t) /\ ResultType /\ ContentInv /\ WorkInv(t)
      /\ WellPosed(Options) /\ j \in Options.jobs /\ elf[t] \in Elfs /\ todo[t] \in Seq(PartSet) /\ IInv
  BY ThreadFacts DEF AnswerInv
<1>2. /\ UNCHANGED <<scenario, job, result, out>> /\ pc[t] = "part" /\ Step(t) /\ todo[t] # <<>>
      /\ LookUp(t, "unit", k)
  BY DEF PartLookUp, Step
<1>3. /\ Distinct(todo[t]) /\ Parts(todo[t]) \subseteq {"pre", "fs"}
      /\ HoldsParts(j, elf[t], {"pre", "fs"} \ Parts(todo[t])) /\ TwoParts(j)
      /\ Way(Options, j) = "part" /\ ~Refused(j) /\ result[t] = "Success" /\ KeyInv(t)
  BY <1>1, <1>2 DEF WorkInv, PartInv, WayInv, ThreadInv
<1>4. p \in {"pre", "fs"} /\ p \in PartSet
  BY <1>1, <1>2, <1>3, TailFacts DEF PartSet
<1>5. k \in Keys /\ ResultType' /\ Options' = Options
  BY <1>1, <1>2, <1>3, <1>4, JobFacts, KeyFacts DEF ResultType, Options
<1> HIDE DEF k
<1>6. /\ acc'[t]["unit"] = [state |-> Found(k), key |-> k]
      /\ acc'[t]["full"] = acc[t]["full"] /\ acc'[t]["fs"] = NoAcc /\ acc'[t]["pre"] = NoAcc
  BY <1>1, <1>2, <1>5, UnitLookUp
<1>7. ContentInv'
  BY <1>1, <1>2, ContentLookUp
<1>8. CASE Found(k) = "hit"
  <2>1. Visit(t, p, cache[k][p]) /\ UNCHANGED pc
    BY <1>8, Zenon DEF PartLookUp, k
  <2>2. HoldsElf(k)
    BY <1>1, <1>2, <1>8, FoundFacts DEF LookUp, HoldsElf
  <2>3. cache[k][p] = PartCode(j, p) /\ j[p] \notin Bad
    BY <1>1, <1>3, <1>4, <2>2, HitPart DEF k
  <2> DEFINE e == [elf[t] EXCEPT ![p] = PartCode(j, p)]
  <2>4. elf'[t] = e /\ todo'[t] = Tail(todo[t]) /\ pc'[t] = "part"
    BY <1>1, <1>2, <2>1, <2>3 DEF Visit, TypeInv
  <2>5. /\ Distinct(Tail(todo[t])) /\ Parts(Tail(todo[t])) \subseteq {"pre", "fs"}
        /\ HoldsParts(j, e, {"pre", "fs"} \ Parts(Tail(todo[t])))
    BY <1>1, <1>2, <1>3, <2>3, PartVisited
  <2> HIDE DEF e
  <2>6. PartInv(t)'
    BY <1>2, <2>4, <2>5 DEF PartInv
  <2>7. KeyInv(t)'
    BY <1>2, <1>3, <1>6, <1>8, KeySame
  <2>8. WayInv(t)' /\ UnlinkedInv(t)' /\ GlueInv(t)' /\ WholeInv(t)' /\ DoneInv(t)' /\ OutInv(t)'
    BY <1>2, <1>3, <1>5, <2>4 DEF WayInv, UnlinkedInv, GlueInv, WholeInv, DoneInv, OutInv, WholePlaces
  <2> QED
    BY <1>2, <1>5, <1>7, <2>6, <2>7, <2>8, StepAnswers DEF WorkInv
<1>9. CASE Found(k) # "hit"
  <2>1. UNCHANGED <<elf, todo>> /\ pc' = [pc EXCEPT ![t] = "partCompile"]
    BY <1>9, Zenon DEF PartLookUp, k, Goto
  <2>2. pc'[t] = "partCompile"
    BY <1>1, <2>1 DEF TypeInv
  <2>3. k = PartKey(job[t], Head(todo'[t])) /\ acc'[t]["unit"].key = k
    BY <1>6, <2>1 DEF k
  <2>4. KeyInv(t)'
    BY <1>2, <1>3, <1>6, <2>2, <2>3, KeyUnit
  <2>5. PartInv(t)'
    BY <1>2, <1>3, <2>1, <2>2 DEF PartInv
  <2>6. WayInv(t)' /\ UnlinkedInv(t)' /\ GlueInv(t)' /\ WholeInv(t)' /\ DoneInv(t)' /\ OutInv(t)'
    BY <1>2, <1>3, <1>5, <2>2 DEF WayInv, UnlinkedInv, GlueInv, WholeInv, DoneInv, OutInv, WholePlaces
  <2> QED
    BY <1>2, <1>5, <1>7, <2>4, <2>5, <2>6, StepAnswers DEF WorkInv
<1> QED
  BY <1>8, <1>9

LEMMA PartCompileAnswers ==
  ASSUME AllWellPosed, AnswerInv, NEW t \in Threads, PartCompile(t)
  PROVE  AnswerInv'
<1> DEFINE j == job[t]
           p == Head(todo[t])
           x == [NoElf EXCEPT ![p] = PartCode(j, p)]
           e == [elf[t] EXCEPT ![p] = PartCode(j, p)]
<1>1. /\ TypeInv /\ CacheInv /\ AccType /\ ThreadInv(t) /\ ResultType /\ ContentInv /\ WorkInv(t)
      /\ WellPosed(Options) /\ j \in Options.jobs /\ elf[t] \in Elfs /\ todo[t] \in Seq(PartSet) /\ IInv
      /\ j.api \in Apis
  BY ThreadFacts DEF AnswerInv
<1>2. /\ UNCHANGED <<scenario, job, out>> /\ pc[t] = "partCompile" /\ Step(t)
  BY DEF PartCompile, Step
<1>3. /\ Distinct(todo[t]) /\ Parts(todo[t]) \subseteq {"pre", "fs"} /\ todo[t] # <<>>
      /\ HoldsParts(j, elf[t], {"pre", "fs"} \ Parts(todo[t])) /\ TwoParts(j)
      /\ Way(Options, j) = "part" /\ ~Refused(j) /\ result[t] = "Success" /\ KeyInv(t)
  BY <1>1, <1>2 DEF WorkInv, PartInv, WayInv, ThreadInv, Visiting
<1>4. p \in {"pre", "fs"} /\ p \in PartSet /\ p \in Present(j) /\ Options' = Options
  BY <1>1, <1>2, <1>3, TailFacts DEF PartSet, TwoParts, Options
<1>5. CASE Compiles(j, p)
  <2>1. /\ Visit(t, p, x[p]) /\ UNCHANGED result /\ SetElf(t, "unit", x)
        /\ pc' = [pc EXCEPT ![t] = "part"]
    BY <1>5, Zenon DEF PartCompile, Goto
  <2>2. x[p] = PartCode(j, p) /\ x \in Elfs
    <3>1. PartCode(j, p) \in Codes /\ NoCode \in Codes
      BY <1>1, <1>3, <1>4, JobFacts, CodeFacts
    <3> QED
      BY <1>4, <3>1 DEF NoElf, Elfs
  <2>3. elf'[t] = e /\ todo'[t] = Tail(todo[t]) /\ pc'[t] = "part" /\ ResultType'
    BY <1>1, <1>2, <2>1, <2>2 DEF Visit, TypeInv, ResultType
  <2>4. /\ Distinct(Tail(todo[t])) /\ Parts(Tail(todo[t])) \subseteq {"pre", "fs"}
        /\ HoldsParts(j, e, {"pre", "fs"} \ Parts(Tail(todo[t])))
    BY <1>1, <1>3, <1>5, PartVisited DEF Compiles
  <2> HIDE DEF e
  <2>5. PartInv(t)'
    BY <1>2, <2>3, <2>4 DEF PartInv
  <2>6. WayInv(t)' /\ UnlinkedInv(t)' /\ GlueInv(t)' /\ WholeInv(t)' /\ DoneInv(t)' /\ OutInv(t)'
    BY <1>2, <1>3, <1>4, <2>1, <2>3 DEF WayInv, UnlinkedInv, GlueInv, WholeInv, DoneInv, OutInv, WholePlaces
  <2>7. KeyInv(t)'
    <3>1. /\ acc'[t]["unit"].state = "hit"
          /\ acc'[t]["full"] = acc[t]["full"] /\ acc'[t]["fs"] = NoAcc /\ acc'[t]["pre"] = NoAcc
      BY <1>1, <1>2, <2>1, <2>2, UnitSetElf
    <3> QED
      BY <1>2, <1>3, <3>1, KeySame
  <2>8. ContentInv'
    <3>1. acc[t]["unit"].key = PartKey(j, p) /\ cache' = Store(PartKey(j, p), x)
      BY <1>2, <1>3, <2>1 DEF SetElf, KeyInv
    <3>2. StoredPart(j, PartKey(j, p), x)
      BY <1>3, <1>4, <1>5 DEF StoredPart, Compiles
    <3>3. Stored(j, PartKey(j, p), x)
      BY <3>2 DEF Stored
    <3> HIDE DEF x
    <3> QED
      BY <1>1, <1>2, <3>1, <3>3, ContentStore
  <2> QED
    BY <1>2, <2>3, <2>5, <2>6, <2>7, <2>8, StepAnswers DEF WorkInv
<1>6. CASE ~Compiles(j, p)
  <2>1. /\ cache' = Dropped(t, {"unit"}) /\ acc' = Without(t, {"unit"}) /\ UNCHANGED elf
        /\ pc' = [pc EXCEPT ![t] = "release"] /\ result' = [result EXCEPT ![t] = "Error"]
    BY <1>6, Zenon DEF PartCompile, Goto
  <2>2. ~Sound(j)
    <3>1. j.api # "colorExport"
      BY <1>3 DEF Way
    <3> QED
      BY <1>4, <1>6, <3>1 DEF Sound, NoneBad, Compiles
  <2>3. pc'[t] = "release" /\ result'[t] = "Error" /\ ResultType'
    BY <1>1, <1>2, <2>1 DEF TypeInv, ResultType
  <2>4. DoneInv(t)'
    BY <1>2, <2>2, <2>3 DEF DoneInv
  <2>5. WayInv(t)' /\ UnlinkedInv(t)' /\ PartInv(t)' /\ GlueInv(t)' /\ WholeInv(t)' /\ OutInv(t)'
    BY <1>2, <1>3, <2>3 DEF WayInv, UnlinkedInv, PartInv, GlueInv, WholeInv, OutInv, WholePlaces
  <2>6. ContentInv'
    BY <1>1, <1>2, <2>1, ContentDrop
  <2>7. KeyInv(t)'
    <3>1. acc'[t]["unit"] = NoAcc /\ acc'[t]["full"] = acc[t]["full"] /\ acc'[t]["fs"] = NoAcc /\ acc'[t]["pre"] = NoAcc
      BY <1>1, <1>2, <2>1, UnitDrop
    <3>2. NoAcc.state # "must"
      BY DEF NoAcc
    <3> QED
      BY <1>2, <1>3, <3>1, <3>2, KeySame
  <2> QED
    BY <1>2, <2>3, <2>4, <2>5, <2>6, <2>7, StepAnswers DEF WorkInv
<1> QED
  BY <1>5, <1>6

(* The stage caches are asked for the stages of the job. *)
LEMMA CheckAnswers ==
  ASSUME AllWellPosed, AnswerInv, NEW t \in Threads, CheckFragment(t) \/ CheckNonFragment(t)
  PROVE  AnswerInv'
<1> DEFINE j == job[t]
<1>1. /\ TypeInv /\ CacheInv /\ AccType /\ ThreadInv(t) /\ ResultType /\ ContentInv /\ WorkInv(t)
  BY ThreadFacts DEF AnswerInv
<1>2. PICK a \in {"fs", "pre"}, l \in {"checkPre", "generate"} :
        /\ (a = "fs" /\ l = "checkPre" /\ pc[t] = "whole" /\ j.links)
           \/ (a = "pre" /\ l = "generate" /\ pc[t] = "checkPre")
        /\ pc' = [pc EXCEPT ![t] = l]
        /\ (PerStage(t) /\ j[a] # NoShader /\ LookUp(t, a, StageKey(j, a))) \/ UNCHANGED <<cache, acc>>
  <2>1. CASE CheckFragment(t)
    <3>1. /\ pc[t] = "whole" /\ j.links /\ pc' = [pc EXCEPT ![t] = "checkPre"]
          /\ (PerStage(t) /\ j["fs"] # NoShader /\ LookUp(t, "fs", StageKey(j, "fs"))) \/ UNCHANGED <<cache, acc>>
      BY <2>1, Zenon DEF CheckFragment, Goto
    <3> WITNESS "fs" \in {"fs", "pre"}, "checkPre" \in {"checkPre", "generate"}
    <3> QED
      BY <3>1
  <2>2. CASE CheckNonFragment(t)
    <3>1. /\ pc[t] = "checkPre" /\ pc' = [pc EXCEPT ![t] = "generate"]
          /\ (PerStage(t) /\ j["pre"] # NoShader /\ LookUp(t, "pre", StageKey(j, "pre"))) \/ UNCHANGED <<cache, acc>>
      BY <2>2, Zenon DEF CheckNonFragment, Goto
    <3> WITNESS "pre" \in {"fs", "pre"}, "generate" \in {"checkPre", "generate"}
    <3> QED
      BY <3>1
  <2> QED
    BY <2>1, <2>2
<1>3. UNCHANGED <<scenario, job, todo, elf, result, out>> /\ Step(t)
  BY DEF CheckFragment, CheckNonFragment, Step
<1>4. pc'[t] = l /\ ResultType' /\ Options' = Options /\ KeyInv(t)
  BY <1>1, <1>2, <1>3 DEF TypeInv, ResultType, Options, WorkInv
<1>5. /\ WayInv(t)' /\ UnlinkedInv(t)' /\ PartInv(t)' /\ GlueInv(t)' /\ WholeInv(t)' /\ DoneInv(t)' /\ OutInv(t)'
  BY <1>1, <1>2, <1>3, <1>4
     DEF WorkInv, WayInv, UnlinkedInv, PartInv, GlueInv, WholeInv, DoneInv, OutInv, WholePlaces
<1>6. acc[t][a] = NoAcc /\ acc[t]["unit"] = NoAcc /\ NoAcc.state # "must"
  BY <1>1, <1>2 DEF ThreadInv, Visiting, NoAcc
<1>7. CASE UNCHANGED <<cache, acc>>
  <2>1. ContentInv' /\ KeyInv(t)'
    BY <1>1, <1>3, <1>4, <1>6, <1>7, KeySame, ContentSame
  <2> QED
    BY <1>3, <1>4, <1>5, <2>1, StepAnswers DEF WorkInv
<1>8. CASE PerStage(t) /\ j[a] # NoShader /\ LookUp(t, a, StageKey(j, a))
  <2> DEFINE k == StageKey(j, a)
  <2>1. k \in Keys /\ a \in Accessors /\ acc[t][a].state # "must"
    BY <1>1, <1>6, JobFacts, KeyFacts DEF PartSet, Accessors
  <2>2. /\ acc'[t][a] = [state |-> Found(k), key |-> k]
        /\ \A b \in Accessors \ {a} : acc'[t][b] = acc[t][b]
    BY <1>1, <1>8, <2>1, LookUpKeeps
  <2>3. ContentInv'
    BY <1>1, <1>3, <1>8, ContentLookUp
  <2>4. KeyInv(t)'
    <3>1. PerStage(t)' <=> PerStage(t)
      BY <1>3, <1>4 DEF PerStage
    <3>2. acc'[t]["full"] = acc[t]["full"] /\ acc'[t]["unit"] = acc[t]["unit"]
      BY <2>2 DEF Accessors
    <3>3. acc'[t][a].key = StageKey(j, a)
      BY <2>2
    <3>4. \A p \in {"pre", "fs"} : p = a \/ acc'[t][p] = acc[t][p]
      BY <2>2 DEF Accessors
    <3>5. \A p \in {"pre", "fs"} : acc'[t][p] # NoAcc =>
            acc'[t][p].key = StageKey(j, p) /\ PerStage(t) /\ j[p] # NoShader
      BY <1>4, <1>8, <3>3, <3>4 DEF KeyInv
    <3> QED
      BY <1>3, <1>4, <1>6, <3>1, <3>2, <3>5 DEF KeyInv
  <2> QED
    BY <1>3, <1>4, <1>5, <2>3, <2>4, StepAnswers DEF WorkInv
<1> QED
  BY <1>2, <1>7, <1>8

(* The code of a stage is put under its key by a build that reported no error.*)
LEMMA StageStored ==
  ASSUME AllWellPosed, AnswerInv, NEW t \in Threads, pc[t] \in {"setPre", "setFs"}, NEW a \in {"pre", "fs"},
         UNCHANGED <<scenario, job>>, SetElf(t, a, elf[t]) \/ UNCHANGED <<cache, acc>>
  PROVE  /\ ContentInv' /\ KeyInv(t)'
         /\ \A p \in {"pre", "fs"} : InStageCache(t, p) => InStageCache(t, p)'
<1> DEFINE j == job[t]
           k == StageKey(j, a)
<1>1. /\ TypeInv /\ CacheInv /\ AccType /\ ThreadInv(t) /\ ResultType /\ ContentInv /\ WorkInv(t)
      /\ WellPosed(Options) /\ j \in Options.jobs /\ elf[t] \in Elfs /\ j.api \in Apis
  BY ThreadFacts DEF AnswerInv
<1>2. KeyInv(t) /\ WholeInv(t) /\ Way(Options, j) = "whole" /\ ~Refused(j) /\ acc[t]["unit"] = NoAcc
  BY <1>1 DEF WorkInv, WayInv, WholePlaces, ThreadInv, Visiting
<1>3. NoAcc.state = "none"
  BY DEF NoAcc
<1>4. CASE UNCHANGED <<cache, acc>>
  <2>1. ContentInv'
    BY <1>1, <1>4, ContentSame
  <2>2. KeyInv(t)'
    BY <1>2, <1>3, <1>4, KeySame
  <2>3. \A p : InStageCache(t, p) => InStageCache(t, p)'
    BY <1>4 DEF InStageCache
  <2> QED
    BY <2>1, <2>2, <2>3
<1>5. CASE SetElf(t, a, elf[t])
  <2>1. a \in Accessors /\ a \in PartSet /\ acc[t][a].state = "must" /\ acc[t][a] # NoAcc
    BY <1>3, <1>5 DEF Accessors, PartSet, SetElf
  <2>2. acc[t][a].key = k /\ PerStage(t) /\ j[a] # NoShader
    BY <1>2, <2>1 DEF KeyInv
  <2>3. /\ acc'[t][a] = [state |-> "hit", key |-> acc[t][a].key]
        /\ \A b \in Accessors \ {a} : acc'[t][b] = acc[t][b]
    BY <1>1, <1>5, <2>1, SetElfKeeps
  <2>4. elf[t][a] = WholeCode(j, a)
    <3>1. a \in Present(j) /\ ~InStageCache(t, a)
      BY <2>1, <2>2 DEF Present, InStageCache
    <3> QED
      BY <1>2, <2>1, <3>1 DEF WholeInv
  <2>5. \A q \in PartSet : elf[t][q] \in {NoCode, WholeCode(j, q)}
    BY <1>2 DEF WholeInv
  <2>6. StoredStage(j, k, elf[t])
    BY <2>2, <2>4, <2>5 DEF StoredStage, PerStage
  <2>7. Stored(j, k, elf[t]) /\ cache' = Store(k, elf[t])
    BY <1>5, <2>2, <2>6 DEF Stored, SetElf
  <2>8. ContentInv'
    BY <1>1, <2>7, ContentStore
  <2>9. KeyInv(t)'
    <3>1. Options' = Options /\ (PerStage(t)' <=> PerStage(t))
      BY DEF Options, PerStage
    <3>2. acc'[t]["full"] = acc[t]["full"] /\ acc'[t]["unit"] = acc[t]["unit"]
      BY <2>3 DEF Accessors
    <3>3. acc'[t][a].key = StageKey(j, a)
      BY <2>2, <2>3
    <3>4. \A p \in {"pre", "fs"} : p = a \/ acc'[t][p] = acc[t][p]
      BY <2>3 DEF Accessors
    <3>5. \A p \in {"pre", "fs"} : acc'[t][p] # NoAcc =>
            acc'[t][p].key = StageKey(j, p) /\ PerStage(t) /\ j[p] # NoShader
      BY <1>2, <2>2, <3>3, <3>4 DEF KeyInv
    <3> QED
      BY <1>2, <1>3, <3>1, <3>2, <3>5 DEF KeyInv
  <2>10. \A p \in {"pre", "fs"} : InStageCache(t, p) => InStageCache(t, p)'
    BY <2>3 DEF InStageCache, Accessors
  <2> QED
    BY <2>8, <2>9, <2>10
<1> QED
  BY <1>4, <1>5

LEMMA SetNonFragmentAnswers ==
  ASSUME AllWellPosed, AnswerInv, NEW t \in Threads, SetNonFragment(t)
  PROVE  AnswerInv'
<1> DEFINE j == job[t]
<1>1. TypeInv /\ ResultType /\ WorkInv(t)
  BY ThreadFacts
<1>2. /\ UNCHANGED <<scenario, job, todo, elf, result, out>> /\ pc[t] = "setPre" /\ Step(t)
      /\ pc' = [pc EXCEPT ![t] = "setFs"]
      /\ SetElf(t, "pre", elf[t]) \/ UNCHANGED <<cache, acc>>
  <2>1. Step(t)
    BY DEF Step
  <2> QED
    BY <2>1, Zenon DEF SetNonFragment, Goto
<1>3. pc'[t] = "setFs" /\ ResultType' /\ Options' = Options
  BY <1>1, <1>2 DEF TypeInv, ResultType, Options
<1>4. ContentInv' /\ KeyInv(t)' /\ \A p \in {"pre", "fs"} : InStageCache(t, p) => InStageCache(t, p)'
  BY <1>2, StageStored
<1>5. WholeInv(t)'
  <2>1. \A p : InStageCache(t, p) => p \in {"pre", "fs"}
    BY DEF InStageCache
  <2>2. \A p : InStageCache(t, p) => InStageCache(t, p)'
    BY <1>4, <2>1
  <2> QED
    BY <1>1, <1>2, <1>3, <2>2 DEF WorkInv, WholeInv
<1>6. WayInv(t)' /\ UnlinkedInv(t)' /\ PartInv(t)' /\ GlueInv(t)' /\ DoneInv(t)' /\ OutInv(t)'
  BY <1>1, <1>2, <1>3 DEF WorkInv, WayInv, UnlinkedInv, PartInv, GlueInv, DoneInv, OutInv, WholePlaces
<1> QED
  BY <1>2, <1>3, <1>4, <1>5, <1>6, StepAnswers DEF WorkInv

LEMMA SetFragmentAnswers ==
  ASSUME AllWellPosed, AnswerInv, NEW t \in Threads, SetFragment(t)
  PROVE  AnswerInv'
<1> DEFINE j == job[t]
           e == [p \in DOMAIN elf[t] |-> Merged(t, elf[t], p)]
<1>1. /\ TypeInv /\ CacheInv /\ ResultType /\ ContentInv /\ WorkInv(t)
      /\ WellPosed(Options) /\ j \in Options.jobs /\ elf[t] \in Elfs /\ j.api \in Apis
  BY ThreadFacts
<1>2. /\ UNCHANGED <<scenario, job, todo, result, out>> /\ pc[t] = "setFs" /\ Step(t)
      /\ pc' = [pc EXCEPT ![t] = "release"]
      /\ SetElf(t, "fs", elf[t]) \/ UNCHANGED <<cache, acc>>
      /\ elf' = [elf EXCEPT ![t] = e]
  <2>1. Step(t)
    BY DEF Step
  <2> QED
    BY <2>1, Zenon DEF SetFragment, Goto
<1>3. pc'[t] = "release" /\ elf'[t] = e /\ ResultType' /\ Options' = Options
  BY <1>1, <1>2 DEF TypeInv, ResultType, Options
<1>4. ContentInv' /\ KeyInv(t)'
  BY <1>2, StageStored
<1>5. KeyInv(t) /\ WholeInv(t) /\ Way(Options, j) = "whole" /\ ~Refused(j) /\ j.links
  BY <1>1, <1>2 DEF WorkInv, WayInv, WholePlaces
<1>6. DOMAIN elf[t] = PartSet \cup {"glue"} /\ "glue" \notin PartSet
  BY <1>1 DEF Elfs, PartSet
<1>7. ASSUME NEW p \in PartSet
      PROVE  Merged(t, elf[t], p) = IF j[p] = NoShader THEN NoCode ELSE WholeCode(j, p)
  <2>1. CASE InStageCache(t, p)
    <3>1. p \in {"pre", "fs"} /\ p \in Accessors /\ acc[t][p].state = "hit" /\ acc[t][p] # NoAcc
      BY <2>1 DEF InStageCache, Accessors, NoAcc
    <3>2. acc[t][p].key = StageKey(j, p) /\ j[p] # NoShader
      BY <1>5, <3>1 DEF KeyInv
    <3>3. HoldsElf(StageKey(j, p))
      BY <1>1, <3>1, <3>2 DEF CacheInv
    <3>4. cache[StageKey(j, p)][p] = WholeCode(j, p)
      BY <1>1, <3>1, <3>2, <3>3, HitStage
    <3> QED
      BY <2>1, <3>2, <3>4 DEF Merged
  <2>2. CASE ~InStageCache(t, p)
    BY <1>2, <1>5, <2>2 DEF Merged, WholeInv, Present
  <2> QED
    BY <2>1, <2>2
<1>8. e["glue"] = NoCode /\ \A p \in PartSet : e[p] = IF j[p] = NoShader THEN NoCode ELSE WholeCode(j, p)
  <2>1. Merged(t, elf[t], "glue") = NoCode
    BY <1>2, <1>5 DEF Merged, WholeInv, InStageCache
  <2> QED
    BY <1>6, <1>7, <2>1
<1>9. e = Answer(Options, j)
  <2>1. \A p \in PartSet : WholeCode(j, p) \in Codes /\ NoCode \in Codes
    BY <1>1, JobFacts, CodeFacts
  <2>2. e \in [PartSet \cup {"glue"} -> Codes]
    BY <1>6, <1>8, <2>1, NoElfFacts DEF NoElf, Elfs
  <2> HIDE DEF e
  <2> QED
    BY <1>5, <1>8, <2>2, WholeAnswers
<1> HIDE DEF e
<1>10. IF result[t] = "Success" THEN MayBuild(Options, j) ELSE ~Sound(j)
  BY <1>1, <1>2, <1>5, WholeFacts DEF WholeInv
<1>11. DoneInv(t)'
  BY <1>2, <1>3, <1>9, <1>10 DEF DoneInv
<1>12. WayInv(t)' /\ UnlinkedInv(t)' /\ PartInv(t)' /\ GlueInv(t)' /\ WholeInv(t)' /\ OutInv(t)'
  BY <1>2, <1>3, <1>5 DEF WayInv, UnlinkedInv, PartInv, GlueInv, WholeInv, OutInv, WholePlaces
<1> QED
  BY <1>2, <1>3, <1>4, <1>11, <1>12, StepAnswers DEF WorkInv

LEMMA ReleaseAnswers ==
  ASSUME AllWellPosed, AnswerInv, NEW t \in Threads, Release(t)
  PROVE  AnswerInv'
<1> DEFINE as == {"fs", "pre", "unit"}
<1>1. TypeInv /\ CacheInv /\ AccType /\ ResultType /\ ContentInv /\ WorkInv(t) /\ as \in SUBSET Accessors
  BY ThreadFacts DEF Accessors
<1>2. /\ UNCHANGED <<scenario, job, todo, elf, result, out>> /\ pc[t] = "release" /\ Step(t)
      /\ cache' = Dropped(t, as) /\ acc' = Without(t, as) /\ pc' = [pc EXCEPT ![t] = "output"]
  BY DEF Release, Goto, Step
<1>3. /\ \A a \in as : acc'[t][a] = NoAcc
      /\ \A a \in Accessors \ as : acc'[t][a] = acc[t][a]
  BY <1>1, <1>2, DropKeeps
<1>4. pc'[t] = "output" /\ ResultType' /\ Options' = Options /\ KeyInv(t) /\ ~Refused(job[t])
  BY <1>1, <1>2 DEF TypeInv, ResultType, Options, WorkInv, WayInv
<1>5. ContentInv'
  BY <1>1, <1>2, ContentDrop
<1>6. KeyInv(t)'
  <2>1. acc'[t]["full"] = acc[t]["full"] /\ NoAcc.state # "must"
    BY <1>3 DEF Accessors, NoAcc
  <2> QED
    BY <1>2, <1>3, <1>4, <2>1, KeySame
<1>7. DoneInv(t)'
  BY <1>1, <1>2, <1>4 DEF WorkInv, DoneInv
<1>8. WayInv(t)' /\ UnlinkedInv(t)' /\ PartInv(t)' /\ GlueInv(t)' /\ WholeInv(t)' /\ OutInv(t)'
  BY <1>2, <1>4 DEF WayInv, UnlinkedInv, PartInv, GlueInv, WholeInv, OutInv, WholePlaces
<1> QED
  BY <1>2, <1>4, <1>5, <1>6, <1>7, <1>8, StepAnswers DEF WorkInv

LEMMA OutputAnswers ==
  ASSUME AllWellPosed, AnswerInv, NEW t \in Threads, Output(t)
  PROVE  AnswerInv'
<1> DEFINE j == job[t]
           ok == result[t] = "Success" /\ j.alloc
           r == IF ok THEN [result |-> "Success", elf |-> elf[t]] ELSE [result |-> "Error", elf |-> NoElf]
<1>1. /\ TypeInv /\ CacheInv /\ AccType /\ ThreadInv(t) /\ ResultType /\ ContentInv /\ WorkInv(t)
      /\ j \in Options.jobs /\ elf[t] \in Elfs /\ {"full"} \in SUBSET Accessors
  BY ThreadFacts DEF Accessors
<1>2. /\ UNCHANGED <<scenario, job, todo, elf, result>> /\ pc[t] = "output" /\ Step(t)
      /\ acc' = Without(t, {"full"}) /\ pc' = [pc EXCEPT ![t] = "idle"] /\ out' = [out EXCEPT ![t] = r]
      /\ \/ ok /\ acc[t]["full"].state = "must" /\ cache' = Store(acc[t]["full"].key, elf[t])
         \/ cache' = Dropped(t, {"full"})
  <2>1. Step(t)
    BY DEF Step
  <2> QED
    BY <2>1, Zenon DEF Output, Goto
<1>3. r \in [result : {"none", "Success", "Error"}, elf : Elfs]
  BY <1>1, NoElfFacts
<1> HIDE DEF r
<1>4. pc'[t] = "idle" /\ out'[t] = r /\ ResultType' /\ Options' = Options
  BY <1>1, <1>2, <1>3 DEF TypeInv, ResultType, Options
<1>5. KeyInv(t) /\ (IF result[t] = "Success" THEN MayBuild(Options, j) /\ elf[t] = Answer(Options, j) ELSE ~Sound(j))
  BY <1>1, <1>2 DEF WorkInv, DoneInv
<1>6. ContentInv'
  <2>1. CASE ok /\ acc[t]["full"].state = "must" /\ cache' = Store(acc[t]["full"].key, elf[t])
    <3>1. acc[t]["full"].key = FullKey(j) /\ LookedUp(j)
      BY <1>5, <2>1 DEF KeyInv, NoAcc
    <3>2. StoredFull(j, FullKey(j), elf[t])
      BY <1>5, <2>1, <3>1 DEF StoredFull
    <3>3. Stored(j, FullKey(j), elf[t])
      BY <3>2 DEF Stored
    <3> QED
      BY <1>1, <1>2, <2>1, <3>1, <3>3, ContentStore
  <2>2. CASE cache' = Dropped(t, {"full"})
    BY <1>1, <1>2, <2>2, ContentDrop
  <2> QED
    BY <1>2, <2>1, <2>2
<1>7. KeyInv(t)'
  <2>1. \A a \in Accessors : acc'[t][a] = IF a \in {"full"} THEN NoAcc ELSE acc[t][a]
    BY <1>1, <1>2 DEF Without, AccType
  <2>2. /\ acc'[t]["full"] = NoAcc /\ acc'[t]["fs"] = acc[t]["fs"] /\ acc'[t]["pre"] = acc[t]["pre"]
        /\ acc'[t]["unit"] = acc[t]["unit"] /\ acc[t]["unit"].state # "must"
    BY <1>1, <1>2, <2>1 DEF Accessors, ThreadInv, Visiting
  <2> QED
    BY <1>2, <1>5, <2>2, KeySame
<1>8. OutInv(t)'
  <2>1. (Buildable(j) => ok) /\ (ok => j.alloc /\ MayBuild(Options, j) /\ elf[t] = Answer(Options, j))
    BY <1>5, SoundFacts
  <2>2. (r.result = "Success" <=> ok) /\ (ok => r.elf = elf[t])
    BY DEF r
  <2> QED
    BY <1>2, <1>4, <2>1, <2>2 DEF OutInv
<1>9. WayInv(t)' /\ UnlinkedInv(t)' /\ PartInv(t)' /\ GlueInv(t)' /\ WholeInv(t)' /\ DoneInv(t)'
  BY <1>4 DEF WayInv, UnlinkedInv, PartInv, GlueInv, WholeInv, DoneInv, WholePlaces
<1> QED
  BY <1>2, <1>4, <1>6, <1>7, <1>8, <1>9, StepAnswers DEF WorkInv

-----------------------------------------------------------------------------
(* The theorems *)

LEMMA AnswerInit == Init => AnswerInv
<1> SUFFICES ASSUME Init  PROVE AnswerInv
  OBVIOUS
<1>1. IInv
  BY InvInit
<1>2. ResultType
  BY NoElfFacts DEF Init, ResultType
<1>3. ContentInv
  BY DEF Init, ContentInv
<1>4. ASSUME NEW t \in Threads  PROVE WorkInv(t)
  <2>1. pc[t] = "idle" /\ out[t].result = "none" /\ \A a \in Accessors : acc[t][a] = NoAcc
    BY DEF Init
  <2>2. KeyInv(t)
    BY <2>1 DEF KeyInv, Accessors, NoAcc
  <2> QED
    BY <2>1, <2>2 DEF WorkInv, WayInv, UnlinkedInv, PartInv, GlueInv, WholeInv, DoneInv, OutInv, WholePlaces
<1> QED
  BY <1>1, <1>2, <1>3, <1>4 DEF AnswerInv

LEMMA AnswerNext ==
  ASSUME AllWellPosed, AnswerInv, [Next]_vars
  PROVE  AnswerInv'
<1>1. CASE UNCHANGED vars
  <2>1. UNCHANGED <<scenario, cache, pc, job, todo, elf, result, acc, ctx, out, builds, aborted>>
    BY <1>1 DEF vars
  <2>2. IInv'
    BY <1>1, InvNext DEF AnswerInv
  <2>3. ResultType' /\ Options' = Options
    BY <2>1 DEF AnswerInv, ResultType, Options
  <2>4. ContentInv'
    BY <2>1, ContentSame DEF AnswerInv
  <2>5. ASSUME NEW t \in Threads  PROVE WorkInv(t)'
    <3>1. WorkInv(t)
      BY DEF AnswerInv
    <3> QED
      BY <2>1, <2>3, <3>1
         DEF WorkInv, KeyInv, PerStage, WayInv, UnlinkedInv, PartInv, GlueInv, WholeInv, DoneInv, OutInv,
             InStageCache
  <2> QED
    BY <2>2, <2>3, <2>4, <2>5 DEF AnswerInv
<1>2. ASSUME NEW t \in Threads, Step(t)  PROVE AnswerInv'
  <2>1. CASE LookUpFull(t) \/ Acquire(t) \/ Release(t) \/ Output(t) \/ Return(t) \/ AssertFails(t)
    BY <2>1, LookUpFullAnswers, AcquireAnswers, ReleaseAnswers, OutputAnswers, ReturnAnswers, AssertAnswers
  <2>2. CASE UnlinkedGiven(t) \/ UnlinkedRefused(t) \/ UnlinkedLookUp(t) \/ UnlinkedCompile(t)
    BY <2>2, GivenAnswers, RefusedAnswers, UnlinkedLookUpAnswers, UnlinkedCompileAnswers
  <2>3. CASE LinkPlain(t) \/ GlueLookUp(t) \/ GlueCompile(t)
    BY <2>3, PlainAnswers, GlueLookUpAnswers, GlueCompileAnswers
  <2>4. CASE PartLookUp(t) \/ PartCompile(t) \/ PartLink(t)
    BY <2>4, PartLookUpAnswers, PartCompileAnswers, PartLinkAnswers
  <2>5. CASE IrLinkFails(t) \/ CheckFragment(t) \/ CheckNonFragment(t) \/ Generate(t)
    BY <2>5, IrLinkAnswers, CheckAnswers, GenerateAnswers
  <2>6. CASE SetNonFragment(t) \/ SetFragment(t)
    BY <2>6, SetNonFragmentAnswers, SetFragmentAnswers
  <2> QED
    BY <1>2, <2>1, <2>2, <2>3, <2>4, <2>5, <2>6 DEF Step
<1>3. ASSUME NEW t \in Threads, NEW j \in Options.jobs, Begin(t, j)  PROVE AnswerInv'
  BY <1>3, BeginAnswers
<1> QED
  BY <1>1, <1>2, <1>3 DEF Next

(* What a build has put together, and what the cache holds for the others, is *)
(* the code of its job: for any threads, shaders, options and cache contents  *)
(* the builds can lead to, if the jobs are as the callers ensure.             *)
THEOREM PipelineAnswers == AllWellPosed => (Spec => []AnswerInv)
<1>1. ASSUME AllWellPosed  PROVE Spec => []AnswerInv
  <2>1. AnswerInv /\ [Next]_vars => AnswerInv'
    BY <1>1, AnswerNext
  <2> QED
    BY <2>1, AnswerInit, PTL DEF Spec
<1> QED
  BY <1>1

(* Every build of a job without a fault returns Success, and the ELF of one   *)
(* that does is the answer to its job, whatever it took from the cache and    *)
(* whichever stages of this and of other jobs fail.                           *)
THEOREM AnswersKept == AllWellPosed => (Spec => []AnswersRequest)
<1>1. AnswerInv => AnswersRequest
  BY DEF AnswerInv, WorkInv, OutInv, AnswersRequest
<1>2. ASSUME AllWellPosed  PROVE Spec => []AnswersRequest
  <2>1. Spec => []AnswerInv
    BY <1>2, PipelineAnswers
  <2> QED
    BY <1>1, <2>1, PTL
<1> QED
  BY <1>2

(* The code of a shader that does not compile is kept in the cache for stages *)
(* or comes from there.                                                       *)
LEMMA StoredFails ==
  ASSUME WellPosed(Options), NEW j \in Options.jobs, NEW k, NEW e, Stored(j, k, e), NEW p \in PartSet,
         e[p] # NoCode, e[p][2] \in Bad
  PROVE  /\ k[1] \in {"stage", "pipeline"} /\ e[p][1] = "whole"
         /\ Options.perStage /\ ~Options.part
<1>1. p \in DOMAIN NoElf /\ p # "glue" /\ NoElf[p] = NoCode
  BY NoElfDomain DEF NoElf
<1>2. /\ WholeCode(j, p)[2] = j[p] /\ UnlinkedCode(j, p)[2] = j[p] /\ PartCode(j, p)[2] = j[p]
      /\ WholeCode(j, p)[1] = "whole"
  BY DEF WholeCode, UnlinkedCode, PartCode
<1>3. CASE StoredFull(j, k, e)
  <2>1. k[1] = "pipeline" /\ MayBuild(Options, j) /\ e = Answer(Options, j)
    BY <1>3 DEF StoredFull, FullKey
  <2>2. p \in Present(j) /\ Way(Options, j) \in {"whole", "part", "unlinked"}
    BY <1>1, <2>1 DEF Answer, Way
  <2>3. CASE Way(Options, j) = "whole"
    <3>1. e[p] = WholeCode(j, p)
      BY <1>1, <2>1, <2>2, <2>3 DEF Answer
    <3>2. UsesStageCache(Options, j)
      BY <1>2, <2>1, <2>2, <2>3, <3>1 DEF MayBuild, NoneBad
    <3> QED
      BY <1>2, <2>1, <3>1, <3>2 DEF UsesStageCache
  <2>4. CASE Way(Options, j) = "part"
    <3>1. e[p] = PartCode(j, p)
      BY <1>1, <2>1, <2>2, <2>4 DEF Answer
    <3> QED
      BY <1>2, <2>1, <2>2, <2>4, <3>1 DEF MayBuild, NoneBad
  <2>5. CASE Way(Options, j) = "unlinked"
    <3>1. p \in Linked(j) /\ e[p] = UnlinkedCode(j, p)
      BY <1>1, <2>1, <2>2, <2>5 DEF Answer
    <3>2. p \in j.given
      BY <1>2, <3>1 DEF Linked, Fails
    <3> QED
      BY <1>2, <3>1, <3>2 DEF WellPosed, WellFormed
  <2> QED
    BY <2>2, <2>3, <2>4, <2>5
<1>4. CASE StoredStage(j, k, e)
  <2>1. e[p] = WholeCode(j, p) /\ UsesStageCache(Options, j) /\ k[1] = "stage"
    BY <1>4 DEF StoredStage, StageKey
  <2> QED
    BY <1>2, <2>1 DEF UsesStageCache
<1>5. CASE StoredUnlinked(j, k, e)
  <2>1. PICK q \in PartSet : j[q] \notin Bad /\ e = [NoElf EXCEPT ![q] = UnlinkedCode(j, q)]
    BY <1>5 DEF StoredUnlinked
  <2>2. q = p
    BY <1>1, <2>1
  <2> QED
    BY <1>1, <1>2, <2>1, <2>2
<1>6. CASE StoredPart(j, k, e)
  <2>1. PICK q \in {"pre", "fs"} : j[q] \notin Bad /\ e = [NoElf EXCEPT ![q] = PartCode(j, q)]
    BY <1>6 DEF StoredPart
  <2>2. q = p
    BY <1>1, <2>1
  <2> QED
    BY <1>1, <1>2, <2>1, <2>2
<1>7. CASE StoredGlue(j, k, e)
  BY <1>1, <1>7 DEF StoredGlue
<1> QED
  BY <1>3, <1>4, <1>5, <1>6, <1>7 DEF Stored

(* For any shaders that fail, in any builds and with any options: their code  *)
(* is in the cache only by way of the cache for stages.                       *)
THEOREM FailuresKept == AllWellPosed => (Spec => []FailedCodeConfined)
<1>1. ASSUME AllWellPosed, AnswerInv  PROVE FailedCodeConfined
  <2> SUFFICES ASSUME NEW k \in DOMAIN cache, NEW p \in PartSet, FailedCodeAt(k, p)
               PROVE  /\ k[1] \in {"stage", "pipeline"} /\ cache[k][p][1] = "whole"
                      /\ Options.perStage /\ ~Options.part
    BY DEF FailedCodeConfined
  <2>1. cache[k] \in Elfs /\ cache[k][p] # NoCode /\ cache[k][p][2] \in Bad
    BY <1>1 DEF AnswerInv, IInv, CacheInv, FailedCodeAt
  <2>2. PICK j \in Options.jobs : Stored(j, k, cache[k])
    BY <1>1, <2>1 DEF AnswerInv, ContentInv
  <2>3. WellPosed(Options)
    BY <1>1, OptionsPosed DEF AnswerInv, IInv
  <2> QED
    BY <2>1, <2>2, <2>3, StoredFails
<1>2. ASSUME AllWellPosed  PROVE Spec => []FailedCodeConfined
  <2>1. Spec => []AnswerInv
    BY <1>2, PipelineAnswers
  <2>2. AnswerInv => FailedCodeConfined
    BY <1>1, <1>2
  <2> QED
    BY <2>1, <2>2, PTL
<1> QED
  BY <1>2
==============================================================================
