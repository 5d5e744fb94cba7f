-------------------------- MODULE PrimShaderProofs --------------------------
(***************************************************************************)
(* Proofs about PrimShader for any shaders and draws: the waves of a       *)
(* subgroup always have the same number of barriers ahead, and export      *)
(* space is requested exactly once, before a culling shader exports.       *)
(***************************************************************************)
EXTENDS PrimShader, FiniteSetTheorems, SequenceTheorems, TLAPS

-----------------------------------------------------------------------------
(* The inductive invariant *)

(* The barriers ahead, each by its place from the end of the program: a block *)
(* that is executed leaves the others where they are.                         *)
BarriersAhead(s) == {k \in 1 .. Len(s) : s[Len(s) + 1 - k] = "Barrier"}
Bars(s) == Cardinality(BarriersAhead(s))

Blocks ==
  {"DistribPrimitiveId", "Barrier", "ReadPrimitiveId", "OrderedCount", "GdsCounters",
   "InitPrimitivesToWrite", "WaveOrdering", "LimitPrimitives", "ReviseDwordsWritten",
   "UpdatePrimitiveCounters", "InitPrimitiveCounts", "CheckPrimitiveDrawFlag",
   "AccumPrimitiveCounts", "CompactPrimitiveIndex", "WriteXfb", "ExportXfb",
   "InitStreamCounts", "CountPrimitives", "ReadStreamCounts", "CollectPrimitiveStats",
   "SendGsAllocReq", "CollectVertexExport", "ExportPrimitive", "ExportVertex",
   "InitVertexDrawFlag", "InitVertexCounts", "WriteCullData", "CullPrimitive",
   "CheckVertexDrawFlag", "AccumVertexCounts", "CompactVertex", "EarlyExit", "RunEs",
   "InitPrimitiveData", "RunGs"}
Request == "SendGsAllocReq"
Exporting == {"EarlyExit", "ExportPrimitive", "ExportVertex"}

Has(s, block) == \E i \in 1 .. Len(s) : s[i] = block

(* No barrier comes after the first export. *)
Trailing(s) == \A i, j \in 1 .. Len(s) : s[i] \in Exporting /\ i < j => s[j] # "Barrier"
Once(s) == \A i, j \in 1 .. Len(s) : s[i] = Request /\ s[j] = Request => i = j
(* A barrier comes after the request. *)
Followed(s) == \A i \in 1 .. Len(s) : s[i] = Request => \E j \in 1 .. Len(s) : i < j /\ s[j] = "Barrier"
InOrder(s) == s \in Seq(Blocks) /\ Trailing(s) /\ Once(s)

(* What the rest of the program of a wave looks like. *)
ProgramInv ==
  /\ sh \in Shaders /\ DOMAIN todo = Waves
  /\ \A x \in Waves :
       /\ InOrder(todo[x])
       /\ Has(todo[x], Request) => x[2] = 0 /\ ~ PassthroughNoMsg
       /\ IF sh.kind = "culling" THEN Followed(todo[x]) ELSE ~ Has(todo[x], "EarlyExit")

(* The waves of a subgroup have the same barriers ahead, those that have    *)
(* ended too: a wave that waits at a barrier waits for no wave in vain.     *)
StepInv == \A x, y \in Waves : x[1] = y[1] => Bars(todo[x]) = Bars(todo[y])

(* The request is in the past or in the future, but not in both. *)
RequestInv ==
  /\ DOMAIN requests = Groups
  /\ \A g \in Groups : IF PassthroughNoMsg \/ Has(todo[<<g, 0>>], Request) THEN requests[g] = << >>
                       ELSE Len(requests[g]) = 1

(* A subgroup that has exported something has passed all its barriers. *)
ExportInv ==
  /\ DOMAIN prims = Groups /\ DOMAIN verts = Groups
  /\ \A x \in Waves : Bars(todo[x]) # 0 => DOMAIN prims[x[1]] = {} /\ DOMAIN verts[x[1]] = {}

IInv == ProgramInv /\ StepInv /\ RequestInv /\ ExportInv

-----------------------------------------------------------------------------
(* Sequences of blocks *)

LEMMA BarriersFinite ==
  ASSUME NEW s \in Seq(Blocks)
  PROVE  /\ IsFiniteSet(BarriersAhead(s)) /\ Bars(s) \in Nat
         /\ Bars(s) = 0 <=> ~ Has(s, "Barrier")
<1>1. IsFiniteSet(1 .. Len(s))
  BY FS_Interval
<1>2. IsFiniteSet(BarriersAhead(s))
  BY <1>1, FS_Subset DEF BarriersAhead
<1>3. Bars(s) \in Nat
  BY <1>2, FS_CardinalityType DEF Bars
<1>4. Bars(s) = 0 <=> BarriersAhead(s) = {}
  BY <1>2, FS_EmptySet DEF Bars
<1>5. ASSUME NEW i \in 1 .. Len(s), s[i] = "Barrier"
      PROVE  Len(s) + 1 - i \in BarriersAhead(s)
  BY <1>5 DEF BarriersAhead
<1>6. ASSUME NEW k \in BarriersAhead(s)
      PROVE  Has(s, "Barrier")
  BY <1>6 DEF BarriersAhead, Has
<1> QED
  BY <1>2, <1>3, <1>4, <1>5, <1>6 DEF Has

(* Executing a block that is no barrier leaves the barriers ahead. *)
LEMMA BarsTail ==
  ASSUME NEW s \in Seq(Blocks), s # << >>
  PROVE  /\ Head(s) # "Barrier" => Bars(Tail(s)) = Bars(s)
         /\ Head(s) = "Barrier" => Bars(Tail(s)) = Bars(s) - 1
<1>1. /\ Tail(s) \in Seq(Blocks) /\ Len(Tail(s)) = Len(s) - 1 /\ Head(s) = s[1] /\ Len(s) \in Nat \ {0}
      /\ \A i \in 1 .. Len(Tail(s)) : Tail(s)[i] = s[i + 1]
  BY HeadTailProperties
<1>2. BarriersAhead(Tail(s)) = BarriersAhead(s) \ {Len(s)}
  <2>1. ASSUME NEW k \in 1 .. Len(s) - 1
        PROVE  Tail(s)[Len(s) - k] = s[Len(s) + 1 - k]
    <3>1. Len(s) - k \in 1 .. Len(Tail(s)) /\ (Len(s) - k) + 1 = Len(s) + 1 - k
      BY <1>1
    <3> QED
      BY <1>1, <3>1
  <2>2. BarriersAhead(Tail(s)) = {k \in 1 .. Len(s) - 1 : Tail(s)[Len(s) - k] = "Barrier"}
    BY <1>1 DEF BarriersAhead
  <2>3. BarriersAhead(Tail(s)) = {k \in 1 .. Len(s) - 1 : s[Len(s) + 1 - k] = "Barrier"}
    BY <2>1, <2>2
  <2> QED
    BY <1>1, <2>3 DEF BarriersAhead
<1>3. Len(s) \in BarriersAhead(s) <=> Head(s) = "Barrier"
  BY <1>1 DEF BarriersAhead
<1> QED
  BY <1>2, <1>3, BarriersFinite, FS_RemoveElement DEF Bars

LEMMA BarsConcat ==
  ASSUME NEW s \in Seq(Blocks), NEW t \in Seq(Blocks)
  PROVE  s \o t \in Seq(Blocks) /\ Bars(s \o t) = Bars(s) + Bars(t)
<1> DEFINE n == Len(t)
           A == BarriersAhead(s)
           B == {k + n : k \in A}
           u == s \o t
<1>1. /\ u \in Seq(Blocks) /\ Len(u) = Len(s) + n /\ n \in Nat /\ Len(s) \in Nat
      /\ \A i \in 1 .. Len(s) : u[i] = s[i]
      /\ \A i \in 1 .. n : u[Len(s) + i] = t[i]
  BY ConcatProperties
<1>2. A \subseteq Nat /\ IsFiniteSet(A) /\ IsFiniteSet(BarriersAhead(t))
  <2>1. A \subseteq Nat
    BY DEF BarriersAhead
  <2> QED
    BY <2>1, BarriersFinite
<1>3. IsFiniteSet(B) /\ Cardinality(B) = Cardinality(A)
  <2> DEFINE f == [k \in A |-> k + n]
  <2> HIDE DEF A, u, n
  <2>1. f \in [A -> B] /\ \A k \in B : \E j \in A : f[j] = k
    OBVIOUS
  <2>2. \A j, k \in A : f[j] = f[k] => j = k
    BY <1>1, <1>2
  <2>3. f \in Bijection(A, B)
    BY <2>1, <2>2 DEF Bijection, Injection, Surjection, IsInjective
  <2> QED
    BY <1>2, <2>3, FS_Bijection DEF ExistsBijection
<1>4. BarriersAhead(u) = B \cup BarriersAhead(t)
  <2>1. ASSUME NEW k \in 1 .. n
        PROVE  u[Len(u) + 1 - k] = t[n + 1 - k]
    <3>1. n + 1 - k \in 1 .. n /\ Len(u) + 1 - k = Len(s) + (n + 1 - k)
      BY <1>1
    <3> QED
      BY <1>1, <3>1
  <2>2. ASSUME NEW k \in n + 1 .. Len(u)
        PROVE  /\ u[Len(u) + 1 - k] = s[Len(s) + 1 - (k - n)]
               /\ k - n \in 1 .. Len(s)
    <3>1. Len(u) + 1 - k \in 1 .. Len(s) /\ Len(u) + 1 - k = Len(s) + 1 - (k - n)
      BY <1>1
    <3> QED
      BY <1>1, <3>1
  <2>3. ASSUME NEW k \in BarriersAhead(u)
        PROVE  k \in B \cup BarriersAhead(t)
    <3>1. k \in 1 .. Len(u) /\ u[Len(u) + 1 - k] = "Barrier"
      BY <2>3 DEF BarriersAhead
    <3>2. CASE k <= n
      BY <1>1, <2>1, <3>1, <3>2 DEF BarriersAhead
    <3>3. CASE k > n
      <4>1. k - n \in A
        BY <1>1, <2>2, <3>1, <3>3 DEF BarriersAhead
      <4>2. k = (k - n) + n
        BY <1>1, <3>1
      <4> QED
        BY <4>1, <4>2
    <3> QED
      BY <1>1, <3>1, <3>2, <3>3
  <2>4. ASSUME NEW k \in BarriersAhead(t)
        PROVE  k \in BarriersAhead(u)
    BY <1>1, <2>1, <2>4 DEF BarriersAhead
  <2>5. ASSUME NEW k \in A
        PROVE  k + n \in BarriersAhead(u)
    <3>1. k \in 1 .. Len(s) /\ s[Len(s) + 1 - k] = "Barrier"
      BY <2>5 DEF BarriersAhead
    <3>2. k + n \in n + 1 .. Len(u) /\ (k + n) - n = k
      BY <1>1, <3>1
    <3> HIDE DEF u, n
    <3>3. u[Len(u) + 1 - (k + n)] = s[Len(s) + 1 - ((k + n) - n)]
      BY <2>2, <3>2
    <3>4. u[Len(u) + 1 - (k + n)] = "Barrier"
      BY <3>1, <3>2, <3>3
    <3>5. k + n \in 1 .. Len(u)
      BY <1>1, <3>2
    <3> QED
      BY <3>4, <3>5 DEF BarriersAhead
  <2> QED
    BY <2>3, <2>4, <2>5
<1>5. B \cap BarriersAhead(t) = {}
  BY <1>1 DEF BarriersAhead
<1>6. Cardinality(B \cup BarriersAhead(t)) = Cardinality(B) + Cardinality(BarriersAhead(t))
  <2>1. Cardinality(B) \in Nat /\ Cardinality(BarriersAhead(t)) \in Nat
    BY <1>2, <1>3, FS_CardinalityType
  <2>2. Cardinality(B \cup BarriersAhead(t))
          = Cardinality(B) + Cardinality(BarriersAhead(t)) - Cardinality(B \cap BarriersAhead(t))
    BY <1>2, <1>3, FS_Union
  <2>3. Cardinality(B \cap BarriersAhead(t)) = 0
    BY <1>5, FS_EmptySet
  <2> HIDE DEF B
  <2> QED
    BY <2>1, <2>2, <2>3
<1> QED
  BY <1>1, <1>3, <1>4, <1>6 DEF Bars

LEMMA HasConcat ==
  ASSUME NEW s \in Seq(Blocks), NEW t \in Seq(Blocks), NEW b
  PROVE  Has(s \o t, b) <=> Has(s, b) \/ Has(t, b)
<1> DEFINE u == s \o t
<1>1. /\ Len(u) = Len(s) + Len(t) /\ Len(t) \in Nat /\ Len(s) \in Nat
      /\ \A i \in 1 .. Len(s) : u[i] = s[i]
      /\ \A i \in 1 .. Len(t) : u[Len(s) + i] = t[i]
  BY ConcatProperties
<1> HIDE DEF u
<1>2. ASSUME NEW i \in 1 .. Len(u), u[i] = b
      PROVE  Has(s, b) \/ Has(t, b)
  <2>1. CASE i <= Len(s)
    BY <1>1, <1>2, <2>1 DEF Has
  <2>2. CASE i > Len(s)
    <3>1. i - Len(s) \in 1 .. Len(t) /\ Len(s) + (i - Len(s)) = i
      BY <1>1, <2>2
    <3> QED
      BY <1>1, <1>2, <3>1 DEF Has
  <2> QED
    BY <1>1, <2>1, <2>2
<1>3. ASSUME NEW i \in 1 .. Len(s), s[i] = b
      PROVE  Has(u, b)
  BY <1>1, <1>3 DEF Has
<1>4. ASSUME NEW i \in 1 .. Len(t), t[i] = b
      PROVE  Has(u, b)
  <2>1. Len(s) + i \in 1 .. Len(u)
    BY <1>1
  <2> QED
    BY <1>1, <1>4, <2>1 DEF Has
<1> QED
  BY <1>2, <1>3, <1>4 DEF Has, u

(* Blocks that neither export nor ask for space. *)
Plain(s) == s \in Seq(Blocks) /\ ~ Has(s, Request) /\ \A b \in Exporting : ~ Has(s, b)
Same(s, t) == s \in Seq(Blocks) /\ t \in Seq(Blocks) /\ Bars(s) = Bars(t)

LEMMA PlainConcat ==
  ASSUME NEW s, NEW t, Plain(s), Plain(t)
  PROVE  Plain(s \o t)
BY HasConcat, BarsConcat DEF Plain

LEMMA SameConcat ==
  ASSUME NEW s, NEW t, NEW u, NEW v, Same(s, t), Same(u, v)
  PROVE  Same(s \o u, t \o v)
BY BarsConcat DEF Same

(* The program stays in order when blocks are put in front of it. *)
LEMMA PlainThen ==
  ASSUME NEW s, NEW t, Plain(s), InOrder(t)
  PROVE  InOrder(s \o t)
<1> DEFINE u == s \o t
<1>1. /\ u \in Seq(Blocks) /\ Len(u) = Len(s) + Len(t) /\ Len(t) \in Nat /\ Len(s) \in Nat
      /\ \A i \in 1 .. Len(s) : u[i] = s[i]
      /\ \A i \in 1 .. Len(t) : u[Len(s) + i] = t[i]
  BY ConcatProperties DEF Plain, InOrder
<1> HIDE DEF u
<1>2. ASSUME NEW i \in 1 .. Len(u), u[i] \in Exporting \cup {Request}
      PROVE  i - Len(s) \in 1 .. Len(t) /\ u[i] = t[i - Len(s)]
  <2>1. i > Len(s)
    BY <1>1, <1>2 DEF Plain, Has
  <2>2. i - Len(s) \in 1 .. Len(t) /\ Len(s) + (i - Len(s)) = i
    BY <1>1, <2>1
  <2> QED
    BY <1>1, <2>2
<1>3. Trailing(u)
  <2> SUFFICES ASSUME NEW i \in 1 .. Len(u), NEW j \in 1 .. Len(u), u[i] \in Exporting, i < j
               PROVE  u[j] # "Barrier"
    BY DEF Trailing
  <2>1. i - Len(s) \in 1 .. Len(t) /\ u[i] = t[i - Len(s)]
    BY <1>2
  <2>2. /\ j - Len(s) \in 1 .. Len(t) /\ Len(s) + (j - Len(s)) = j
        /\ i - Len(s) < j - Len(s)
    BY <1>1, <2>1
  <2>3. u[j] = t[j - Len(s)]
    BY <1>1, <2>2
  <2> QED
    BY <2>1, <2>2, <2>3 DEF InOrder, Trailing
<1>4. Once(u)
  <2> SUFFICES ASSUME NEW i \in 1 .. Len(u), NEW j \in 1 .. Len(u), u[i] = Request, u[j] = Request
               PROVE  i = j
    BY DEF Once
  <2>1. /\ i - Len(s) \in 1 .. Len(t) /\ t[i - Len(s)] = Request
        /\ j - Len(s) \in 1 .. Len(t) /\ t[j - Len(s)] = Request
    BY <1>2
  <2>2. i - Len(s) = j - Len(s)
    BY <2>1 DEF InOrder, Once
  <2> QED
    BY <1>1, <2>2
<1> QED
  BY <1>1, <1>3, <1>4 DEF InOrder, u

(* Blocks before the exports, among which the request is or is not. *)
Body(s, asks) ==
  /\ s \in Seq(Blocks) /\ Once(s) /\ (Has(s, Request) <=> asks)
  /\ \A b \in Exporting : ~ Has(s, b)
(* Blocks after the last barrier. *)
End(s) == s \in Seq(Blocks) /\ ~ Has(s, "Barrier") /\ ~ Has(s, Request)

LEMMA OnceConcat ==
  ASSUME NEW s \in Seq(Blocks), NEW t \in Seq(Blocks), Once(s), Once(t), ~ Has(s, Request) \/ ~ Has(t, Request)
  PROVE  Once(s \o t)
<1> DEFINE u == s \o t
<1>1. /\ Len(u) = Len(s) + Len(t) /\ Len(t) \in Nat /\ Len(s) \in Nat
      /\ \A i \in 1 .. Len(s) : u[i] = s[i]
      /\ \A i \in 1 .. Len(t) : u[Len(s) + i] = t[i]
  BY ConcatProperties
<1> HIDE DEF u
<1>2. ASSUME NEW i \in 1 .. Len(u), i > Len(s)
      PROVE  i - Len(s) \in 1 .. Len(t) /\ u[i] = t[i - Len(s)]
  <2>1. i - Len(s) \in 1 .. Len(t) /\ Len(s) + (i - Len(s)) = i
    BY <1>1, <1>2
  <2> QED
    BY <1>1, <2>1
<1>3. ASSUME NEW i \in 1 .. Len(u), i <= Len(s)
      PROVE  i \in 1 .. Len(s) /\ u[i] = s[i]
  BY <1>1, <1>3
<1>4. ASSUME NEW i \in 1 .. Len(u), NEW j \in 1 .. Len(u), u[i] = Request, u[j] = Request
      PROVE  i = j
  <2>1. CASE i <= Len(s) /\ j <= Len(s)
    BY <1>3, <1>4, <2>1 DEF Once
  <2>2. CASE i > Len(s) /\ j > Len(s)
    <3>1. i - Len(s) = j - Len(s)
      BY <1>2, <1>4, <2>2 DEF Once
    <3> QED
      BY <1>1, <3>1
  <2>3. ~ (i <= Len(s) /\ j > Len(s))
    BY <1>2, <1>3, <1>4 DEF Has
  <2>4. ~ (j <= Len(s) /\ i > Len(s))
    BY <1>2, <1>3, <1>4 DEF Has
  <2> QED
    BY <1>1, <2>1, <2>2, <2>3, <2>4
<1> QED
  BY <1>4 DEF Once, u

LEMMA PlainOnce ==
  ASSUME NEW s, Plain(s) \/ End(s)
  PROVE  Once(s) /\ s \in Seq(Blocks)
BY DEF Plain, End, Once, Has

LEMMA PlainBody ==
  ASSUME NEW s, NEW t, NEW asks, Plain(s), Body(t, asks)
  PROVE  Body(s \o t, asks)
BY PlainOnce, OnceConcat, HasConcat, BarsConcat DEF Plain, Body

LEMMA BodyPlain ==
  ASSUME NEW s, NEW t, NEW asks, Body(s, asks), Plain(t)
  PROVE  Body(s \o t, asks)
BY PlainOnce, OnceConcat, HasConcat, BarsConcat DEF Plain, Body

LEMMA NotAsking ==
  ASSUME NEW s, ~ Has(s, Request)
  PROVE  Followed(s)
BY DEF Followed, Has

LEMMA FollowedConcat ==
  ASSUME NEW s \in Seq(Blocks), NEW t \in Seq(Blocks), Followed(t), Followed(s) \/ Has(t, "Barrier")
  PROVE  Followed(s \o t)
<1> DEFINE u == s \o t
<1>1. /\ Len(u) = Len(s) + Len(t) /\ Len(t) \in Nat /\ Len(s) \in Nat
      /\ \A i \in 1 .. Len(s) : u[i] = s[i]
      /\ \A i \in 1 .. Len(t) : u[Len(s) + i] = t[i]
  BY ConcatProperties
<1> HIDE DEF u
<1> SUFFICES ASSUME NEW i \in 1 .. Len(u), u[i] = Request
             PROVE  \E j \in 1 .. Len(u) : i < j /\ u[j] = "Barrier"
  BY DEF Followed, u
<1>2. ASSUME NEW j \in 1 .. Len(t), t[j] = "Barrier"
      PROVE  Len(s) + j \in 1 .. Len(u) /\ u[Len(s) + j] = "Barrier"
  BY <1>1, <1>2
<1>3. CASE i <= Len(s)
  <2>1. i \in 1 .. Len(s) /\ s[i] = Request
    BY <1>1, <1>3
  <2>2. CASE Followed(s)
    <3>1. PICK j \in 1 .. Len(s) : i < j /\ s[j] = "Barrier"
      BY <2>1, <2>2 DEF Followed
    <3> QED
      BY <1>1, <3>1
  <2>3. CASE Has(t, "Barrier")
    <3>1. PICK j \in 1 .. Len(t) : t[j] = "Barrier"
      BY <2>3 DEF Has
    <3>2. i < Len(s) + j
      BY <1>1, <1>3
    <3> QED
      BY <1>2, <3>1, <3>2
  <2> QED
    BY <2>2, <2>3
<1>4. CASE i > Len(s)
  <2>1. i - Len(s) \in 1 .. Len(t) /\ Len(s) + (i - Len(s)) = i
    BY <1>1, <1>4
  <2>2. t[i - Len(s)] = Request
    BY <1>1, <2>1
  <2>3. PICK j \in 1 .. Len(t) : i - Len(s) < j /\ t[j] = "Barrier"
    BY <2>1, <2>2 DEF Followed
  <2>4. i < Len(s) + j
    BY <1>1, <2>3
  <2> QED
    BY <1>2, <2>3, <2>4
<1> QED
  BY <1>1, <1>3, <1>4

(* The exports come at the end of a program. *)
LEMMA BodyEnd ==
  ASSUME NEW s, NEW t, NEW asks, Body(s, asks), End(t)
  PROVE  /\ InOrder(s \o t) /\ (Has(s \o t, Request) <=> asks)
         /\ Has(s \o t, "EarlyExit") <=> Has(t, "EarlyExit")
<1> DEFINE u == s \o t
<1>1. /\ s \in Seq(Blocks) /\ t \in Seq(Blocks) /\ Once(s) /\ (Has(s, Request) <=> asks)
      /\ ~ Has(t, "Barrier") /\ ~ Has(t, Request) /\ ~ Has(s, "EarlyExit")
  BY DEF Body, End, Exporting
<1>2. Once(u) /\ (Has(u, Request) <=> asks) /\ (Has(u, "EarlyExit") <=> Has(t, "EarlyExit"))
  BY <1>1, PlainOnce, OnceConcat, HasConcat
<1>3. /\ u \in Seq(Blocks) /\ Len(u) = Len(s) + Len(t) /\ Len(t) \in Nat /\ Len(s) \in Nat
      /\ \A i \in 1 .. Len(s) : u[i] = s[i]
      /\ \A i \in 1 .. Len(t) : u[Len(s) + i] = t[i]
  BY <1>1, ConcatProperties
<1> HIDE DEF u
<1>4. Trailing(u)
  <2> SUFFICES ASSUME NEW i \in 1 .. Len(u), NEW j \in 1 .. Len(u), u[i] \in Exporting, i < j
               PROVE  u[j] # "Barrier"
    BY DEF Trailing
  <2>1. i > Len(s)
    BY <1>3 DEF Body, Has
  <2>2. j - Len(s) \in 1 .. Len(t) /\ Len(s) + (j - Len(s)) = j
    BY <1>3, <2>1
  <2> QED
    BY <1>1, <1>3, <2>2 DEF Has
<1> QED
  BY <1>2, <1>3, <1>4 DEF InOrder, u

-----------------------------------------------------------------------------
(* The programs *)

LEMMA PlainEmpty == Plain(<< >>) /\ << >> \in Seq(Blocks) /\ ~ Has(<< >>, "Barrier")
BY DEF Plain, Has

LEMMA NoBars ==
  ASSUME NEW s \in Seq(Blocks), NEW t \in Seq(Blocks), ~ Has(s, "Barrier"), ~ Has(t, "Barrier")
  PROVE  Same(s, t)
BY BarriersFinite DEF Same

LEMMA SameRefl ==
  ASSUME NEW s \in Seq(Blocks)
  PROVE  Same(s, s)
BY DEF Same

(* Blocks of the first wave alone. *)
LEMMA FirstWaveSame ==
  ASSUME NEW s \in Seq(Blocks), ~ Has(s, "Barrier"), NEW v, NEW w
  PROVE  Same(FirstWave(v, s), FirstWave(w, s))
BY NoBars, PlainEmpty DEF FirstWave

LEMMA FirstWavePlain ==
  ASSUME NEW s, Plain(s), NEW w
  PROVE  Plain(FirstWave(w, s))
BY PlainEmpty DEF FirstWave

LEMMA DistributePlain == Plain(DistributePrimitiveId)
<1>1. Plain(<<"DistribPrimitiveId", "Barrier", "ReadPrimitiveId", "Barrier">>)
  BY DEF Plain, Has, Blocks, Request, Exporting
<1> QED
  BY <1>1, PlainEmpty DEF DistributePrimitiveId

LEMMA PreparePlain == Plain(PrepareSwXfb) /\ ~ Has(PrepareSwXfb, "Barrier")
<1>1. /\ Plain(<<"OrderedCount", "GdsCounters">>)
      /\ ~ Has(<<"OrderedCount", "GdsCounters">>, "Barrier")
  BY DEF Plain, Has, Blocks, Request, Exporting
<1> DEFINE p == <<"InitPrimitivesToWrite", "WaveOrdering", "LimitPrimitives", "ReviseDwordsWritten",
                  "UpdatePrimitiveCounters">>
<1>2. Plain(p) /\ ~ Has(p, "Barrier")
  BY DEF Plain, Has, Blocks, Request, Exporting
<1> QED
  BY <1>1, <1>2 DEF PrepareSwXfb

LEMMA StreamOutPlain ==
  ASSUME NEW v, NEW w
  PROVE  Plain(StreamOut(w)) /\ Same(StreamOut(v), StreamOut(w))
<1>1. Plain(SwXfb(w)) /\ Same(SwXfb(v), SwXfb(w))
  <2> DEFINE c == IF HasGs(sh)
                  THEN <<"InitPrimitiveCounts", "Barrier", "CheckPrimitiveDrawFlag", "AccumPrimitiveCounts", "Barrier",
                         "CompactPrimitiveIndex">>
                  ELSE <<"WriteXfb">>
             e == <<"Barrier", "ExportXfb">>
  <2>1. Plain(c)
    <3>1. Plain(<<"InitPrimitiveCounts", "Barrier", "CheckPrimitiveDrawFlag", "AccumPrimitiveCounts", "Barrier",
                  "CompactPrimitiveIndex">>)
      BY DEF Plain, Has, Blocks, Request, Exporting
    <3>2. Plain(<<"WriteXfb">>)
      BY DEF Plain, Has, Blocks, Request, Exporting
    <3> QED
      BY <3>1, <3>2
  <2>2. Plain(e)
    BY DEF Plain, Has, Blocks, Request, Exporting
  <2>3. Plain(PrepareSwXfb) /\ ~ Has(PrepareSwXfb, "Barrier")
    BY PreparePlain
  <2>4. /\ SwXfb(w) = (c \o FirstWave(w, PrepareSwXfb)) \o e
        /\ SwXfb(v) = (c \o FirstWave(v, PrepareSwXfb)) \o e
    BY DEF SwXfb
  <2> HIDE DEF c, e
  <2>5. Plain(SwXfb(w))
    BY <2>1, <2>2, <2>3, <2>4, FirstWavePlain, PlainConcat
  <2>6. Same(FirstWave(v, PrepareSwXfb), FirstWave(w, PrepareSwXfb)) /\ Same(c, c) /\ Same(e, e)
    BY <2>1, <2>2, <2>3, FirstWaveSame, SameRefl DEF Plain
  <2> QED
    BY <2>4, <2>5, <2>6, SameConcat
<1>2. Plain(PrimitiveStats(w)) /\ Same(PrimitiveStats(v), PrimitiveStats(w))
  <2> DEFINE c == <<"InitStreamCounts", "Barrier", "CheckPrimitiveDrawFlag", "CountPrimitives", "Barrier",
                    "ReadStreamCounts">>
             e == <<"CollectPrimitiveStats">>
             a == IF HasGs(sh) THEN c ELSE << >>
  <2>1. Plain(c) /\ Plain(e) /\ ~ Has(e, "Barrier")
    BY DEF Plain, Has, Blocks, Request, Exporting
  <2>2. \A k : PrimitiveStats(k) = a \o FirstWave(k, e)
    BY DEF PrimitiveStats
  <2> HIDE DEF c, e
  <2>3. Plain(FirstWave(w, e)) /\ Same(FirstWave(v, e), FirstWave(w, e))
    BY <2>1, FirstWavePlain, FirstWaveSame DEF Plain
  <2>4. Plain(a) /\ Same(a, a)
    BY <2>1, PlainEmpty, SameRefl DEF Plain
  <2> HIDE DEF a
  <2> QED
    BY <2>2, <2>3, <2>4, PlainConcat, SameConcat
<1> QED
  BY <1>1, <1>2, PlainEmpty, SameRefl DEF StreamOut

LEMMA EmptyBody == Body(<< >>, FALSE)
BY DEF Body, Once, Has

LEMMA RequestBody ==
  ASSUME NEW v, NEW w
  PROVE  LET r == <<Request>>
         IN Body(FirstWave(w, r), w = 0) /\ Same(FirstWave(v, r), FirstWave(w, r))
<1>1. /\ <<Request>> \in Seq(Blocks) /\ ~ Has(<<Request>>, "Barrier") /\ Has(<<Request>>, Request)
      /\ \A b \in Exporting : ~ Has(<<Request>>, b)
  BY DEF Blocks, Request, Has, Exporting
<1>2. Once(<<Request>>)
  BY DEF Once
<1> QED
  BY <1>1, <1>2, EmptyBody, FirstWaveSame DEF FirstWave, Body

(* What a program has to be like. *)
Proper(p, asks) ==
  /\ InOrder(p) /\ (Has(p, Request) <=> asks)
  /\ IF sh.kind = "culling" THEN Followed(p) ELSE ~ Has(p, "EarlyExit")

LEMMA PassthroughProper ==
  ASSUME sh.kind = "passthrough", NEW v, NEW w
  PROVE  /\ Proper(PassthroughProgram(w), w = 0 /\ ~ PassthroughNoMsg)
         /\ Same(PassthroughProgram(v), PassthroughProgram(w))
<1> DEFINE h == IF sh.messageHazard /\ ~ sh.primitiveId THEN <<"Barrier">> ELSE << >>
           a == DistributePrimitiveId \o h
           f(k) == FirstWave(k, <<Request>>)
           r(k) == IF PassthroughNoMsg THEN << >> ELSE f(k)
           c == <<"CollectVertexExport">>
           e == <<"ExportPrimitive", "ExportVertex">>
<1>1. Plain(h) /\ Plain(c)
  <2>1. Plain(<<"Barrier">>) /\ Plain(<<"CollectVertexExport">>)
    BY DEF Plain, Has, Blocks, Request, Exporting
  <2> QED
    BY <2>1, PlainEmpty
<1>2. End(e) /\ ~ Has(e, "EarlyExit")
  BY DEF End, Has, Blocks, Request
<1>3. \A k : PassthroughProgram(k) = (((a \o r(k)) \o c) \o StreamOut(k)) \o e
  BY DEF PassthroughProgram, Request
<1> HIDE DEF h, c, e
<1>4. Plain(a)
  BY <1>1, DistributePlain, PlainConcat
<1> HIDE DEF a
<1>5. Body(r(w), w = 0 /\ ~ PassthroughNoMsg) /\ Same(r(v), r(w))
  <2>1. Body(<< >>, FALSE) /\ Same(<< >>, << >>)
    BY PlainEmpty, EmptyBody, SameRefl
  <2>2. Body(f(w), w = 0) /\ Same(f(v), f(w))
    BY RequestBody
  <2> HIDE DEF f
  <2>3. CASE PassthroughNoMsg
    <3>1. r(w) = << >> /\ r(v) = << >> /\ ~ (w = 0 /\ ~ PassthroughNoMsg)
      BY <2>3
    <3> HIDE DEF r
    <3> QED
      BY <2>1, <3>1 DEF Body
  <2>4. CASE ~ PassthroughNoMsg
    <3>1. r(w) = f(w) /\ r(v) = f(v) /\ ((w = 0 /\ ~ PassthroughNoMsg) <=> w = 0)
      BY <2>4
    <3> HIDE DEF r
    <3> QED
      BY <2>2, <3>1 DEF Body
  <2> QED
    BY <2>3, <2>4
<1> HIDE DEF r
<1>6. Same(PassthroughProgram(v), PassthroughProgram(w))
  <2>1. Same(a, a) /\ Same(c, c) /\ Same(e, e) /\ Same(StreamOut(v), StreamOut(w))
    BY <1>1, <1>2, <1>4, StreamOutPlain, SameRefl DEF Plain, End
  <2> QED
    BY <1>3, <1>5, <2>1, SameConcat
<1>7. Body(((a \o r(w)) \o c) \o StreamOut(w), w = 0 /\ ~ PassthroughNoMsg)
  BY <1>1, <1>4, <1>5, StreamOutPlain, PlainBody, BodyPlain
<1> QED
  BY <1>2, <1>3, <1>6, <1>7, BodyEnd DEF Proper

LEMMA CullingProper ==
  ASSUME sh.kind = "culling", NEW g, NEW v, NEW w
  PROVE  /\ Proper(CullingProgram(g, w), w = 0)
         /\ Same(CullingProgram(g, v), CullingProgram(g, w))
<1> DEFINE b == <<"Barrier">>
           q == IF RuntimePassthrough(g) THEN << >>
                ELSE <<"InitVertexDrawFlag", "InitVertexCounts", "WriteCullData", "Barrier",
                       "CullPrimitive", "Barrier",
                       "CheckVertexDrawFlag", "AccumVertexCounts", "Barrier",
                       "CompactVertex">>
           f(k) == FirstWave(k, <<Request>>)
           x == IF sh.noEmptySubgroups THEN <<"EarlyExit">> ELSE << >>
           e == <<"CollectVertexExport", "ExportPrimitive", "ExportVertex">>
           a(k) == (DistributePrimitiveId \o StreamOut(k)) \o q
           m(k) == a(k) \o AllocateFirst(k)
<1>1. Plain(b) /\ Has(b, "Barrier")
  BY DEF Plain, Has, Blocks, Request, Exporting
<1>2. Plain(q)
  <2>1. Plain(<<"InitVertexDrawFlag", "InitVertexCounts", "WriteCullData", "Barrier",
                "CullPrimitive", "Barrier",
                "CheckVertexDrawFlag", "AccumVertexCounts", "Barrier",
                "CompactVertex">>)
    BY DEF Plain, Has, Blocks, Request, Exporting
  <2> QED
    BY <2>1, PlainEmpty
<1>3. End(x)
  <2>1. End(<<"EarlyExit">>)
    BY DEF End, Has, Blocks, Request
  <2>2. End(<< >>)
    BY DEF End, Has
  <2> QED
    BY <2>1, <2>2
<1>4. End(e)
  BY DEF End, Has, Blocks, Request
<1>5. \A k : CullingProgram(g, k) = ((a(k) \o AllocateFirst(k)) \o x) \o e
  BY DEF CullingProgram
<1>6. \A k : AllocateFirst(k) = f(k) \o b
  BY DEF AllocateFirst, Request
<1> HIDE DEF b, q, x, e
<1>7. Body(f(w), w = 0) /\ Same(f(v), f(w))
  BY RequestBody
<1> HIDE DEF f
<1>8. Body(AllocateFirst(w), w = 0) /\ Same(AllocateFirst(v), AllocateFirst(w))
  <2>1. Same(b, b)
    BY <1>1, SameRefl DEF Plain
  <2> QED
    BY <1>1, <1>6, <1>7, <2>1, BodyPlain, SameConcat
<1>9. Plain(a(w)) /\ Same(a(v), a(w))
  <2>1. Same(DistributePrimitiveId, DistributePrimitiveId) /\ Same(q, q) /\ Same(StreamOut(v), StreamOut(w))
    BY <1>2, DistributePlain, StreamOutPlain, SameRefl DEF Plain
  <2> QED
    BY <1>2, <2>1, DistributePlain, StreamOutPlain, PlainConcat, SameConcat
<1> HIDE DEF a
<1>10. Same(CullingProgram(g, v), CullingProgram(g, w))
  <2>1. Same(x, x) /\ Same(e, e)
    BY <1>3, <1>4, SameRefl DEF End
  <2> QED
    BY <1>5, <1>8, <1>9, <2>1, SameConcat
<1>11. Body(m(w), w = 0)
  BY <1>8, <1>9, PlainBody
<1>12. End(x \o e) /\ CullingProgram(g, w) = m(w) \o (x \o e)
  <2>1. End(x \o e)
    BY <1>3, <1>4, HasConcat, BarsConcat DEF End
  <2>2. m(w) \in Seq(Blocks) /\ x \in Seq(Blocks) /\ e \in Seq(Blocks)
    BY <1>3, <1>4, <1>11 DEF Body, End
  <2> HIDE DEF m
  <2>3. (m(w) \o x) \o e = m(w) \o (x \o e)
    BY ONLY <2>2, ConcatAssociative
  <2> QED
    BY <1>5, <2>1, <2>3 DEF m
<1>13. Followed(CullingProgram(g, w))
  <2>1. f(w) \in Seq(Blocks) /\ b \in Seq(Blocks) /\ a(w) \in Seq(Blocks) /\ x \o e \in Seq(Blocks)
    BY <1>1, <1>7, <1>9, <1>12 DEF Body, Plain, End
  <2>2. Followed(b) /\ Followed(a(w)) /\ Followed(x \o e)
    BY <1>1, <1>9, <1>12, NotAsking DEF Plain, End
  <2>3. Followed(AllocateFirst(w)) /\ AllocateFirst(w) \in Seq(Blocks)
    BY <1>1, <1>6, <2>1, <2>2, FollowedConcat, BarsConcat
  <2>4. Followed(m(w)) /\ m(w) \in Seq(Blocks)
    BY <2>1, <2>2, <2>3, FollowedConcat, BarsConcat
  <2> HIDE DEF m
  <2> QED
    BY <1>12, <2>1, <2>2, <2>4, FollowedConcat
<1> QED
  BY <1>10, <1>11, <1>12, <1>13, BodyEnd DEF Proper

LEMMA GsProper ==
  ASSUME sh.kind = "gs", NEW v, NEW w
  PROVE  /\ Proper(GsProgram(w), w = 0)
         /\ Same(GsProgram(v), GsProgram(w))
<1> DEFINE l == <<"RunEs", "InitPrimitiveData", "Barrier", "RunGs">>
           a(k) == l \o StreamOut(k)
           f(k) == FirstWave(k, <<Request>>)
           i == <<"InitVertexCounts", "Barrier">>
           u == IF sh.cullingMode THEN <<"CullPrimitive", "Barrier">> ELSE << >>
           d == <<"CheckVertexDrawFlag", "AccumVertexCounts", "Barrier">>
           c == IF sh.compact THEN <<"CompactVertex", "Barrier">> ELSE << >>
           m == ((i \o u) \o d) \o c
           e == <<"CollectVertexExport", "ExportPrimitive", "ExportVertex">>
           t(k) == IF sh.rasterStream = NoStream THEN f(k) ELSE (m \o f(k)) \o e
<1>1. Plain(l) /\ Plain(i) /\ Plain(d)
  BY DEF Plain, Has, Blocks, Request, Exporting
<1>2. Plain(u) /\ Plain(c)
  <2>1. Plain(<<"CullPrimitive", "Barrier">>) /\ Plain(<<"CompactVertex", "Barrier">>)
    BY DEF Plain, Has, Blocks, Request, Exporting
  <2> QED
    BY <2>1, PlainEmpty
<1>3. End(e) /\ ~ Has(e, "EarlyExit")
  BY DEF End, Has, Blocks, Request
<1>4. End(<< >>) /\ ~ Has(<< >>, "EarlyExit")
  BY DEF End, Has
<1>5. \A k : GsProgram(k) = a(k) \o t(k)
  BY DEF GsProgram, Request
<1> HIDE DEF l, i, u, d, c, e
<1>6. Plain(m)
  BY <1>1, <1>2, PlainConcat
<1> HIDE DEF m
<1>7. Body(f(w), w = 0) /\ Same(f(v), f(w))
  BY RequestBody
<1> HIDE DEF f
<1>8. Plain(a(w)) /\ Same(a(v), a(w))
  BY <1>1, StreamOutPlain, PlainConcat, SameConcat, SameRefl DEF Plain
<1> HIDE DEF a
<1>9. Same(t(v), t(w))
  <2>1. Same(m, m) /\ Same(e, e)
    BY <1>3, <1>6, SameRefl DEF Plain, End
  <2>2. Same((m \o f(v)) \o e, (m \o f(w)) \o e)
    BY <1>7, <2>1, SameConcat
  <2> QED
    BY <1>7, <2>2
<1>10. InOrder(t(w)) /\ (Has(t(w), Request) <=> w = 0) /\ ~ Has(t(w), "EarlyExit")
  <2>1. /\ InOrder(f(w) \o << >>) /\ (Has(f(w) \o << >>, Request) <=> w = 0)
        /\ ~ Has(f(w) \o << >>, "EarlyExit")
    BY <1>4, <1>7, BodyEnd
  <2>2. f(w) \o << >> = f(w)
    BY <1>7, ConcatEmptySeq DEF Body
  <2>3. Body(m \o f(w), w = 0)
    BY <1>6, <1>7, PlainBody
  <2>4. /\ InOrder((m \o f(w)) \o e) /\ (Has((m \o f(w)) \o e, Request) <=> w = 0)
        /\ ~ Has((m \o f(w)) \o e, "EarlyExit")
    BY <1>3, <2>3, BodyEnd
  <2>5. CASE sh.rasterStream = NoStream
    <3>1. t(w) = f(w)
      BY <2>5
    <3> QED
      BY <2>1, <2>2, <3>1
  <2>6. CASE sh.rasterStream # NoStream
    <3>1. t(w) = (m \o f(w)) \o e
      BY <2>6
    <3> QED
      BY <2>4, <3>1
  <2> QED
    BY <2>5, <2>6
<1> HIDE DEF t
<1>11. InOrder(a(w) \o t(w))
  BY <1>8, <1>10, PlainThen
<1>12. (Has(a(w) \o t(w), Request) <=> w = 0) /\ ~ Has(a(w) \o t(w), "EarlyExit")
  BY <1>8, <1>10, HasConcat DEF Plain, InOrder, Exporting
<1> QED
  BY <1>5, <1>8, <1>9, <1>11, <1>12, SameConcat DEF Proper

-----------------------------------------------------------------------------
(* Steps *)

LEMMA Max4 ==
  ASSUME NEW a \in Int, NEW b \in Int, NEW c \in Int, NEW d \in Int,
         NEW S, S = {a, b, c, d}
  PROVE  Max(S) \in Int /\ \A y \in S : y <= Max(S)
<1>1. PICK m \in {a, b} : m >= a /\ m >= b
  OBVIOUS
<1>2. PICK n \in {c, d} : n >= c /\ n >= d
  OBVIOUS
<1>3. PICK k \in {m, n} : k >= m /\ k >= n
  <2>1. m \in Int /\ n \in Int
    OBVIOUS
  <2> QED
    BY <2>1
<1>4. k \in S /\ \A y \in S : k >= y
  BY <1>1, <1>2, <1>3
<1>5. Max(S) \in S /\ \A y \in S : Max(S) >= y
  <2>1. Max(S) = CHOOSE z \in S : \A y \in S : z >= y
    BY DEF Max
  <2> QED
    BY <1>4, <2>1
<1> QED
  BY <1>5

(* A subgroup has a first wave. *)
LEMMA FirstWaveRuns ==
  ASSUME sh \in Shaders
  PROVE  /\ \A g \in Groups : <<g, 0>> \in Waves
         /\ \A x \in Waves : x[1] \in Groups /\ x = <<x[1], x[2]>>
<1>1. ASSUME NEW g \in Groups
      PROVE  NumWaves(sh, sh.groups[g]) \in Nat \ {0}
  <2> DEFINE grp == sh.groups[g]
             n == LaunchedThreads(sh, grp)
  <2>1. sh.waveSize \in Nat \ {0} /\ IsSubgroup(sh, grp) /\ (HasGs(sh) => sh.outputVertices \in Nat)
    BY ShadersAssumption DEF Groups, IsShader
  <2>2. n \in Int /\ n >= 1
    <3>1. CASE HasGs(sh)
      <4>1. grp.esVerts \in Nat /\ Len(grp.ops) \in Nat
        BY <2>1, <3>1 DEF IsSubgroup
      <4>2. VertexCount(sh, grp) \in Int /\ PrimCount(sh, grp) \in Int
        BY <2>1, <3>1, <4>1 DEF VertexCount, PrimCount
      <4> DEFINE i == VertexCount(sh, grp)
                 j == PrimCount(sh, grp)
                 k == grp.esVerts
                 S == {1, i, j, k}
      <4>3. n = Max(S)
        <5>1. {1, VertexCount(sh, grp), PrimCount(sh, grp)} \cup {grp.esVerts} = S
          OBVIOUS
        <5> QED
          BY <3>1, <5>1 DEF LaunchedThreads
      <4>4. i \in Int /\ j \in Int /\ k \in Int
        BY <4>1, <4>2
      <4> HIDE DEF i, j, k, n
      <4>5. Max(S) \in Int /\ \A y \in S : y <= Max(S)
        <5>1. S = {1, i, j, k}
          OBVIOUS
        <5> HIDE DEF S
        <5> QED
          BY <4>4, <5>1, Max4
      <4> QED
        BY <4>3, <4>5
    <3>2. CASE ~ HasGs(sh)
      <4>1. VertexCount(sh, grp) \in Int /\ PrimCount(sh, grp) \in Int
        BY <2>1, <3>2 DEF IsSubgroup, VertexCount, PrimCount
      <4> DEFINE i == VertexCount(sh, grp)
                 j == PrimCount(sh, grp)
                 S == {1, 1, i, j}
      <4>2. n = Max(S)
        <5>1. {1, VertexCount(sh, grp), PrimCount(sh, grp)} \cup {} = S
          OBVIOUS
        <5> QED
          BY <3>2, <5>1 DEF LaunchedThreads
      <4> HIDE DEF i, j, n
      <4>3. Max(S) \in Int /\ \A y \in S : y <= Max(S)
        <5>1. S = {1, 1, i, j} /\ i \in Int /\ j \in Int
          BY <4>1 DEF i, j
        <5> HIDE DEF S
        <5> QED
          BY <5>1, Max4
      <4> QED
        BY <4>2, <4>3
    <3> QED
      BY <3>1, <3>2
  <2> HIDE DEF n, grp
  <2>3. NumWaves(sh, grp) = (n + sh.waveSize - 1) \div sh.waveSize
    BY DEF NumWaves, n
  <2>4. (n + sh.waveSize - 1) \div sh.waveSize \in Nat \ {0}
    <3>1. \A k \in Int, z \in Nat \ {0} : k >= 1 => (k + z - 1) \div z \in Nat \ {0}
      OBVIOUS
    <3> QED
      BY <2>1, <2>2, <3>1
  <2> QED
    BY <2>3, <2>4 DEF grp
<1>2. ASSUME NEW g \in Groups
      PROVE  <<g, 0>> \in Waves
  <2>1. 0 \in 0 .. NumWaves(sh, sh.groups[g]) - 1
    BY <1>1
  <2> QED
    BY <2>1 DEF Waves
<1>3. ASSUME NEW x \in Waves
      PROVE  x[1] \in Groups /\ x = <<x[1], x[2]>>
  BY DEF Waves
<1> QED
  BY <1>2, <1>3

(* What a step of a wave does to the program, the request and the exports. *)
OnlyGroup(old, new, g) == DOMAIN new = DOMAIN old /\ \A h \in DOMAIN old : h # g => new[h] = old[h]
Executed(x) == todo' = [todo EXCEPT ![x] = Tail(@)]
Moves(x) ==
  /\ sh' = sh /\ ~ Ended(x) /\ Head(todo[x]) # "Barrier"
  /\ \/ Executed(x)
     \/ Head(todo[x]) # Request /\ todo' = [todo EXCEPT ![x] = @]
     \/ Head(todo[x]) = "EarlyExit" /\ todo' = [todo EXCEPT ![x] = << >>]
  /\ IF Head(todo[x]) = Request THEN \E r : requests' = [requests EXCEPT ![x[1]] = Append(@, r)]
     ELSE requests' = requests
  /\ OnlyGroup(prims, prims', x[1]) /\ OnlyGroup(verts, verts', x[1])
  /\ Head(todo[x]) \notin Exporting => UNCHANGED <<prims, verts>>

LEMMA PlainMoves ==
  ASSUME NEW x, NEW b, At(x, b), Advance(x), UNCHANGED exports, b \notin Exporting \cup {Request, "Barrier"}
  PROVE  Moves(x)
BY DEF At, Advance, Moves, Executed, OnlyGroup, exports

LEMMA StepMoves ==
  ASSUME NEW x, Step(x)
  PROVE  Moves(x)
<1> DEFINE Quietly(b) == At(x, b) /\ Advance(x) /\ UNCHANGED exports
<1>1. CASE DistribPrimitiveId(x)
  <2>1. Quietly("DistribPrimitiveId")
    BY <1>1 DEF DistribPrimitiveId
  <2> QED
    BY <2>1, PlainMoves DEF Exporting, Request
<1>2. CASE ReadPrimitiveId(x)
  <2>1. Quietly("ReadPrimitiveId")
    BY <1>2 DEF ReadPrimitiveId
  <2> QED
    BY <2>1, PlainMoves DEF Exporting, Request
<1>3. CASE InitVertexDrawFlag(x)
  <2>1. Quietly("InitVertexDrawFlag")
    BY <1>3 DEF InitVertexDrawFlag
  <2> QED
    BY <2>1, PlainMoves DEF Exporting, Request
<1>4. CASE InitVertexCounts(x)
  <2>1. Quietly("InitVertexCounts")
    BY <1>4 DEF InitVertexCounts
  <2> QED
    BY <2>1, PlainMoves DEF Exporting, Request
<1>5. CASE WriteCullData(x)
  <2>1. Quietly("WriteCullData")
    BY <1>5 DEF WriteCullData
  <2> QED
    BY <2>1, PlainMoves DEF Exporting, Request
<1>6. CASE CullPrimitive(x)
  <2>1. Quietly("CullPrimitive")
    BY <1>6 DEF CullPrimitive
  <2> QED
    BY <2>1, PlainMoves DEF Exporting, Request
<1>7. CASE CullPrimitiveWithGs(x)
  <2>1. Quietly("CullPrimitive")
    BY <1>7 DEF CullPrimitiveWithGs
  <2> QED
    BY <2>1, PlainMoves DEF Exporting, Request
<1>8. CASE CheckVertexDrawFlag(x)
  <2>1. Quietly("CheckVertexDrawFlag")
    BY <1>8 DEF CheckVertexDrawFlag
  <2> QED
    BY <2>1, PlainMoves DEF Exporting, Request
<1>9. CASE CheckVertexDrawFlagWithGs(x)
  <2>1. Quietly("CheckVertexDrawFlag")
    BY <1>9 DEF CheckVertexDrawFlagWithGs
  <2> QED
    BY <2>1, PlainMoves DEF Exporting, Request
<1>10. CASE AccumVertexCounts(x)
  <2>1. Quietly("AccumVertexCounts")
    BY <1>10 DEF AccumVertexCounts
  <2> QED
    BY <2>1, PlainMoves DEF Exporting, Request
<1>11. CASE CompactVertex(x)
  <2>1. Quietly("CompactVertex")
    BY <1>11 DEF CompactVertex
  <2> QED
    BY <2>1, PlainMoves DEF Exporting, Request
<1>12. CASE CompactVertexWithGs(x)
  <2>1. Quietly("CompactVertex")
    BY <1>12 DEF CompactVertexWithGs
  <2> QED
    BY <2>1, PlainMoves DEF Exporting, Request
<1>13. CASE RunEs(x)
  <2>1. Quietly("RunEs")
    BY <1>13 DEF RunEs
  <2> QED
    BY <2>1, PlainMoves DEF Exporting, Request
<1>14. CASE InitPrimitiveData(x)
  <2>1. Quietly("InitPrimitiveData")
    BY <1>14 DEF InitPrimitiveData
  <2> QED
    BY <2>1, PlainMoves DEF Exporting, Request
<1>15. CASE RunGs(x)
  <2>1. Quietly("RunGs")
    BY <1>15 DEF RunGs
  <2> QED
    BY <2>1, PlainMoves DEF Exporting, Request
<1>16. CASE CollectVertexExport(x)
  <2>1. Quietly("CollectVertexExport")
    BY <1>16 DEF CollectVertexExport
  <2> QED
    BY <2>1, PlainMoves DEF Exporting, Request
<1>17. CASE CollectVertexExportWithGs(x)
  <2>1. Quietly("CollectVertexExport")
    BY <1>17 DEF CollectVertexExportWithGs
  <2> QED
    BY <2>1, PlainMoves DEF Exporting, Request
<1>18. CASE WriteXfb(x)
  <2>1. Quietly("WriteXfb")
    BY <1>18 DEF WriteXfb
  <2> QED
    BY <2>1, PlainMoves DEF Exporting, Request
<1>19. CASE InitPrimitiveCounts(x)
  <2>1. Quietly("InitPrimitiveCounts")
    BY <1>19 DEF InitPrimitiveCounts
  <2> QED
    BY <2>1, PlainMoves DEF Exporting, Request
<1>20. CASE InitStreamCounts(x)
  <2>1. Quietly("InitStreamCounts")
    BY <1>20 DEF InitStreamCounts
  <2> QED
    BY <2>1, PlainMoves DEF Exporting, Request
<1>21. CASE CheckPrimitiveDrawFlag(x)
  <2>1. Quietly("CheckPrimitiveDrawFlag")
    BY <1>21 DEF CheckPrimitiveDrawFlag
  <2> QED
    BY <2>1, PlainMoves DEF Exporting, Request
<1>22. CASE AccumPrimitiveCounts(x)
  <2>1. Quietly("AccumPrimitiveCounts")
    BY <1>22 DEF AccumPrimitiveCounts
  <2> QED
    BY <2>1, PlainMoves DEF Exporting, Request
<1>23. CASE CountPrimitives(x)
  <2>1. Quietly("CountPrimitives")
    BY <1>23 DEF CountPrimitives
  <2> QED
    BY <2>1, PlainMoves DEF Exporting, Request
<1>24. CASE ReadStreamCounts(x)
  <2>1. Quietly("ReadStreamCounts")
    BY <1>24 DEF ReadStreamCounts
  <2> QED
    BY <2>1, PlainMoves DEF Exporting, Request
<1>25. CASE CompactPrimitiveIndex(x)
  <2>1. Quietly("CompactPrimitiveIndex")
    BY <1>25 DEF CompactPrimitiveIndex
  <2> QED
    BY <2>1, PlainMoves DEF Exporting, Request
<1>26. CASE OrderedCount(x)
  <2>1. Quietly("OrderedCount")
    BY <1>26 DEF OrderedCount
  <2> QED
    BY <2>1, PlainMoves DEF Exporting, Request
<1>27. CASE GdsCounters(x)
  <2>1. Quietly("GdsCounters")
    BY <1>27 DEF GdsCounters
  <2> QED
    BY <2>1, PlainMoves DEF Exporting, Request
<1>28. CASE InitPrimitivesToWrite(x)
  <2>1. Quietly("InitPrimitivesToWrite")
    BY <1>28 DEF InitPrimitivesToWrite
  <2> QED
    BY <2>1, PlainMoves DEF Exporting, Request
<1>29. CASE LimitPrimitives(x)
  <2>1. Quietly("LimitPrimitives")
    BY <1>29 DEF LimitPrimitives
  <2> QED
    BY <2>1, PlainMoves DEF Exporting, Request
<1>30. CASE ReviseDwordsWritten(x)
  <2>1. Quietly("ReviseDwordsWritten")
    BY <1>30 DEF ReviseDwordsWritten
  <2> QED
    BY <2>1, PlainMoves DEF Exporting, Request
<1>31. CASE UpdatePrimitiveCounters(x)
  <2>1. Quietly("UpdatePrimitiveCounters")
    BY <1>31 DEF UpdatePrimitiveCounters
  <2> QED
    BY <2>1, PlainMoves DEF Exporting, Request
<1>32. CASE ExportXfb(x)
  <2>1. Quietly("ExportXfb")
    BY <1>32 DEF ExportXfb
  <2> QED
    BY <2>1, PlainMoves DEF Exporting, Request
<1>33. CASE CollectPrimitiveStats(x)
  <2>1. Quietly("CollectPrimitiveStats")
    BY <1>33 DEF CollectPrimitiveStats
  <2> QED
    BY <2>1, PlainMoves DEF Exporting, Request
<1>34. CASE WaveOrdering(x)
  <2>1. At(x, "WaveOrdering") /\ UNCHANGED <<sh, exports>> /\ (Executed(x) \/ todo' = [todo EXCEPT ![x] = @])
    <3>1. PICK b : /\ At(x, "WaveOrdering") /\ UNCHANGED <<sh, ldsStart>> /\ UNCHANGED <<buffers, exports>>
                   /\ todo' = [todo EXCEPT ![x] = IF DOMAIN ((b :> control.dwords[b]) @@ reg[x].written) = Buffers
                                                   THEN Tail(@) ELSE @]
      BY <1>34 DEF WaveOrdering
    <3> QED
      BY <3>1 DEF Executed
  <2> QED
    BY <2>1 DEF At, Moves, OnlyGroup, Exporting, Request, exports
<1>35. CASE SendGsAllocReq(x)
  BY <1>35 DEF SendGsAllocReq, At, Advance, Moves, Executed, OnlyGroup, Exporting, Request
<1>36. CASE EarlyExit(x)
  <2>1. /\ At(x, "EarlyExit") /\ sh' = sh /\ requests' = requests
        /\ (Executed(x) \/ todo' = [todo EXCEPT ![x] = << >>])
    BY <1>36 DEF EarlyExit, Executed
  <2>2. OnlyGroup(prims, prims', x[1]) /\ OnlyGroup(verts, verts', x[1])
    BY <1>36 DEF EarlyExit, OnlyGroup
  <2> QED
    BY <2>1, <2>2 DEF At, Moves, Exporting, Request
<1>37. CASE ExportPrimitive(x)
  <2>1. /\ At(x, "ExportPrimitive") /\ Advance(x) /\ requests' = requests
        /\ OnlyGroup(prims, prims', x[1]) /\ OnlyGroup(verts, verts', x[1])
    BY <1>37 DEF ExportPrimitive, OnlyGroup
  <2> QED
    BY <2>1 DEF At, Advance, Moves, Executed, Exporting, Request
<1>38. CASE ExportPrimitiveWithGs(x)
  <2>1. /\ At(x, "ExportPrimitive") /\ Advance(x) /\ requests' = requests
        /\ OnlyGroup(prims, prims', x[1]) /\ OnlyGroup(verts, verts', x[1])
    BY <1>38 DEF ExportPrimitiveWithGs, OnlyGroup
  <2> QED
    BY <2>1 DEF At, Advance, Moves, Executed, Exporting, Request
<1>39. CASE ExportVertex(x)
  <2>1. /\ At(x, "ExportVertex") /\ Advance(x) /\ requests' = requests
        /\ OnlyGroup(prims, prims', x[1]) /\ OnlyGroup(verts, verts', x[1])
    BY <1>39 DEF ExportVertex, OnlyGroup
  <2> QED
    BY <2>1 DEF At, Advance, Moves, Executed, Exporting, Request
<1> QED
  BY <1>1, <1>2, <1>3, <1>4, <1>5, <1>6, <1>7, <1>8, <1>9, <1>10, <1>11, <1>12, <1>13, <1>14,
     <1>15, <1>16, <1>17, <1>18, <1>19, <1>20, <1>21, <1>22, <1>23, <1>24, <1>25, <1>26, <1>27,
     <1>28, <1>29, <1>30, <1>31, <1>32, <1>33, <1>34, <1>35, <1>36, <1>37, <1>38, <1>39 DEF Step

LEMMA ProgramProper ==
  ASSUME sh \in Shaders, NEW x \in Waves, NEW y \in Waves, x[1] = y[1]
  PROVE  /\ Proper(Program(x), x[2] = 0 /\ ~ PassthroughNoMsg)
         /\ Same(Program(x), Program(y))
<1>1. sh.kind \in {"passthrough", "culling", "gs"}
  BY ShadersAssumption DEF IsShader
<1>2. CASE sh.kind = "passthrough"
  <2>1. Program(x) = PassthroughProgram(x[2]) /\ Program(y) = PassthroughProgram(y[2])
    BY <1>2 DEF Program
  <2> QED
    BY <1>2, <2>1, PassthroughProper
<1>3. CASE sh.kind = "culling"
  <2>1. Program(x) = CullingProgram(x[1], x[2]) /\ Program(y) = CullingProgram(x[1], y[2])
    BY <1>3 DEF Program
  <2>2. ~ PassthroughNoMsg
    BY <1>3 DEF PassthroughNoMsg
  <2>3. Proper(CullingProgram(x[1], x[2]), x[2] = 0) /\ Same(CullingProgram(x[1], x[2]), CullingProgram(x[1], y[2]))
    BY <1>3, CullingProper
  <2> QED
    BY <2>1, <2>2, <2>3 DEF Proper
<1>4. CASE sh.kind = "gs"
  <2>1. Program(x) = GsProgram(x[2]) /\ Program(y) = GsProgram(y[2])
    BY <1>4 DEF Program
  <2>2. ~ PassthroughNoMsg
    BY <1>4 DEF PassthroughNoMsg
  <2>3. Proper(GsProgram(x[2]), x[2] = 0) /\ Same(GsProgram(x[2]), GsProgram(y[2]))
    BY <1>4, GsProper
  <2> QED
    BY <2>1, <2>2, <2>3 DEF Proper
<1> QED
  BY <1>1, <1>2, <1>3, <1>4

(* The rest of a program after a block. *)
LEMMA TailOrder ==
  ASSUME NEW s, InOrder(s), s # << >>
  PROVE  /\ InOrder(Tail(s))
         /\ \A b : Has(Tail(s), b) => Has(s, b)
         /\ \A b : Head(s) # b /\ Has(s, b) => Has(Tail(s), b)
         /\ Head(s) = Request => Has(s, Request) /\ ~ Has(Tail(s), Request)
         /\ Head(s) = "EarlyExit" => Has(s, "EarlyExit")
         /\ Head(s) \in Exporting => Bars(s) = 0
         /\ Followed(s) => Followed(Tail(s))
<1> DEFINE t == Tail(s)
<1>1. /\ s \in Seq(Blocks) /\ t \in Seq(Blocks) /\ Len(t) = Len(s) - 1 /\ Len(s) \in Nat \ {0} /\ Head(s) = s[1]
      /\ \A i \in 1 .. Len(t) : t[i] = s[i + 1]
  BY HeadTailProperties DEF InOrder
<1> HIDE DEF t
<1>2. ASSUME NEW i \in 1 .. Len(t)
      PROVE  i + 1 \in 1 .. Len(s) /\ t[i] = s[i + 1]
  BY <1>1
<1>3. ASSUME NEW i \in 1 .. Len(s), i # 1
      PROVE  i - 1 \in 1 .. Len(t) /\ t[i - 1] = s[i]
  <2>1. i - 1 \in 1 .. Len(t) /\ (i - 1) + 1 = i
    BY <1>1, <1>3
  <2> QED
    BY <1>1, <2>1
<1>4. Trailing(t) /\ Once(t)
  <2>1. ASSUME NEW i \in 1 .. Len(t), NEW j \in 1 .. Len(t), t[i] \in Exporting, i < j
        PROVE  t[j] # "Barrier"
    <3>1. /\ i + 1 \in 1 .. Len(s) /\ t[i] = s[i + 1] /\ i + 1 < j + 1
          /\ j + 1 \in 1 .. Len(s) /\ t[j] = s[j + 1]
      BY <1>2, <2>1
    <3> QED
      BY <2>1, <3>1 DEF InOrder, Trailing
  <2>2. ASSUME NEW i \in 1 .. Len(t), NEW j \in 1 .. Len(t), t[i] = Request, t[j] = Request
        PROVE  i = j
    <3>1. /\ i + 1 \in 1 .. Len(s) /\ t[i] = s[i + 1]
          /\ j + 1 \in 1 .. Len(s) /\ t[j] = s[j + 1]
      BY <1>2
    <3>2. i + 1 = j + 1
      BY <2>2, <3>1 DEF InOrder, Once
    <3> QED
      BY <3>2
  <2> QED
    BY <2>1, <2>2 DEF Trailing, Once
<1>5. \A b : Has(t, b) => Has(s, b)
  BY <1>2 DEF Has
<1>6. \A b : Head(s) # b /\ Has(s, b) => Has(t, b)
  BY <1>1, <1>3 DEF Has
<1>7. Has(s, Head(s))
  BY <1>1 DEF Has
<1>8. Head(s) = Request => ~ Has(t, Request)
  <2> SUFFICES ASSUME s[1] = Request, NEW i \in 1 .. Len(t), t[i] = Request
               PROVE  FALSE
    BY <1>1 DEF Has
  <2>1. 1 \in 1 .. Len(s) /\ i + 1 \in 1 .. Len(s) /\ s[i + 1] = Request
    BY <1>1, <1>2
  <2>2. 1 = i + 1
    BY <2>1 DEF InOrder, Once
  <2> QED
    BY <2>2
<1>9. Head(s) \in Exporting => Bars(s) = 0
  <2>1. ASSUME Head(s) \in Exporting, NEW i \in 1 .. Len(s)
        PROVE  s[i] # "Barrier"
    <3>1. CASE i = 1
      BY <1>1, <2>1, <3>1 DEF Exporting
    <3>2. CASE i # 1
      <4>1. 1 \in 1 .. Len(s) /\ 1 < i
        BY <1>1, <3>2
      <4> QED
        BY <1>1, <2>1, <4>1 DEF InOrder, Trailing
    <3> QED
      BY <3>1, <3>2
  <2> QED
    BY <1>1, <2>1, BarriersFinite DEF Has
<1>10. ASSUME Followed(s), NEW i \in 1 .. Len(t), t[i] = Request
       PROVE  \E j \in 1 .. Len(t) : i < j /\ t[j] = "Barrier"
  <2>1. PICK j \in 1 .. Len(s) : i + 1 < j /\ s[j] = "Barrier"
    BY <1>2, <1>10 DEF Followed
  <2>2. j # 1 /\ i < j - 1
    BY <2>1
  <2> QED
    BY <1>3, <2>1, <2>2
<1> QED
  BY <1>1, <1>4, <1>5, <1>6, <1>7, <1>8, <1>9, <1>10 DEF InOrder, Followed, t

-----------------------------------------------------------------------------
(* The invariant holds *)

LEMMA InitIInv == Init => IInv
<1> SUFFICES ASSUME Init
             PROVE  IInv
  OBVIOUS
<1>1. sh \in Shaders /\ DOMAIN todo = Waves /\ \A x \in Waves : todo[x] = Program(x)
  BY DEF Init
<1>2. /\ DOMAIN requests = Groups /\ \A g \in Groups : requests[g] = << >>
      /\ DOMAIN prims = Groups /\ \A g \in Groups : prims[g] = NoCells
      /\ DOMAIN verts = Groups /\ \A g \in Groups : verts[g] = NoCells
  BY DEF Init
<1>3. \A x, y \in Waves : x[1] = y[1] =>
        Proper(todo[x], x[2] = 0 /\ ~ PassthroughNoMsg) /\ Same(todo[x], todo[y])
  BY <1>1, ProgramProper
<1>4. ProgramInv
  BY <1>1, <1>3 DEF ProgramInv, Proper
<1>5. StepInv
  BY <1>3 DEF StepInv, Same
<1>6. RequestInv
  <2> SUFFICES ASSUME NEW g \in Groups, ~ PassthroughNoMsg
               PROVE  Has(todo[<<g, 0>>], Request)
    BY <1>2 DEF RequestInv
  <2>1. <<g, 0>> \in Waves /\ <<g, 0>>[2] = 0
    BY <1>1, FirstWaveRuns
  <2> QED
    BY <1>3, <2>1 DEF Proper
<1>7. ExportInv
  BY <1>1, <1>2, FirstWaveRuns DEF ExportInv, NoCells
<1> QED
  BY <1>4, <1>5, <1>6, <1>7 DEF IInv

(* Without the shader nothing about the waves changes. *)
LEMMA SameShader ==
  ASSUME sh' = sh
  PROVE  Groups' = Groups /\ Waves' = Waves /\ PassthroughNoMsg' = PassthroughNoMsg
BY DEF Groups, Waves, PassthroughNoMsg

(* A step of a wave. *)
LEMMA WaveStep ==
  ASSUME IInv, NEW x \in Waves, Moves(x)
  PROVE  IInv'
<1> DEFINE s == todo[x]
           n == todo'[x]
           g == x[1]
<1>1. sh' = sh /\ sh \in Shaders /\ DOMAIN todo = Waves
  BY DEF IInv, ProgramInv, Moves
<1>2. Groups' = Groups /\ Waves' = Waves /\ PassthroughNoMsg' = PassthroughNoMsg
  BY <1>1, SameShader
<1>3. InOrder(s) /\ s # << >> /\ s \in Seq(Blocks) /\ Head(s) # "Barrier"
  BY DEF IInv, ProgramInv, InOrder, Moves, Ended
<1>4. g \in Groups /\ <<g, 0>> \in Waves /\ \A y \in Waves : y[1] \in Groups /\ y = <<y[1], y[2]>>
  BY <1>1, FirstWaveRuns
<1>5. DOMAIN todo' = Waves /\ \A y \in Waves : y # x => todo'[y] = todo[y]
  BY <1>1 DEF Moves, Executed
<1>6. \/ n = Tail(s)
      \/ Head(s) # Request /\ n = s
      \/ Head(s) = "EarlyExit" /\ n = << >>
  BY <1>1 DEF Moves, Executed
<1>7. Head(s) = Request => n = Tail(s)
  BY <1>6 DEF Request
<1>8. Head(s) = "EarlyExit" => sh.kind = "culling" /\ Bars(s) = 0 /\ ~ Has(s, Request)
  <2> SUFFICES ASSUME Head(s) = "EarlyExit"
               PROVE  sh.kind = "culling" /\ Bars(s) = 0 /\ ~ Has(s, Request)
    OBVIOUS
  <2>1. Has(s, "EarlyExit") /\ Bars(s) = 0
    BY <1>3, TailOrder DEF Exporting
  <2>2. sh.kind = "culling" /\ Followed(s)
    BY <2>1 DEF IInv, ProgramInv
  <2>3. ~ Has(s, "Barrier")
    BY <1>3, <2>1, BarriersFinite
  <2> QED
    BY <2>1, <2>2, <2>3 DEF Followed, Has
<1>9. /\ InOrder(n) /\ Bars(n) = Bars(s)
      /\ Has(n, Request) <=> Has(s, Request) /\ Head(s) # Request
      /\ Has(n, "EarlyExit") => Has(s, "EarlyExit")
      /\ Followed(s) => Followed(n)
  <2> HIDE DEF n, s
  <2>1. CASE n = Tail(s)
    BY <1>3, <2>1, TailOrder, BarsTail
  <2>2. CASE Head(s) # Request /\ n = s
    BY <1>3, <2>2
  <2>3. CASE Head(s) = "EarlyExit" /\ n = << >>
    <3>1. << >> \in Seq(Blocks) /\ InOrder(<< >>) /\ \A b : ~ Has(<< >>, b)
      BY DEF InOrder, Trailing, Once, Has
    <3>2. Bars(<< >>) = 0
      BY <3>1, BarriersFinite
    <3> QED
      BY <1>8, <2>3, <3>1, <3>2, NotAsking
  <2> QED
    BY <1>6, <2>1, <2>2, <2>3
<1>10. ProgramInv'
  <2>1. ASSUME NEW y \in Waves
        PROVE  /\ InOrder(todo'[y])
               /\ Has(todo'[y], Request) => y[2] = 0 /\ ~ PassthroughNoMsg
               /\ IF sh.kind = "culling" THEN Followed(todo'[y]) ELSE ~ Has(todo'[y], "EarlyExit")
    <3>1. CASE y = x
      <4> HIDE DEF n
      <4>1. n = todo'[y] /\ s = todo[y]
        BY <3>1 DEF n
      <4> QED
        BY <1>9, <4>1 DEF IInv, ProgramInv
    <3>2. CASE y # x
      BY <1>5, <3>2 DEF IInv, ProgramInv
    <3> QED
      BY <3>1, <3>2
  <2> QED
    BY <1>1, <1>2, <1>5, <2>1 DEF ProgramInv
<1>11. \A y \in Waves : Bars(todo'[y]) = Bars(todo[y])
  BY <1>5, <1>9
<1>12. StepInv'
  BY <1>2, <1>11 DEF IInv, StepInv
<1>13. RequestInv'
  <2>1. DOMAIN requests' = Groups
    BY DEF IInv, RequestInv, Moves
  <2>2. ASSUME NEW h \in Groups
        PROVE  IF PassthroughNoMsg \/ Has(todo'[<<h, 0>>], Request) THEN requests'[h] = << >>
               ELSE Len(requests'[h]) = 1
    <3>1. IF PassthroughNoMsg \/ Has(todo[<<h, 0>>], Request) THEN requests[h] = << >>
          ELSE Len(requests[h]) = 1
      BY DEF IInv, RequestInv
    <3>2. CASE Head(s) # Request
      <4>1. requests' = requests
        BY <3>2 DEF Moves
      <4>2. Has(todo'[<<h, 0>>], Request) <=> Has(todo[<<h, 0>>], Request)
        <5>1. <<h, 0>> \in Waves
          BY <1>1, FirstWaveRuns
        <5> QED
          BY <1>5, <1>9, <3>2, <5>1
      <4> QED
        BY <3>1, <4>1, <4>2
    <3>3. CASE Head(s) = Request
      <4>1. Has(s, Request)
        BY <1>3, <3>3, TailOrder
      <4>2. x[2] = 0 /\ ~ PassthroughNoMsg
        BY <4>1 DEF IInv, ProgramInv
      <4>3. x = <<g, 0>>
        BY <1>4, <4>2
      <4>4. PICK r : requests' = [requests EXCEPT ![g] = Append(@, r)]
        BY <3>3 DEF Moves
      <4>5. CASE h = g
        <5>1. requests[h] = << >>
          BY <3>1, <4>1, <4>3, <4>5
        <5>2. requests'[h] = <<r>>
          BY <4>4, <4>5, <5>1 DEF IInv, RequestInv
        <5>3. ~ Has(todo'[<<h, 0>>], Request)
          BY <1>9, <3>3, <4>3, <4>5
        <5> QED
          BY <4>2, <5>2, <5>3
      <4>6. CASE h # g
        <5>1. <<h, 0>> \in Waves /\ <<h, 0>> # x
          BY <1>1, <4>3, <4>6, FirstWaveRuns
        <5>2. requests'[h] = requests[h] /\ todo'[<<h, 0>>] = todo[<<h, 0>>]
          BY <1>5, <4>4, <4>6, <5>1 DEF IInv, RequestInv
        <5> QED
          BY <3>1, <5>2
      <4> QED
        BY <4>5, <4>6
    <3> QED
      BY <3>2, <3>3
  <2> QED
    BY <1>2, <2>1, <2>2 DEF RequestInv
<1>14. ExportInv'
  <2>1. DOMAIN prims' = Groups /\ DOMAIN verts' = Groups
    BY DEF IInv, ExportInv, Moves, OnlyGroup
  <2>2. ASSUME NEW y \in Waves, Bars(todo'[y]) # 0
        PROVE  DOMAIN prims'[y[1]] = {} /\ DOMAIN verts'[y[1]] = {}
    <3>1. Bars(todo[y]) # 0
      BY <1>11, <2>2
    <3>2. DOMAIN prims[y[1]] = {} /\ DOMAIN verts[y[1]] = {} /\ y[1] \in Groups
      BY <1>4, <3>1 DEF IInv, ExportInv
    <3>3. CASE y[1] # g
      BY <3>2, <3>3 DEF IInv, ExportInv, Moves, OnlyGroup
    <3>4. CASE y[1] = g
      <4>1. Bars(s) # 0
        BY <3>1, <3>4 DEF IInv, StepInv
      <4>2. Head(s) \notin Exporting
        BY <1>3, <4>1, TailOrder
      <4> QED
        BY <3>2, <4>2 DEF Moves
    <3> QED
      BY <3>3, <3>4
  <2> QED
    BY <1>2, <2>1, <2>2 DEF ExportInv
<1> QED
  BY <1>10, <1>12, <1>13, <1>14 DEF IInv

(* A barrier: all waves of the subgroup are at it. *)
LEMMA BarrierStep ==
  ASSUME IInv, NEW g \in Groups, Barrier(g)
  PROVE  IInv'
<1> DEFINE running == {x \in Waves : x[1] = g /\ ~ Ended(x)}
<1>1. /\ running # {} /\ \A x \in running : At(x, "Barrier")
      /\ todo' = [x \in Waves |-> IF x \in running THEN Tail(todo[x]) ELSE todo[x]]
      /\ UNCHANGED <<sh, requests, prims, verts>>
  BY DEF Barrier, exports
<1>2. sh \in Shaders /\ \A x \in Waves : InOrder(todo[x]) /\ todo[x] \in Seq(Blocks)
  BY DEF IInv, ProgramInv, InOrder
<1>3. Groups' = Groups /\ Waves' = Waves /\ PassthroughNoMsg' = PassthroughNoMsg
  BY <1>1, SameShader
<1>4. \A y \in Waves : y[1] = g => y \in running
  <2>1. PICK x \in running : TRUE
    BY <1>1
  <2>2. todo[x] # << >> /\ Head(todo[x]) = "Barrier" /\ x \in Waves /\ x[1] = g
    BY <1>1 DEF At, Ended
  <2>3. Has(todo[x], "Barrier")
    <3>1. todo[x] \in Seq(Blocks)
      BY <1>2, <2>2
    <3> QED
      BY <2>2, <3>1 DEF Has
  <2>4. Bars(todo[x]) # 0
    BY <1>2, <2>2, <2>3, BarriersFinite
  <2>5. ASSUME NEW y \in Waves, y[1] = g
        PROVE  todo[y] # << >>
    <3>1. Bars(todo[y]) # 0
      BY <2>2, <2>4, <2>5 DEF IInv, StepInv
    <3>2. Has(todo[y], "Barrier")
      BY <1>2, <3>1, BarriersFinite
    <3> QED
      BY <3>2 DEF Has
  <2> QED
    BY <2>5 DEF Ended
<1>5. ASSUME NEW y \in Waves, y[1] = g
      PROVE  todo'[y] = Tail(todo[y]) /\ todo[y] # << >> /\ Head(todo[y]) = "Barrier"
  BY <1>1, <1>4, <1>5 DEF At, Ended
<1>6. ASSUME NEW y \in Waves, y[1] # g
      PROVE  todo'[y] = todo[y]
  BY <1>1, <1>6
<1> HIDE DEF running
<1>7. ASSUME NEW y \in Waves
      PROVE  /\ InOrder(todo'[y])
             /\ Has(todo'[y], Request) <=> Has(todo[y], Request)
             /\ Has(todo'[y], "EarlyExit") => Has(todo[y], "EarlyExit")
             /\ Followed(todo[y]) => Followed(todo'[y])
             /\ Bars(todo'[y]) = IF y[1] = g THEN Bars(todo[y]) - 1 ELSE Bars(todo[y])
             /\ y[1] = g => Bars(todo[y]) # 0
  <2>1. CASE y[1] # g
    BY <1>2, <1>6, <2>1
  <2>2. CASE y[1] = g
    <3>1. todo'[y] = Tail(todo[y]) /\ todo[y] # << >> /\ Head(todo[y]) = "Barrier" /\ InOrder(todo[y])
      BY <1>2, <1>5, <2>2
    <3>2. Head(todo[y]) # Request
      BY <3>1 DEF Request
    <3>3. Has(todo[y], "Barrier")
      <4>1. todo[y] \in Seq(Blocks)
        BY <1>2
      <4> QED
        BY <3>1, <4>1 DEF Has
    <3>4. Bars(todo[y]) # 0
      BY <1>2, <3>3, BarriersFinite
    <3>5. Bars(Tail(todo[y])) = Bars(todo[y]) - 1
      BY <1>2, <3>1, BarsTail
    <3> QED
      BY <2>2, <3>1, <3>2, <3>4, <3>5, TailOrder
  <2> QED
    BY <2>1, <2>2
<1>8. ProgramInv'
  <2>1. DOMAIN todo' = Waves
    BY <1>1
  <2> QED
    BY <1>1, <1>3, <1>7, <2>1 DEF IInv, ProgramInv
<1>9. StepInv'
  BY <1>3, <1>7 DEF IInv, StepInv
<1>10. RequestInv'
  <2>1. \A h \in Groups : <<h, 0>> \in Waves
    BY <1>2, FirstWaveRuns
  <2> QED
    BY <1>1, <1>3, <1>7, <2>1 DEF IInv, RequestInv
<1>11. ExportInv'
  <2>1. \A y \in Waves : Bars(todo'[y]) # 0 => Bars(todo[y]) # 0
    BY <1>7
  <2> QED
    BY <1>1, <1>3, <2>1 DEF IInv, ExportInv
<1> QED
  BY <1>8, <1>9, <1>10, <1>11 DEF IInv

LEMMA NextIInv == IInv /\ [Next]_vars => IInv'
<1> SUFFICES ASSUME IInv, [Next]_vars
             PROVE  IInv'
  OBVIOUS
<1>1. CASE UNCHANGED vars
  <2>1. UNCHANGED <<sh, todo, requests, prims, verts>>
    BY <1>1 DEF vars
  <2>2. Groups' = Groups /\ Waves' = Waves /\ PassthroughNoMsg' = PassthroughNoMsg
    BY <2>1, SameShader
  <2> QED
    BY <2>1, <2>2 DEF IInv, ProgramInv, StepInv, RequestInv, ExportInv
<1>2. ASSUME NEW x \in Waves, Step(x)
      PROVE  IInv'
  BY <1>2, StepMoves, WaveStep
<1>3. ASSUME NEW g \in Groups, Barrier(g)
      PROVE  IInv'
  BY <1>3, BarrierStep
<1> QED
  BY <1>1, <1>2, <1>3 DEF Next

(* The waves of a subgroup have the same number of barriers ahead, however    *)
(* they interleave and whether or not one of them leaves early, so that no    *)
(* wave waits at a barrier for one that never comes to it; the request for    *)
(* space is either made or ahead, and no barrier is ahead once a subgroup has *)
(* exported anything (NggPrimShader.cpp).                                     *)
THEOREM WavesInductive == Spec => []IInv
<1>1. Init => IInv
  BY InitIInv
<1>2. IInv /\ [Next]_vars => IInv'
  BY NextIInv
<1> QED
  BY <1>1, <1>2, PTL DEF Spec

LEMMA IInvRequestFirst == IInv => RequestFirst
<1> SUFFICES ASSUME IInv, NEW g \in Groups
             PROVE  /\ Len(requests[g]) <= 1
                    /\ GroupEnded(g) => (requests[g] = << >>) = PassthroughNoMsg
                    /\ sh.kind = "culling" /\ (DOMAIN prims[g] # {} \/ DOMAIN verts[g] # {})
                         => requests[g] # << >>
  BY DEF RequestFirst
<1> DEFINE x == <<g, 0>>
<1>1. x \in Waves /\ x[1] = g
  BY FirstWaveRuns DEF IInv, ProgramInv
<1>2. IF PassthroughNoMsg \/ Has(todo[x], Request) THEN requests[g] = << >> ELSE Len(requests[g]) = 1
  BY DEF IInv, RequestInv
<1>3. Len(<< >>) = 0
  OBVIOUS
<1>4. Len(requests[g]) <= 1
  <2> DEFINE l == Len(requests[g])
  <2>1. l = 0 \/ l = 1
    BY <1>2, <1>3, Zenon
  <2> HIDE DEF l
  <2>2. l <= 1
    BY <2>1
  <2> QED
    BY <2>2, Zenon DEF l
<1>5. ASSUME GroupEnded(g)
      PROVE  (requests[g] = << >>) = PassthroughNoMsg
  <2>1. todo[x] = << >>
    BY <1>1, <1>5 DEF GroupEnded, Ended
  <2>2. ~ Has(todo[x], Request)
    BY <2>1 DEF Has
  <2>3. PassthroughNoMsg \in BOOLEAN
    BY DEF PassthroughNoMsg
  <2> QED
    BY <1>2, <1>3, <2>2, <2>3
<1>6. ASSUME sh.kind = "culling", DOMAIN prims[g] # {} \/ DOMAIN verts[g] # {}
      PROVE  requests[g] # << >>
  <2>1. Bars(todo[x]) = 0
    BY <1>1, <1>6 DEF IInv, ExportInv
  <2>2. todo[x] \in Seq(Blocks) /\ Followed(todo[x])
    BY <1>1, <1>6 DEF IInv, ProgramInv, InOrder
  <2>3. ~ Has(todo[x], Request)
    BY <2>1, <2>2, BarriersFinite DEF Followed, Has
  <2>4. ~ PassthroughNoMsg
    BY <1>6 DEF PassthroughNoMsg
  <2> QED
    BY <1>2, <1>3, <2>3, <2>4
<1> QED
  BY <1>4, <1>5, <1>6

(* A subgroup asks the hardware for export space exactly once, and a culling  *)
(* shader exports nothing before (NggPrimShader::buildPrimShader).            *)
THEOREM RequestKept == Spec => []RequestFirst
BY WavesInductive, IInvRequestFirst, PTL
=============================================================================
