-------------------------- MODULE MeshShaderProofs --------------------------
(***************************************************************************)
(* Proofs about MeshShader for any shaders: the waves of a workgroup meet  *)
(* at corresponding barriers, export space is requested once, and every    *)
(* primitive and vertex is exported once with what the API shader wrote.   *)
(***************************************************************************)
EXTENDS MeshShader, FiniteSetTheorems, SequenceTheorems, NaturalsInduction,
  WellFoundedInduction, TLAPS

-----------------------------------------------------------------------------
(* Numbers *)

LEMMA Division ==
  ASSUME NEW n \in Nat, NEW m \in Nat \ {0}
  PROVE  n \div m \in Nat /\ (n \div m) * m <= n /\ n < (n \div m) * m + m
OBVIOUS

LEMMA Multiple ==
  ASSUME NEW k \in Nat, NEW m \in Nat \ {0}
  PROVE  (k * m) \div m = k
OBVIOUS

LEMMA Monotone ==
  ASSUME NEW a \in Nat, NEW b \in Nat, NEW m \in Nat \ {0}, a <= b
  PROVE  a \div m <= b \div m
BY Division

LEMMA Max2 ==
  ASSUME NEW a \in Int, NEW b \in Int
  PROVE  /\ Max({a, b}) \in {a, b}
         /\ a <= Max({a, b}) /\ b <= Max({a, b})
<1>1. \E x \in {a, b} : \A y \in {a, b} : x >= y
  <2>1. CASE a >= b  BY <2>1
  <2>2. CASE ~(a >= b)  BY <2>2
  <2> QED BY <2>1, <2>2
<1> QED
  BY <1>1 DEF Max

LEMMA Aligned ==
  ASSUME NEW n \in Nat, NEW m \in Nat \ {0}
  PROVE  /\ AlignTo(n, m) \in Nat
         /\ AlignTo(n, m) \div m = (n + m - 1) \div m
         /\ AlignTo(n, m) = ((n + m - 1) \div m) * m
         /\ n <= AlignTo(n, m)
         /\ n # 0 => (n + m - 1) \div m >= 1
<1> DEFINE k == (n + m - 1) \div m
<1>1. n + m - 1 \in Nat
  OBVIOUS
<1>2. k \in Nat /\ k * m <= n + m - 1 /\ n + m - 1 < k * m + m
  BY <1>1, Division
<1>3. AlignTo(n, m) = k * m /\ k * m \in Nat
  BY <1>2 DEF AlignTo
<1>4. (k * m) \div m = k
  BY <1>2, Multiple
<1>5. n # 0 => k >= 1
  BY <1>2
<1> HIDE DEF k
<1>6. n <= k * m
  <2>1. k * m \in Nat
    BY <1>2
  <2> QED
    BY <1>2, <2>1
<1>7. AlignTo(n, m) \div m = k
  BY <1>3, <1>4, Zenon
<1> QED
  BY <1>3, <1>5, <1>6, <1>7 DEF k

LEMMA AlignedUp ==
  ASSUME NEW n \in Nat, NEW l \in Nat, NEW m \in Nat \ {0}, n <= l
  PROVE  /\ AlignTo(n, m) <= AlignTo(l, m)
         /\ AlignTo(n, m) \div m <= AlignTo(l, m) \div m
<1> DEFINE k == (n + m - 1) \div m
           j == (l + m - 1) \div m
<1>1. n + m - 1 \in Nat /\ l + m - 1 \in Nat /\ n + m - 1 <= l + m - 1
  OBVIOUS
<1>2. k <= j /\ k \in Nat /\ j \in Nat
  BY <1>1, Monotone, Division
<1>3. AlignTo(n, m) = k * m /\ AlignTo(l, m) = j * m
  BY DEF AlignTo
<1>4. AlignTo(n, m) \div m = k /\ AlignTo(l, m) \div m = j
  BY Aligned
<1> HIDE DEF k, j
<1>5. k * m <= j * m
  BY <1>2
<1> QED
  BY <1>2, <1>3, <1>4, <1>5

(* The workgroup has a wave of the API shader, and with row export no other. *)
LEMMA WaveCounts ==
  ASSUME NEW s, IsShader(s)
  PROVE  /\ NumMeshWaves(s) \in Nat \ {0} /\ NumWaves(s) \in Nat
         /\ NumMeshWaves(s) <= NumWaves(s)
         /\ UsesRowExport(s) => NumWaves(s) = NumMeshWaves(s)
         /\ FlatWorkgroupSize(s) = NumWaves(s) * s.waveSize
         /\ s.threads <= NumMeshWaves(s) * s.waveSize
         /\ ~UsesRowExport(s) => s.vertices <= FlatWorkgroupSize(s) /\ s.primitives <= FlatWorkgroupSize(s)
<1>1. s.waveSize \in Nat \ {0} /\ s.threads \in Nat \ {0} /\ s.vertices \in Nat \ {0} /\ s.primitives \in Nat \ {0}
  BY DEF IsShader
<1>2. NumExportThreads(s) \in Nat /\ s.vertices <= NumExportThreads(s) /\ s.primitives <= NumExportThreads(s)
  <2>1. s.primitives \in Int /\ s.vertices \in Int
    BY <1>1
  <2> QED
    BY <1>1, <2>1, Max2 DEF NumExportThreads
<1>3. PrimAmpFactor(s) \in Nat /\ s.threads <= PrimAmpFactor(s) /\ NumExportThreads(s) <= PrimAmpFactor(s)
  <2>1. s.threads \in Int /\ NumExportThreads(s) \in Int
    BY <1>1, <1>2
  <2> QED
    BY <1>1, <1>2, <2>1, Max2 DEF PrimAmpFactor
<1>4. /\ NumMeshWaves(s) = (s.threads + s.waveSize - 1) \div s.waveSize
      /\ NumMeshWaves(s) >= 1 /\ s.threads <= AlignTo(s.threads, s.waveSize)
      /\ AlignTo(s.threads, s.waveSize) = NumMeshWaves(s) * s.waveSize
  <2>1. AlignTo(s.threads, s.waveSize) \div s.waveSize = (s.threads + s.waveSize - 1) \div s.waveSize
        /\ (s.threads + s.waveSize - 1) \div s.waveSize >= 1
    BY <1>1, Aligned
  <2>2. NumMeshWaves(s) = (s.threads + s.waveSize - 1) \div s.waveSize
    BY <2>1 DEF NumMeshWaves
  <2> QED
    BY <1>1, <2>1, <2>2, Aligned
<1>5. NumMeshWaves(s) \in Nat
  <2>1. s.threads + s.waveSize - 1 \in Nat
    BY <1>1
  <2> QED
    BY <1>1, <1>4, <2>1, Division
<1>6. CASE UsesRowExport(s)
  <2>1. FlatWorkgroupSize(s) = AlignTo(s.threads, s.waveSize)
    BY <1>6 DEF FlatWorkgroupSize
  <2>2. NumWaves(s) = NumMeshWaves(s)
    BY <2>1 DEF NumWaves, NumMeshWaves
  <2> QED
    BY <1>4, <1>5, <1>6, <2>1, <2>2
<1>7. CASE ~UsesRowExport(s)
  <2>1. FlatWorkgroupSize(s) = AlignTo(PrimAmpFactor(s), s.waveSize)
    BY <1>7 DEF FlatWorkgroupSize
  <2>2. NumMeshWaves(s) <= NumWaves(s)
    BY <1>1, <1>3, <2>1, AlignedUp DEF NumWaves, NumMeshWaves
  <2> DEFINE k == (PrimAmpFactor(s) + s.waveSize - 1) \div s.waveSize
  <2>3. NumWaves(s) = k /\ FlatWorkgroupSize(s) = k * s.waveSize /\ PrimAmpFactor(s) <= FlatWorkgroupSize(s)
    BY <1>1, <1>3, <2>1, Aligned DEF NumWaves
  <2>4. k \in Nat
    <3>1. PrimAmpFactor(s) + s.waveSize - 1 \in Nat
      BY <1>1, <1>3
    <3> QED
      BY <1>1, <3>1, Division
  <2>5. FlatWorkgroupSize(s) \in Nat
    BY <1>1, <1>3, <2>1, Aligned
  <2> HIDE DEF k
  <2>6. s.vertices <= FlatWorkgroupSize(s) /\ s.primitives <= FlatWorkgroupSize(s)
    BY <1>1, <1>2, <1>3, <2>3, <2>5
  <2> QED
    BY <1>4, <1>5, <1>7, <2>2, <2>3, <2>4, <2>6
<1> QED
  BY <1>6, <1>7
-----------------------------------------------------------------------------
(* The stages of a workgroup *)

(* The barriers of the trace before an operation, and whether the output     *)
(* counts are set before it.                                                 *)
Before(k) == {i \in DOMAIN sh.ops : i < k /\ sh.ops[i].op = "barrier"}
CountsSet(k) == \E i \in DOMAIN sh.ops : i < k /\ sh.ops[i].op = "outputs"

End == Len(sh.ops) + 1
Entry == {"init", "special"}
Closing == {"counts", "export", "done"}

TypeInv ==
  /\ sh \in Shaders
  /\ pc \in [Waves -> Labels] /\ at \in [Waves -> Nat] /\ toggle \in [Waves -> BOOLEAN]

(* Before the first barrier, if there is one. *)
BeginStage ==
  /\ FirstBarrier
  /\ \A w \in Waves : pc[w] \in Entry \cup {"barrier.begin"} /\ at[w] = 1 /\ toggle[w] = FALSE
  /\ NeedBarrierFlag(sh) /\ pc[0] = "barrier.begin" => flag = 0

(* A wave that runs the API shader, when the workgroup has passed the        *)
(* barriers D and the toggle of a wave that does not wait is b.              *)
MeshBody(w, D, b) ==
  \/ pc[w] \in Entry /\ ~FirstBarrier /\ at[w] = 1 /\ D = Before(1)
  \/ /\ pc[w] \in {"api", "or"} /\ at[w] \in 1 .. End /\ D = Before(at[w])
     /\ NeedBarrierFlag(sh) => toggle[w] = b
     /\ pc[w] = "or" => at[w] \in DOMAIN sh.ops /\ sh.ops[at[w]].op \in {"indices", "culled"}
  \/ /\ pc[w] = "barrier.api" /\ at[w] - 1 \in DOMAIN sh.ops /\ sh.ops[at[w] - 1].op = "barrier"
     /\ D = Before(at[w] - 1)
     /\ NeedBarrierFlag(sh) => toggle[w] = ~b
  \/ /\ pc[w] = "barrier.end" /\ NeedBarrierFlag(sh) /\ at[w] = End /\ D = Before(End)
     /\ toggle[w] = b /\ flag # 0
  \/ pc[w] = "barrier.post" /\ ~NeedBarrierFlag(sh) /\ at[w] = End /\ D = Before(End)

(* A wave the API does not know: it counts the barriers, or follows the      *)
(* toggle of the others.                                                     *)
ExtraBody(w, D, b) ==
  \/ pc[w] \in Entry /\ ~FirstBarrier /\ at[w] = 1 /\ D = Before(1)
  \/ NeedBarrierFlag(sh) /\ pc[w] \in {"extra", "flag"} /\ toggle[w] = b
  \/ NeedBarrierFlag(sh) /\ pc[w] = "barrier.extra" /\ toggle[w] = ~b
  \/ ~NeedBarrierFlag(sh) /\ pc[w] = "extra" /\ at[w] = Cardinality(D) + 1
  \/ /\ ~NeedBarrierFlag(sh) /\ pc[w] = "barrier.extra"
     /\ at[w] = Cardinality(D) + 2 /\ Cardinality(D) < sh.staticBarriers
  \/ ~NeedBarrierFlag(sh) /\ pc[w] = "barrier.post" /\ Cardinality(D) >= sh.staticBarriers

FlagOf(b) == (b = TRUE => flag = 3) /\ (b = FALSE => flag = 2)

BodyStage(D, b) ==
  /\ \A w \in Waves : (MeshWave(w) => MeshBody(w, D, b)) /\ (~MeshWave(w) => ExtraBody(w, D, b))
  /\ NeedBarrierFlag(sh) => flag = 0 \/ (D = Before(End) /\ FlagOf(b))

(* The API shader has ended in all waves: the extra waves read so. *)
CloseStage(b) ==
  /\ NeedBarrierFlag(sh) /\ FlagOf(b)
  /\ \A w \in Waves : IF MeshWave(w) THEN pc[w] = "barrier.post" /\ at[w] = End
                      ELSE pc[w] = "barrier.post" \/ (pc[w] = "flag" /\ toggle[w] = ~b)

EndStage == \A w \in Waves : pc[w] \in Closing /\ (MeshWave(w) => at[w] = End)

InBody == \E D \in SUBSET DOMAIN sh.ops, b \in BOOLEAN : BodyStage(D, b)
StageInv == BeginStage \/ InBody \/ (\E b \in BOOLEAN : CloseStage(b)) \/ EndStage

-----------------------------------------------------------------------------
(* The request for export space *)

NoExports == \A k \in Kinds, i \in Cells(sh) : exports[k][i] = <<>>

(* What the first wave has asked for, by where it is in the trace. *)
Asked ==
  /\ pc[0] \in Entry => requests = <<>>
  /\ pc[0] \notin Entry /\ CountsSet(at[0]) =>
       requests = <<counts>> /\ counts \in Nat \X Nat /\ (counts[1] = 0 <=> counts[2] = 0)
  /\ pc[0] \notin Entry /\ ~CountsSet(at[0]) =>
       /\ counts[1] = InvalidValue
       /\ pc[0] # "done" => requests = <<>>
       /\ pc[0] = "done" => requests = << <<0, 0>> >>

(* Nothing is exported before the last barrier, or without counts. *)
Late ==
  /\ NoExports \/ (EndStage /\ counts[1] \notin {InvalidValue, 0})
  /\ \A w \in Waves : pc[w] = "export" => EndStage /\ counts[1] \notin {InvalidValue, 0}

-----------------------------------------------------------------------------
(* What the stages rest on *)

LEMMA ShaderFacts ==
  ASSUME TypeInv
  PROVE  /\ IsShader(sh) /\ Len(sh.ops) \in Nat /\ DOMAIN sh.ops = 1 .. Len(sh.ops)
         /\ 0 \in Waves /\ MeshWave(0) /\ NumWaves(sh) \in Nat /\ sh.staticBarriers \in Nat
<1>1. IsShader(sh)
  BY ShadersAssumption DEF TypeInv
<1>2. NumMeshWaves(sh) \in Nat \ {0} /\ NumWaves(sh) \in Nat /\ NumMeshWaves(sh) <= NumWaves(sh)
  BY <1>1, WaveCounts
<1>3. sh.ops \in Seq(ToSet(sh.ops)) /\ sh.staticBarriers \in Nat
  BY <1>1 DEF IsShader
<1>4. 0 \in Waves /\ MeshWave(0)
  BY <1>2 DEF Waves, MeshWave
<1> QED
  BY <1>1, <1>2, <1>3, <1>4

LEMMA SameShader ==
  ASSUME sh' = sh
  PROVE  /\ Waves' = Waves /\ FirstBarrier' = FirstBarrier /\ End' = End
         /\ \A w : MeshWave(w)' = MeshWave(w)
         /\ \A k : Before(k)' = Before(k) /\ CountsSet(k)' = CountsSet(k)
         /\ NeedBarrierFlag(sh)' = NeedBarrierFlag(sh)
BY DEF Waves, FirstBarrier, End, MeshWave, Before, CountsSet, OutputsToAllocas

LEMMA BeforeNext ==
  ASSUME TypeInv, NEW k \in DOMAIN sh.ops
  PROVE  /\ sh.ops[k].op # "barrier" => Before(k + 1) = Before(k)
         /\ sh.ops[k].op = "barrier" => Before(k + 1) = Before(k) \cup {k} /\ k \notin Before(k)
<1>1. k \in Int /\ \A i \in DOMAIN sh.ops : i < k + 1 <=> i < k \/ i = k
  BY ShaderFacts
<1>2. ~(k < k)
  BY <1>1
<1> QED
  BY <1>1, <1>2 DEF Before

LEMMA BarriersFinite ==
  ASSUME TypeInv, NEW k
  PROVE  IsFiniteSet(Before(k)) /\ Cardinality(Before(k)) \in Nat
<1>1. IsFiniteSet(DOMAIN sh.ops)
  <2>1. 1 \in Int /\ Len(sh.ops) \in Int /\ DOMAIN sh.ops = 1 .. Len(sh.ops)
    BY ShaderFacts
  <2>2. IsFiniteSet(1 .. Len(sh.ops))
    BY <2>1, FS_Interval
  <2> QED
    BY <2>1, <2>2, Zenon
<1>2. Before(k) \subseteq DOMAIN sh.ops
  BY DEF Before
<1>3. IsFiniteSet(Before(k))
  BY <1>1, <1>2, FS_Subset
<1> QED
  BY <1>3, FS_CardinalityType

(* One more barrier, and one that is left. *)
LEMMA BarrierCount ==
  ASSUME TypeInv, NEW k \in DOMAIN sh.ops, sh.ops[k].op = "barrier"
  PROVE  /\ Cardinality(Before(k + 1)) = Cardinality(Before(k)) + 1
         /\ k \in Before(End) /\ Before(k) # Before(End)
         /\ Cardinality(Before(k)) < NumBarriers(sh.ops)
<1>1. Before(k + 1) = Before(k) \cup {k} /\ k \notin Before(k)
  BY BeforeNext
<1>2. Cardinality(Before(k + 1)) = Cardinality(Before(k)) + 1
  BY <1>1, BarriersFinite, FS_AddElement
<1>3. k \in Before(End) /\ Before(End) = {i \in DOMAIN sh.ops : sh.ops[i].op = "barrier"}
  BY ShaderFacts DEF Before, End
<1>4. Cardinality(Before(k + 1)) <= Cardinality(Before(End))
  <2>1. Before(k + 1) \subseteq Before(End)
    BY <1>3 DEF Before
  <2> QED
    BY <2>1, BarriersFinite, FS_Subset
<1>5. Cardinality(Before(End)) = NumBarriers(sh.ops)
  BY <1>3 DEF NumBarriers
<1>6. Before(k) # Before(End)
  BY <1>1, <1>3
<1>7. Cardinality(Before(k)) \in Nat /\ Cardinality(Before(End)) \in Nat
  BY BarriersFinite
<1>8. Cardinality(Before(k)) < Cardinality(Before(End))
  BY <1>2, <1>4, <1>7
<1> QED
  BY <1>2, <1>3, <1>5, <1>6, <1>8

(* The code of an extra wave that counts the barriers has the right number. *)
LEMMA StaticCount ==
  ASSUME TypeInv, NEW w \in Waves, ~MeshWave(w), ~NeedBarrierFlag(sh)
  PROVE  sh.staticBarriers = NumBarriers(sh.ops)
<1>1. NumWaves(sh) # NumMeshWaves(sh)
  BY DEF MeshWave
<1>2. ~UsesRowExport(sh)
  BY <1>1, ShaderFacts, WaveCounts
<1>3. ~(sh.staticBarriers > 0) => sh.staticBarriers = 0
  BY ShaderFacts
<1> QED
  BY <1>1, <1>2, <1>3, ShaderFacts DEF NeedBarrierFlag, IsShader

-----------------------------------------------------------------------------
(* One wave moves, the others stay *)

Only(w) == \A v \in Waves \ {w} : pc'[v] = pc[v] /\ at'[v] = at[v] /\ toggle'[v] = toggle[v]

LEMMA OtherMesh ==
  ASSUME sh' = sh, NEW v, NEW D, NEW b,
         pc'[v] = pc[v], at'[v] = at[v], toggle'[v] = toggle[v], flag # 0 => flag' # 0,
         MeshBody(v, D, b)
  PROVE  MeshBody(v, D, b)'
<1>1. /\ FirstBarrier' = FirstBarrier /\ End' = End
      /\ Before(1)' = Before(1) /\ Before(at[v])' = Before(at'[v]) /\ Before(at[v] - 1)' = Before(at'[v] - 1)
      /\ Before(End)' = Before(End')
      /\ NeedBarrierFlag(sh)' = NeedBarrierFlag(sh)
  BY SameShader
<1> QED
  BY <1>1, SameShader DEF MeshBody

LEMMA OtherExtra ==
  ASSUME sh' = sh, NEW v, NEW D, NEW b,
         pc'[v] = pc[v], at'[v] = at[v], toggle'[v] = toggle[v],
         ExtraBody(v, D, b)
  PROVE  ExtraBody(v, D, b)'
BY SameShader DEF ExtraBody

LEMMA BodyStep ==
  ASSUME sh' = sh, NEW w \in Waves, NEW D, NEW b, BodyStage(D, b), Only(w),
         MeshWave(w) => MeshBody(w, D, b)', ~MeshWave(w) => ExtraBody(w, D, b)',
         flag' = flag \/ (D = Before(End) /\ FlagOf(b)')
  PROVE  BodyStage(D, b)'
<1>1. flag # 0 => flag' # 0
  BY DEF FlagOf, BodyStage
<1>2. ASSUME NEW v \in Waves  PROVE (MeshWave(v) => MeshBody(v, D, b)') /\ (~MeshWave(v) => ExtraBody(v, D, b)')
  <2>1. CASE v = w
    BY <2>1
  <2>2. CASE v # w
    <3>1. pc'[v] = pc[v] /\ at'[v] = at[v] /\ toggle'[v] = toggle[v]
      BY <2>2 DEF Only
    <3>2. (MeshWave(v) => MeshBody(v, D, b)) /\ (~MeshWave(v) => ExtraBody(v, D, b))
      BY DEF BodyStage
    <3> QED
      BY <1>1, <3>1, <3>2, OtherMesh, OtherExtra
  <2> QED
    BY <2>1, <2>2
<1>3. NeedBarrierFlag(sh) => flag' = 0 \/ (D = Before(End) /\ FlagOf(b)')
  BY DEF BodyStage, FlagOf
<1> QED
  BY <1>2, <1>3, SameShader DEF BodyStage

(* Which stages a wave's place allows. *)
LEMMA PlaceEntry ==
  ASSUME StageInv, NEW w \in Waves, pc[w] \in Entry
  PROVE  BeginStage \/ InBody
BY DEF StageInv, CloseStage, EndStage, Entry, Closing

LEMMA PlaceBody ==
  ASSUME StageInv, NEW w \in Waves, pc[w] \in {"api", "or", "extra"}
  PROVE  InBody
BY DEF StageInv, BeginStage, CloseStage, EndStage, Entry, Closing

LEMMA PlaceFlag ==
  ASSUME StageInv, NEW w \in Waves, pc[w] = "flag"
  PROVE  InBody \/ \E b \in BOOLEAN : CloseStage(b)
BY DEF StageInv, BeginStage, EndStage, Entry, Closing

LEMMA PlaceEnd ==
  ASSUME StageInv, NEW w \in Waves, pc[w] \in Closing
  PROVE  EndStage
<1>1. ~BeginStage
  BY DEF BeginStage, Entry, Closing
<1>2. ~InBody
  BY DEF InBody, BodyStage, MeshBody, ExtraBody, Entry, Closing
<1>3. ~\E b \in BOOLEAN : CloseStage(b)
  BY DEF CloseStage, Closing
<1> QED
  BY <1>1, <1>2, <1>3 DEF StageInv

(* A wave that executes the API shader. *)
LEMMA AtApi ==
  ASSUME NEW w \in Waves, NEW D, NEW b, BodyStage(D, b), pc[w] \in {"api", "or"}
  PROVE  /\ MeshWave(w) /\ at[w] \in 1 .. End /\ D = Before(at[w])
         /\ NeedBarrierFlag(sh) => toggle[w] = b
         /\ pc[w] = "or" => at[w] \in DOMAIN sh.ops /\ sh.ops[at[w]].op \in {"indices", "culled"}
<1>1. ~ExtraBody(w, D, b)
  BY DEF ExtraBody, Entry
<1>2. MeshBody(w, D, b)
  BY <1>1 DEF BodyStage
<1> QED
  BY <1>1, <1>2 DEF BodyStage, MeshBody, Entry

-----------------------------------------------------------------------------
(* The steps of a wave *)

LEMMA TypeInit ==
  ASSUME Init
  PROVE  TypeInv
BY DEF Init, TypeInv, Labels, Barriers

LEMMA GotoType ==
  ASSUME TypeInv, NEW w \in Waves, NEW l, l \in Labels, Goto(w, l), sh' = sh
  PROVE  /\ pc' \in [Waves' -> Labels] /\ pc'[w] = l
         /\ \A v \in Waves \ {w} : pc'[v] = pc[v]
BY SameShader DEF TypeInv, Goto

LEMMA AdvanceType ==
  ASSUME TypeInv, NEW w \in Waves, Advance(w), sh' = sh
  PROVE  /\ at' \in [Waves' -> Nat] /\ at'[w] = at[w] + 1
         /\ \A v \in Waves \ {w} : at'[v] = at[v]
<1>1. at \in [Waves -> Nat] /\ at[w] + 1 \in Nat /\ Waves' = Waves
  BY SameShader DEF TypeInv
<1> QED
  BY <1>1 DEF Advance

LEMMA ToggleType ==
  ASSUME TypeInv, NEW w \in Waves, toggle' = [toggle EXCEPT ![w] = ~ @], sh' = sh
  PROVE  /\ toggle' \in [Waves' -> BOOLEAN] /\ toggle'[w] = ~toggle[w]
         /\ \A v \in Waves \ {w} : toggle'[v] = toggle[v]
BY SameShader DEF TypeInv

LEMMA BodyAgain ==
  ASSUME TypeInv, sh' = sh, NEW D, NEW b \in BOOLEAN, BodyStage(D, b)'
  PROVE  StageInv'
<1>1. D \in SUBSET DOMAIN sh.ops
  <2>1. 0 \in Waves /\ MeshWave(0)
    BY ShaderFacts
  <2>2. MeshBody(0, D, b)'
    BY <2>1, SameShader DEF BodyStage
  <2> QED
    BY <2>2 DEF MeshBody, Before
<1>2. InBody'
  BY <1>1 DEF InBody
<1> QED
  BY <1>2 DEF StageInv

LEMMA InitIndicesStage ==
  ASSUME TypeInv, StageInv, NEW w \in Waves, InitIndices(w)
  PROVE  TypeInv' /\ StageInv'
<1>1. sh' = sh /\ at' = at /\ toggle' = toggle /\ flag' = flag /\ pc[w] = "init" /\ Goto(w, "special")
  BY DEF InitIndices
<1>2. /\ pc' \in [Waves' -> Labels] /\ pc'[w] = "special"
      /\ \A v \in Waves \ {w} : pc'[v] = pc[v]
  BY <1>1, GotoType DEF Labels
<1>3. TypeInv'
  BY <1>1, <1>2, SameShader DEF TypeInv
<1>4. CASE BeginStage
  <2>1. NeedBarrierFlag(sh) /\ pc'[0] = "barrier.begin" => flag' = 0
    BY <1>1, <1>2, <1>4, ShaderFacts DEF BeginStage
  <2>2. BeginStage'
    BY <1>1, <1>2, <1>4, <2>1, SameShader DEF BeginStage, Entry
  <2> QED
    BY <1>3, <2>2 DEF StageInv
<1>5. CASE InBody
  <2>1. PICK D \in SUBSET DOMAIN sh.ops, b \in BOOLEAN : BodyStage(D, b)
    BY <1>5 DEF InBody
  <2>2. Only(w)
    BY <1>1, <1>2 DEF Only
  <2>3. ~FirstBarrier /\ at[w] = 1 /\ D = Before(1)
    BY <1>1, <2>1 DEF BodyStage, MeshBody, ExtraBody
  <2>4. MeshBody(w, D, b)' /\ ExtraBody(w, D, b)'
    BY <1>1, <1>2, <2>3, SameShader DEF MeshBody, ExtraBody, Entry
  <2>5. BodyStage(D, b)'
    BY <1>1, <2>1, <2>2, <2>4, BodyStep
  <2> QED
    BY <1>1, <1>3, <2>5, BodyAgain
<1> QED
  BY <1>1, <1>4, <1>5, PlaceEntry DEF Entry

LEMMA SpecialStage ==
  ASSUME TypeInv, StageInv, NEW w \in Waves, WriteSpecialValue(w)
  PROVE  TypeInv' /\ StageInv'
<1> DEFINE l == IF FirstBarrier THEN "barrier.begin" ELSE Body(w)
<1>1. sh' = sh /\ at' = at /\ toggle' = toggle /\ pc[w] = "special" /\ Goto(w, l)
  BY DEF WriteSpecialValue
<1>2. /\ FirstBarrier => l = "barrier.begin"
      /\ ~FirstBarrier /\ MeshWave(w) => l = "api"
      /\ ~FirstBarrier /\ ~MeshWave(w) => l = "extra"
  BY DEF Body
<1>3. l \in Labels
  BY <1>2 DEF Labels, Barriers
<1> HIDE DEF l
<1>4. /\ pc' \in [Waves' -> Labels] /\ pc'[w] = l
      /\ \A v \in Waves \ {w} : pc'[v] = pc[v]
  BY <1>1, <1>3, GotoType
<1>5. TypeInv'
  BY <1>1, <1>4, SameShader DEF TypeInv
<1>6. CASE BeginStage
  <2>1. FirstBarrier /\ l = "barrier.begin"
    BY <1>2, <1>6 DEF BeginStage
  <2>2. ASSUME NeedBarrierFlag(sh), pc'[0] = "barrier.begin"  PROVE flag' = 0
    <3>1. CASE w = 0
      BY <2>2, <3>1 DEF WriteSpecialValue
    <3>2. CASE w # 0
      <4>1. pc[0] = "barrier.begin" /\ flag' = flag
        BY <1>4, <2>2, <3>2, ShaderFacts DEF WriteSpecialValue
      <4> QED
        BY <1>6, <2>2, <4>1 DEF BeginStage
    <3> QED
      BY <3>1, <3>2
  <2>3. BeginStage'
    BY <1>1, <1>4, <1>6, <2>1, <2>2, SameShader DEF BeginStage, Entry
  <2> QED
    BY <1>5, <2>3 DEF StageInv
<1>7. CASE InBody
  <2>1. PICK D \in SUBSET DOMAIN sh.ops, b \in BOOLEAN : BodyStage(D, b)
    BY <1>7 DEF InBody
  <2>2. Only(w)
    BY <1>1, <1>4 DEF Only
  <2>3. ~FirstBarrier /\ at[w] = 1 /\ D = Before(1)
    BY <1>1, <2>1 DEF BodyStage, MeshBody, ExtraBody
  <2>4. ~NeedBarrierFlag(sh) /\ flag' = flag
    BY <2>3 DEF FirstBarrier, WriteSpecialValue
  <2>5. D = {} /\ Cardinality(D) = 0
    <3>1. Before(1) = {}
      BY ShaderFacts DEF Before
    <3> QED
      BY <2>3, <3>1, FS_EmptySet
  <2>6. at[w] \in 1 .. End
    BY <2>3, ShaderFacts DEF End
  <2>7. MeshWave(w) => MeshBody(w, D, b)'
    BY <1>1, <1>2, <1>4, <2>3, <2>4, <2>6, SameShader DEF MeshBody
  <2>8. ~MeshWave(w) => ExtraBody(w, D, b)'
    BY <1>1, <1>2, <1>4, <2>3, <2>4, <2>5, SameShader DEF ExtraBody
  <2>9. BodyStage(D, b)'
    BY <1>1, <2>1, <2>2, <2>4, <2>7, <2>8, BodyStep
  <2> QED
    BY <1>1, <1>5, <2>9, BodyAgain
<1> QED
  BY <1>1, <1>6, <1>7, PlaceEntry DEF Entry

(* An operation of the API shader: its wave has the facts of AtApi. *)
LEMMA ApiStep ==
  ASSUME TypeInv, StageInv, NEW w \in Waves, pc[w] \in {"api", "or"}
  PROVE  \E D \in SUBSET DOMAIN sh.ops, b \in BOOLEAN :
           /\ BodyStage(D, b) /\ MeshWave(w) /\ at[w] \in 1 .. End /\ D = Before(at[w])
           /\ NeedBarrierFlag(sh) => toggle[w] = b
           /\ pc[w] = "or" => at[w] \in DOMAIN sh.ops /\ sh.ops[at[w]].op \in {"indices", "culled"}
<1>1. PICK D \in SUBSET DOMAIN sh.ops, b \in BOOLEAN : BodyStage(D, b)
  BY PlaceBody DEF InBody
<1> QED
  BY <1>1, AtApi

LEMMA HasOpFacts ==
  ASSUME TypeInv, NEW w \in Waves, at[w] \in 1 .. End, NEW S, HasOp(w, S)
  PROVE  pc[w] = "api" /\ at[w] \in DOMAIN sh.ops /\ sh.ops[at[w]].op \in S /\ at[w] + 1 \in 1 .. End
BY ShaderFacts DEF HasOp, Op, End

LEMMA ApiBarrierStage ==
  ASSUME TypeInv, StageInv, NEW w \in Waves, ApiBarrier(w)
  PROVE  TypeInv' /\ StageInv'
<1>1. sh' = sh /\ flag' = flag /\ pc[w] = "api" /\ Goto(w, "barrier.api") /\ Advance(w) /\ HasOp(w, {"barrier"})
  BY DEF ApiBarrier, HasOp, memory
<1>2. PICK D \in SUBSET DOMAIN sh.ops, b \in BOOLEAN :
           /\ BodyStage(D, b) /\ MeshWave(w) /\ at[w] \in 1 .. End /\ D = Before(at[w])
           /\ NeedBarrierFlag(sh) => toggle[w] = b
  BY <1>1, ApiStep
<1>3. /\ pc' \in [Waves' -> Labels] /\ pc'[w] = "barrier.api"
      /\ \A v \in Waves \ {w} : pc'[v] = pc[v]
  BY <1>1, GotoType DEF Labels, Barriers
<1>4. /\ at' \in [Waves' -> Nat] /\ at'[w] = at[w] + 1
      /\ \A v \in Waves \ {w} : at'[v] = at[v]
  BY <1>1, AdvanceType
<1>5. /\ toggle' \in [Waves' -> BOOLEAN]
      /\ NeedBarrierFlag(sh) => toggle'[w] = ~b
      /\ \A v \in Waves \ {w} : toggle'[v] = toggle[v]
  <2>1. CASE NeedBarrierFlag(sh)
    <3>1. toggle' = [toggle EXCEPT ![w] = ~ @]
      BY <2>1 DEF ApiBarrier
    <3>2. /\ toggle' \in [Waves' -> BOOLEAN] /\ toggle'[w] = ~toggle[w]
          /\ \A v \in Waves \ {w} : toggle'[v] = toggle[v]
      BY <1>1, <3>1, ToggleType
    <3> QED
      BY <1>2, <2>1, <3>2, Zenon
  <2>2. CASE ~NeedBarrierFlag(sh)
    <3>1. toggle' = toggle
      BY <2>2 DEF ApiBarrier
    <3> QED
      BY <1>1, <2>2, <3>1, SameShader DEF TypeInv
  <2> QED
    BY <2>1, <2>2
<1>6. TypeInv'
  BY <1>1, <1>3, <1>4, <1>5, SameShader DEF TypeInv
<1>7. at[w] \in DOMAIN sh.ops /\ sh.ops[at[w]].op = "barrier" /\ at'[w] - 1 = at[w]
  BY <1>1, <1>2, <1>4, HasOpFacts
<1>8. MeshBody(w, D, b)'
  BY <1>1, <1>2, <1>3, <1>5, <1>7, SameShader DEF MeshBody
<1>9. Only(w)
  BY <1>3, <1>4, <1>5 DEF Only
<1>10. BodyStage(D, b)'
  BY <1>1, <1>2, <1>8, <1>9, BodyStep
<1> QED
  BY <1>1, <1>6, <1>10, BodyAgain

(* An operation that is no barrier leaves the wave in the API shader. *)
LEMMA ApiMoves ==
  ASSUME TypeInv, StageInv, NEW w \in Waves, pc[w] \in {"api", "or"},
         sh' = sh, toggle' = toggle, flag' = flag,
         at[w] \in 1 .. End => at[w] \in DOMAIN sh.ops /\ sh.ops[at[w]].op # "barrier",
         NEW l, l \in {"api", "or"}, pc' = [pc EXCEPT ![w] = l],
         (at' = at /\ sh.ops[at[w]].op \in {"indices", "culled"}) \/ (Advance(w) /\ l = "api")
  PROVE  TypeInv' /\ StageInv'
<1>1. PICK D \in SUBSET DOMAIN sh.ops, b \in BOOLEAN :
           /\ BodyStage(D, b) /\ MeshWave(w) /\ at[w] \in 1 .. End /\ D = Before(at[w])
           /\ NeedBarrierFlag(sh) => toggle[w] = b
  BY ApiStep
<1>2. /\ pc' \in [Waves' -> Labels] /\ pc'[w] = l
      /\ \A v \in Waves \ {w} : pc'[v] = pc[v]
  BY GotoType DEF Labels, Goto
<1>3. /\ at' \in [Waves' -> Nat]
      /\ \A v \in Waves \ {w} : at'[v] = at[v]
      /\ at'[w] = at[w] \/ (at'[w] = at[w] + 1 /\ l = "api")
      /\ l = "or" => at'[w] = at[w] /\ sh.ops[at[w]].op \in {"indices", "culled"}
  <2>1. CASE at' = at /\ sh.ops[at[w]].op \in {"indices", "culled"}
    BY <2>1, SameShader DEF TypeInv
  <2>2. CASE Advance(w) /\ l = "api"
    BY <2>2, AdvanceType
  <2> QED
    BY <2>1, <2>2
<1>4. TypeInv'
  BY <1>2, <1>3, SameShader DEF TypeInv
<1>5. at[w] \in DOMAIN sh.ops /\ sh.ops[at[w]].op # "barrier"
  BY <1>1
<1>6. D = Before(at'[w]) /\ at'[w] \in 1 .. End
  <2>1. Before(at[w] + 1) = Before(at[w])
    BY <1>5, BeforeNext
  <2>2. at[w] + 1 \in 1 .. End
    BY <1>5, ShaderFacts DEF End
  <2> QED
    BY <1>1, <1>3, <2>1, <2>2
<1>7. MeshBody(w, D, b)'
  BY <1>1, <1>2, <1>3, <1>5, <1>6, SameShader DEF MeshBody
<1>8. Only(w)
  BY <1>2, <1>3 DEF Only
<1>9. BodyStage(D, b)'
  BY <1>1, <1>7, <1>8, BodyStep
<1> QED
  BY <1>4, <1>9, BodyAgain

LEMMA SamePlace ==
  ASSUME TypeInv, NEW w \in Waves
  PROVE  pc = [pc EXCEPT ![w] = pc[w]]
BY DEF TypeInv

LEMMA OperationsStage ==
  ASSUME TypeInv, StageInv, NEW w \in Waves,
         SetMeshOutputs(w) \/ ClearBits(w) \/ SetBits(w) \/ WriteMeshOutput(w)
  PROVE  TypeInv' /\ StageInv'
<1>1. CASE SetMeshOutputs(w)
  <2>1. /\ sh' = sh /\ toggle' = toggle /\ flag' = flag /\ pc' = pc /\ pc[w] = "api"
        /\ HasOp(w, {"outputs"}) /\ Advance(w)
    BY <1>1 DEF SetMeshOutputs, HasOp
  <2>2. pc' = [pc EXCEPT ![w] = "api"]
    BY <2>1, SamePlace
  <2>3. at[w] \in 1 .. End => at[w] \in DOMAIN sh.ops /\ sh.ops[at[w]].op # "barrier"
    BY <2>1, HasOpFacts
  <2> QED
    BY <2>1, <2>2, <2>3, ApiMoves
<1>2. CASE WriteMeshOutput(w)
  <2>1. /\ sh' = sh /\ toggle' = toggle /\ flag' = flag /\ pc' = pc /\ pc[w] = "api"
        /\ HasOp(w, {"write"}) /\ Advance(w)
    BY <1>2 DEF WriteMeshOutput, HasOp
  <2>2. pc' = [pc EXCEPT ![w] = "api"]
    BY <2>1, SamePlace
  <2>3. at[w] \in 1 .. End => at[w] \in DOMAIN sh.ops /\ sh.ops[at[w]].op # "barrier"
    BY <2>1, HasOpFacts
  <2> QED
    BY <2>1, <2>2, <2>3, ApiMoves
<1>3. CASE ClearBits(w)
  <2>1. /\ sh' = sh /\ toggle' = toggle /\ flag' = flag /\ pc[w] = "api" /\ at' = at
        /\ HasOp(w, {"indices", "culled"}) /\ pc' = [pc EXCEPT ![w] = "or"]
    BY <1>3 DEF ClearBits, HasOp, Goto
  <2>2. at[w] \in 1 .. End => at[w] \in DOMAIN sh.ops /\ sh.ops[at[w]].op # "barrier"
    BY <2>1, HasOpFacts
  <2>3. sh.ops[at[w]].op \in {"indices", "culled"}
    BY <2>1 DEF HasOp, Op
  <2> QED
    BY <2>1, <2>2, <2>3, ApiMoves
<1>4. CASE SetBits(w)
  <2>1. /\ sh' = sh /\ toggle' = toggle /\ flag' = flag /\ pc[w] = "or"
        /\ Advance(w) /\ pc' = [pc EXCEPT ![w] = "api"]
    BY <1>4 DEF SetBits, Goto
  <2>2. at[w] \in DOMAIN sh.ops /\ sh.ops[at[w]].op \in {"indices", "culled"}
    BY <2>1, ApiStep
  <2> QED
    BY <2>1, <2>2, ApiMoves
<1> QED
  BY <1>1, <1>2, <1>3, <1>4

LEMMA EndApiStage ==
  ASSUME TypeInv, StageInv, NEW w \in Waves, EndApi(w)
  PROVE  TypeInv' /\ StageInv'
<1> DEFINE l == IF NeedBarrierFlag(sh) THEN "barrier.end" ELSE "barrier.post"
<1>1. /\ sh' = sh /\ toggle' = toggle /\ pc[w] = "api" /\ Goto(w, l) /\ at' = at
      /\ at[w] > Len(sh.ops)
  BY DEF EndApi
<1>2. l \in Labels /\ (NeedBarrierFlag(sh) => l = "barrier.end") /\ (~NeedBarrierFlag(sh) => l = "barrier.post")
  BY DEF Labels, Barriers
<1> HIDE DEF l
<1>3. PICK D \in SUBSET DOMAIN sh.ops, b \in BOOLEAN :
           /\ BodyStage(D, b) /\ MeshWave(w) /\ at[w] \in 1 .. End /\ D = Before(at[w])
           /\ NeedBarrierFlag(sh) => toggle[w] = b
  BY <1>1, ApiStep
<1>4. /\ pc' \in [Waves' -> Labels] /\ pc'[w] = l
      /\ \A v \in Waves \ {w} : pc'[v] = pc[v]
  BY <1>1, <1>2, GotoType
<1>5. TypeInv'
  BY <1>1, <1>4, SameShader DEF TypeInv
<1>6. at[w] = End
  BY <1>1, <1>3, ShaderFacts DEF End
<1>7. NeedBarrierFlag(sh) => FlagOf(b)' /\ flag' # 0
  <2>1. NeedBarrierFlag(sh) => (toggle[w] => flag' = 3) /\ (~toggle[w] => flag' = 2)
    BY DEF EndApi
  <2>2. ASSUME NeedBarrierFlag(sh), b = TRUE  PROVE flag' = 3
    BY <1>3, <2>1, <2>2, Zenon
  <2>3. ASSUME NeedBarrierFlag(sh), b = FALSE  PROVE flag' = 2
    BY <1>3, <2>1, <2>3, Zenon
  <2>4. NeedBarrierFlag(sh) => FlagOf(b)'
    BY <2>2, <2>3 DEF FlagOf
  <2>5. NeedBarrierFlag(sh) => flag' = 3 \/ flag' = 2
    BY <2>1
  <2> QED
    BY <2>4, <2>5
<1>8. ~NeedBarrierFlag(sh) => flag' = flag
  BY DEF EndApi
<1>9. MeshBody(w, D, b)'
  BY <1>1, <1>2, <1>3, <1>4, <1>6, <1>7, SameShader DEF MeshBody
<1>10. Only(w)
  BY <1>1, <1>4 DEF Only
<1>11. BodyStage(D, b)'
  BY <1>1, <1>3, <1>6, <1>7, <1>8, <1>9, <1>10, BodyStep
<1> QED
  BY <1>1, <1>5, <1>11, BodyAgain

LEMMA ExtraBarrierStage ==
  ASSUME TypeInv, StageInv, NEW w \in Waves, ExtraBarrier(w)
  PROVE  TypeInv' /\ StageInv'
<1>1. sh' = sh /\ flag' = flag /\ pc[w] = "extra"
  BY DEF ExtraBarrier, memory
<1>2. PICK D \in SUBSET DOMAIN sh.ops, b \in BOOLEAN : BodyStage(D, b)
  BY <1>1, PlaceBody DEF InBody
<1>3. ~MeshWave(w) /\ ExtraBody(w, D, b)
  <2>1. ~MeshBody(w, D, b)
    BY <1>1 DEF MeshBody, Entry
  <2> QED
    BY <1>2, <2>1 DEF BodyStage
<1>4. CASE NeedBarrierFlag(sh)
  <2>1. toggle' = [toggle EXCEPT ![w] = ~ @] /\ Goto(w, "barrier.extra") /\ at' = at
    BY <1>4 DEF ExtraBarrier
  <2>2. /\ pc' \in [Waves' -> Labels] /\ pc'[w] = "barrier.extra"
        /\ \A v \in Waves \ {w} : pc'[v] = pc[v]
    BY <1>1, <2>1, GotoType DEF Labels, Barriers
  <2>3. /\ toggle' \in [Waves' -> BOOLEAN] /\ toggle'[w] = ~toggle[w]
        /\ \A v \in Waves \ {w} : toggle'[v] = toggle[v]
    BY <1>1, <2>1, ToggleType
  <2>4. TypeInv'
    BY <1>1, <2>1, <2>2, <2>3, SameShader DEF TypeInv
  <2>5. toggle[w] = b
    BY <1>1, <1>3, <1>4 DEF ExtraBody, Entry
  <2>6. toggle'[w] = ~b
    BY <2>3, <2>5, Zenon
  <2>7. ExtraBody(w, D, b)'
    BY <1>1, <1>4, <2>2, <2>6, SameShader DEF ExtraBody
  <2>8. Only(w)
    BY <2>1, <2>2, <2>3 DEF Only
  <2>9. BodyStage(D, b)'
    BY <1>1, <1>2, <1>3, <2>7, <2>8, BodyStep
  <2> QED
    BY <1>1, <2>4, <2>9, BodyAgain
<1>5. CASE ~NeedBarrierFlag(sh)
  <2> DEFINE l == IF at[w] <= sh.staticBarriers THEN "barrier.extra" ELSE "barrier.post"
  <2>1. toggle' = toggle /\ Goto(w, l) /\ Advance(w)
    BY <1>5 DEF ExtraBarrier
  <2>2. l \in Labels /\ (at[w] <= sh.staticBarriers => l = "barrier.extra")
        /\ (~(at[w] <= sh.staticBarriers) => l = "barrier.post")
    BY DEF Labels, Barriers
  <2> HIDE DEF l
  <2>3. /\ pc' \in [Waves' -> Labels] /\ pc'[w] = l
        /\ \A v \in Waves \ {w} : pc'[v] = pc[v]
    BY <1>1, <2>1, <2>2, GotoType
  <2>4. /\ at' \in [Waves' -> Nat] /\ at'[w] = at[w] + 1
        /\ \A v \in Waves \ {w} : at'[v] = at[v]
    BY <1>1, <2>1, AdvanceType
  <2>5. TypeInv'
    BY <1>1, <2>1, <2>3, <2>4, SameShader DEF TypeInv
  <2>6. at[w] = Cardinality(D) + 1
    BY <1>1, <1>3, <1>5 DEF ExtraBody, Entry
  <2>7. Cardinality(D) \in Nat
    <3>1. MeshBody(0, D, b)
      BY <1>2, ShaderFacts DEF BodyStage
    <3> QED
      BY <3>1, BarriersFinite DEF MeshBody
  <2>8. /\ at'[w] = Cardinality(D) + 2
        /\ l = "barrier.extra" => Cardinality(D) < sh.staticBarriers
        /\ l = "barrier.post" => Cardinality(D) >= sh.staticBarriers
        /\ l \in {"barrier.extra", "barrier.post"}
    BY <2>2, <2>4, <2>6, <2>7, ShaderFacts
  <2>9. ExtraBody(w, D, b)'
    BY <1>1, <1>5, <2>3, <2>8, SameShader DEF ExtraBody
  <2>10. Only(w)
    BY <2>1, <2>3, <2>4 DEF Only
  <2>11. BodyStage(D, b)'
    BY <1>1, <1>2, <1>3, <2>9, <2>10, BodyStep
  <2> QED
    BY <1>1, <2>5, <2>11, BodyAgain
<1> QED
  BY <1>4, <1>5

LEMMA ReadFlagStage ==
  ASSUME TypeInv, StageInv, NEW w \in Waves, ReadFlag(w)
  PROVE  TypeInv' /\ StageInv'
<1> DEFINE l == IF MoreBarriers(w) THEN "extra" ELSE "barrier.post"
<1>1. sh' = sh /\ toggle' = toggle /\ at' = at /\ flag' = flag /\ pc[w] = "flag" /\ Goto(w, l)
  BY DEF ReadFlag, memory
<1>2. l \in Labels /\ (MoreBarriers(w) => l = "extra") /\ (~MoreBarriers(w) => l = "barrier.post")
  BY DEF Labels, Barriers
<1> HIDE DEF l
<1>3. /\ pc' \in [Waves' -> Labels] /\ pc'[w] = l
      /\ \A v \in Waves \ {w} : pc'[v] = pc[v]
  BY <1>1, <1>2, GotoType
<1>4. TypeInv'
  BY <1>1, <1>3, SameShader DEF TypeInv
<1>5. 3 % 2 = 1 /\ 2 % 2 # 1
  OBVIOUS
<1>6. CASE InBody
  <2>1. PICK D \in SUBSET DOMAIN sh.ops, b \in BOOLEAN : BodyStage(D, b)
    BY <1>6 DEF InBody
  <2>2. ~MeshBody(w, D, b)
    BY <1>1 DEF MeshBody, Entry
  <2>3. ~MeshWave(w) /\ ExtraBody(w, D, b)
    BY <2>1, <2>2 DEF BodyStage
  <2>4. NeedBarrierFlag(sh) /\ toggle[w] = b
    BY <1>1, <2>3 DEF ExtraBody, Entry
  <2>5. flag = 0 \/ FlagOf(b)
    BY <2>1, <2>4 DEF BodyStage
  <2>6. MoreBarriers(w)
    <3>1. CASE flag = 0
      BY <3>1 DEF MoreBarriers
    <3>2. CASE FlagOf(b) /\ b = TRUE
      <4>1. flag = 3 /\ toggle[w] = TRUE
        BY <2>4, <3>2 DEF FlagOf
      <4> QED
        BY <1>5, <4>1 DEF MoreBarriers
    <3>3. CASE FlagOf(b) /\ b = FALSE
      <4>1. flag = 2 /\ toggle[w] = FALSE
        BY <2>4, <3>3 DEF FlagOf
      <4> QED
        BY <1>5, <4>1 DEF MoreBarriers
    <3> QED
      BY <2>5, <3>1, <3>2, <3>3
  <2>7. ExtraBody(w, D, b)'
    BY <1>1, <1>2, <1>3, <2>4, <2>6, SameShader DEF ExtraBody
  <2>8. Only(w)
    BY <1>1, <1>3 DEF Only
  <2>9. BodyStage(D, b)'
    BY <1>1, <2>1, <2>3, <2>7, <2>8, BodyStep
  <2> QED
    BY <1>1, <1>4, <2>9, BodyAgain
<1>7. CASE \E b \in BOOLEAN : CloseStage(b)
  <2>1. PICK b \in BOOLEAN : CloseStage(b)
    BY <1>7
  <2>2. ~MeshWave(w) /\ toggle[w] = ~b /\ FlagOf(b)
    BY <1>1, <2>1 DEF CloseStage
  <2>3. ~MoreBarriers(w)
    <3>1. CASE b = TRUE
      <4>1. flag = 3 /\ toggle[w] = FALSE
        BY <2>2, <3>1 DEF FlagOf
      <4>2. flag # 0 /\ flag % 2 = 1
        BY <1>5, <4>1
      <4> QED
        BY <4>1, <4>2, Zenon DEF MoreBarriers
    <3>2. CASE b = FALSE
      <4>1. flag = 2 /\ toggle[w] = TRUE
        BY <2>2, <3>2 DEF FlagOf
      <4>2. flag # 0 /\ flag % 2 # 1
        BY <1>5, <4>1
      <4> QED
        BY <4>1, <4>2, Zenon DEF MoreBarriers
    <3> QED
      BY <3>1, <3>2
  <2>4. CloseStage(b)'
    BY <1>1, <1>2, <1>3, <2>1, <2>2, <2>3, SameShader DEF CloseStage, FlagOf
  <2> QED
    BY <1>4, <2>4 DEF StageInv
<1> QED
  BY <1>1, <1>6, <1>7, PlaceFlag

(* After the last barrier a wave only goes on to its end. *)
LEMMA ClosingStage ==
  ASSUME TypeInv, StageInv, NEW w \in Waves,
         CheckCounts(w) \/ Export(w) \/ ExportDone(w) \/ Exit(w)
  PROVE  TypeInv' /\ StageInv' /\ EndStage /\ EndStage'
<1>1. sh' = sh /\ toggle' = toggle /\ at' = at /\ pc[w] \in Closing
  BY DEF CheckCounts, Export, ExportDone, Exit, Closing
<1>2. EndStage
  BY <1>1, PlaceEnd
<1>3. \E l \in Closing : pc' = [pc EXCEPT ![w] = l]
  <2>1. CASE CheckCounts(w)
    BY <2>1 DEF CheckCounts, Goto, Closing
  <2>2. CASE Export(w) \/ ExportDone(w)
    <3>1. pc' = pc
      BY <2>2 DEF Export, ExportDone
    <3> QED
      BY <1>1, <3>1, SamePlace
  <2>3. CASE Exit(w)
    BY <2>3 DEF Exit, Goto, Closing
  <2> QED
    BY <2>1, <2>2, <2>3
<1>4. PICK l \in Closing : pc' = [pc EXCEPT ![w] = l]
  BY <1>3
<1>5. l \in Labels
  BY DEF Labels, Closing
<1>6. TypeInv'
  BY <1>1, <1>4, <1>5, SameShader DEF TypeInv
<1>7. EndStage'
  BY <1>1, <1>2, <1>4, SameShader DEF EndStage, TypeInv
<1> QED
  BY <1>2, <1>6, <1>7 DEF StageInv

-----------------------------------------------------------------------------
(* The barrier opens *)

MeetApi(p, D, b) ==
  /\ p \in DOMAIN sh.ops /\ sh.ops[p].op = "barrier" /\ D = Before(p)
  /\ \A w \in Waves : MeshWave(w) =>
       pc[w] = "barrier.api" /\ at[w] = p + 1 /\ (NeedBarrierFlag(sh) => toggle[w] = ~b)
  /\ \A w \in Waves : ~MeshWave(w) =>
       /\ pc[w] = "barrier.extra" /\ (NeedBarrierFlag(sh) => toggle[w] = ~b)
       /\ ~NeedBarrierFlag(sh) => at[w] = Cardinality(D) + 2

MeetEnd(b) ==
  /\ NeedBarrierFlag(sh) /\ FlagOf(b)
  /\ \A w \in Waves : MeshWave(w) => pc[w] = "barrier.end" /\ at[w] = End
  /\ \A w \in Waves : ~MeshWave(w) => pc[w] = "barrier.extra" /\ toggle[w] = ~b

MeetPost == \A w \in Waves : pc[w] = "barrier.post" /\ (MeshWave(w) => at[w] = End)

(* In the body of the code the waves wait for the same barrier. *)
LEMMA Meeting ==
  ASSUME TypeInv, NEW D, NEW b \in BOOLEAN, BodyStage(D, b), \A w \in Waves : pc[w] \in Barriers
  PROVE  (\E p : MeetApi(p, D, b)) \/ MeetEnd(b) \/ MeetPost
<1>1. 0 \in Waves /\ MeshWave(0) /\ MeshBody(0, D, b)
  BY ShaderFacts DEF BodyStage
<1>2. \A w \in Waves : pc[w] \notin Entry /\ pc[w] \notin {"api", "or", "extra", "flag"}
  BY DEF Barriers, Entry
<1>3. Cardinality(D) \in Nat
  BY <1>1, BarriersFinite DEF MeshBody
<1>4. CASE pc[0] = "barrier.api"
  <2> DEFINE p == at[0] - 1
  <2>1. p \in DOMAIN sh.ops /\ sh.ops[p].op = "barrier" /\ D = Before(p)
    BY <1>1, <1>4 DEF MeshBody, Entry
  <2> HIDE DEF p
  <2>2. D # Before(End) /\ Cardinality(D) < NumBarriers(sh.ops)
    BY <2>1, BarrierCount
  <2>3. ASSUME NEW w \in Waves, MeshWave(w)
        PROVE  pc[w] = "barrier.api" /\ at[w] = p + 1 /\ (NeedBarrierFlag(sh) => toggle[w] = ~b)
    <3>1. MeshBody(w, D, b)
      BY <2>3 DEF BodyStage
    <3> DEFINE q == at[w] - 1
    <3>2. /\ pc[w] = "barrier.api" /\ q \in DOMAIN sh.ops /\ sh.ops[q].op = "barrier" /\ D = Before(q)
          /\ NeedBarrierFlag(sh) => toggle[w] = ~b
      BY <1>2, <2>2, <3>1 DEF MeshBody
    <3>3. at[w] \in Nat /\ at[w] = q + 1
      BY DEF TypeInv
    <3> HIDE DEF q
    <3>4. p \in Int /\ q \in Int
      BY <2>1, <3>2, ShaderFacts
    <3>5. ~(p < q)
      <4>1. p < q => p \in Before(q)
        BY <2>1 DEF Before
      <4>2. p \notin Before(p)
        BY <2>1, BeforeNext
      <4> QED
        BY <2>1, <3>2, <4>1, <4>2
    <3>6. ~(q < p)
      <4>1. q < p => q \in Before(p)
        BY <3>2 DEF Before
      <4>2. q \notin Before(q)
        BY <3>2, BeforeNext
      <4> QED
        BY <2>1, <3>2, <4>1, <4>2
    <3> QED
      BY <3>2, <3>3, <3>4, <3>5, <3>6
  <2>4. ASSUME NEW w \in Waves, ~MeshWave(w)
        PROVE  /\ pc[w] = "barrier.extra" /\ (NeedBarrierFlag(sh) => toggle[w] = ~b)
               /\ ~NeedBarrierFlag(sh) => at[w] = Cardinality(D) + 2
    <3>1. ExtraBody(w, D, b)
      BY <2>4 DEF BodyStage
    <3>2. ~NeedBarrierFlag(sh) => sh.staticBarriers = NumBarriers(sh.ops)
      BY <2>4, StaticCount
    <3>3. ~NeedBarrierFlag(sh) => ~(Cardinality(D) >= sh.staticBarriers)
      BY <1>3, <2>2, <3>2, ShaderFacts
    <3> QED
      BY <1>2, <3>1, <3>3 DEF ExtraBody
  <2> QED
    BY <2>1, <2>3, <2>4 DEF MeetApi
<1>5. CASE pc[0] # "barrier.api"
  <2>1. D = Before(End) /\ at[0] = End
    BY <1>1, <1>2, <1>5 DEF MeshBody
  <2>2. ASSUME NEW w \in Waves, MeshWave(w)
        PROVE  /\ at[w] = End
               /\ NeedBarrierFlag(sh) => pc[w] = "barrier.end" /\ flag # 0
               /\ ~NeedBarrierFlag(sh) => pc[w] = "barrier.post"
    <3>1. MeshBody(w, D, b)
      BY <2>2 DEF BodyStage
    <3>2. pc[w] # "barrier.api"
      <4> DEFINE q == at[w] - 1
      <4>1. pc[w] = "barrier.api" => q \in DOMAIN sh.ops /\ sh.ops[q].op = "barrier" /\ D = Before(q)
        BY <1>2, <3>1 DEF MeshBody
      <4> HIDE DEF q
      <4>2. pc[w] = "barrier.api" => Before(q) # Before(End)
        BY <4>1, BarrierCount
      <4> QED
        BY <2>1, <4>1, <4>2
    <3> QED
      BY <1>2, <3>1, <3>2 DEF MeshBody
  <2>3. CASE NeedBarrierFlag(sh)
    <3>1. FlagOf(b)
      BY <1>1, <2>2, <2>3 DEF BodyStage
    <3>2. ASSUME NEW w \in Waves, ~MeshWave(w)  PROVE pc[w] = "barrier.extra" /\ toggle[w] = ~b
      <4>1. ExtraBody(w, D, b)
        BY <3>2 DEF BodyStage
      <4> QED
        BY <1>2, <2>3, <4>1 DEF ExtraBody
    <3> QED
      BY <2>2, <2>3, <3>1, <3>2 DEF MeetEnd
  <2>4. CASE ~NeedBarrierFlag(sh)
    <3>1. ASSUME NEW w \in Waves, ~MeshWave(w)  PROVE pc[w] = "barrier.post"
      <4>1. ExtraBody(w, D, b)
        BY <3>1 DEF BodyStage
      <4>2. sh.staticBarriers = NumBarriers(sh.ops)
        BY <2>4, <3>1, StaticCount
      <4>3. NumBarriers(sh.ops) = Cardinality(D)
        <5>1. Before(End) = {i \in DOMAIN sh.ops : sh.ops[i].op = "barrier"}
          BY ShaderFacts DEF Before, End
        <5> QED
          BY <2>1, <5>1 DEF NumBarriers
      <4>4. ~(Cardinality(D) < sh.staticBarriers)
        BY <1>3, <4>2, <4>3
      <4> QED
        BY <1>2, <2>4, <4>1, <4>4 DEF ExtraBody
    <3> QED
      BY <2>2, <2>4, <3>1 DEF MeetPost
  <2> QED
    BY <2>3, <2>4
<1> QED
  BY <1>4, <1>5

LEMMA InStepHolds ==
  ASSUME TypeInv, StageInv
  PROVE  InStep
<1> SUFFICES ASSUME \A w \in Waves : pc[w] \in Barriers
             PROVE  \/ \A w \in Waves : pc[w] = "barrier.begin"
                    \/ \A w \in Waves : pc[w] = "barrier.post"
                    \/ \A w \in Waves : pc[w] = IF MeshWave(w) THEN "barrier.api" ELSE "barrier.extra"
                    \/ \A w \in Waves : pc[w] = IF MeshWave(w) THEN "barrier.end" ELSE "barrier.extra"
  BY DEF InStep
<1>1. CASE BeginStage
  BY <1>1 DEF BeginStage, Entry, Barriers
<1>2. CASE InBody
  <2>1. PICK D \in SUBSET DOMAIN sh.ops, b \in BOOLEAN : BodyStage(D, b)
    BY <1>2 DEF InBody
  <2>2. (\E p : MeetApi(p, D, b)) \/ MeetEnd(b) \/ MeetPost
    BY <2>1, Meeting
  <2> QED
    BY <2>2 DEF MeetApi, MeetEnd, MeetPost
<1>3. CASE \E b \in BOOLEAN : CloseStage(b)
  BY <1>3 DEF CloseStage, Barriers
<1>4. CASE EndStage
  BY <1>4, ShaderFacts DEF EndStage, Closing, Barriers
<1> QED
  BY <1>1, <1>2, <1>3, <1>4 DEF StageInv

LEMMA ReleaseStage ==
  ASSUME TypeInv, StageInv, Release
  PROVE  TypeInv' /\ StageInv'
<1>1. sh' = sh /\ at' = at /\ toggle' = toggle /\ flag' = flag
  BY DEF Release, memory
<1>2. ~EndStage
  BY DEF Release, EndStage, Closing, Barriers
<1>3. ASSUME NEW w \in Waves  PROVE pc[w] # "done"
  <2>1. pc[w] \notin Closing
    BY <1>2, PlaceEnd
  <2> QED
    BY <2>1 DEF Closing
<1>4. \A w \in Waves : pc[w] \in Barriers
  BY <1>3 DEF Release
<1>5. /\ \A w \in Waves : pc'[w] = AfterBarrier(w)
      /\ pc' = [w \in Waves |-> pc'[w]]
  BY <1>3 DEF Release
<1>6. ASSUME NEW w \in Waves
      PROVE  /\ pc[w] = "barrier.begin" /\ MeshWave(w) => pc'[w] = "api"
             /\ pc[w] = "barrier.begin" /\ ~MeshWave(w) => pc'[w] = "extra"
             /\ pc[w] = "barrier.api" => pc'[w] = "api"
             /\ pc[w] = "barrier.end" => pc'[w] = "barrier.post"
             /\ pc[w] = "barrier.extra" /\ NeedBarrierFlag(sh) => pc'[w] = "flag"
             /\ pc[w] = "barrier.extra" /\ ~NeedBarrierFlag(sh) => pc'[w] = "extra"
             /\ pc[w] = "barrier.post" => pc'[w] = "counts"
  BY <1>5 DEF AfterBarrier, Body
<1>7. TypeInv'
  <2>1. \A w \in Waves : pc'[w] \in Labels
    BY <1>4, <1>6 DEF Barriers, Labels
  <2>2. pc' \in [Waves -> Labels]
    BY <1>5, <2>1
  <2> QED
    BY <1>1, <2>2, SameShader DEF TypeInv
<1>8. CASE BeginStage
  <2>1. \A w \in Waves : pc[w] = "barrier.begin" /\ at[w] = 1 /\ toggle[w] = FALSE
    BY <1>4, <1>8 DEF BeginStage, Entry, Barriers
  <2>2. NeedBarrierFlag(sh) => flag' = 0
    BY <1>1, <1>8, <2>1, ShaderFacts DEF BeginStage
  <2>3. Before(1) = {} /\ Cardinality(Before(1)) = 0 /\ 1 \in 1 .. End
    <3>1. Before(1) = {} /\ 1 \in 1 .. End
      BY ShaderFacts DEF Before, End
    <3> QED
      BY <3>1, FS_EmptySet
  <2>4. ASSUME NEW w \in Waves, MeshWave(w)  PROVE MeshBody(w, Before(1), FALSE)'
    BY <1>1, <1>6, <2>1, <2>3, <2>4, SameShader DEF MeshBody
  <2>5. ASSUME NEW w \in Waves, ~MeshWave(w)  PROVE ExtraBody(w, Before(1), FALSE)'
    BY <1>1, <1>6, <2>1, <2>3, <2>5, SameShader DEF ExtraBody
  <2>6. BodyStage(Before(1), FALSE)'
    BY <1>1, <2>2, <2>4, <2>5, SameShader DEF BodyStage
  <2> QED
    BY <1>1, <1>7, <2>6, BodyAgain, SameShader
<1>9. CASE InBody
  <2>1. PICK D \in SUBSET DOMAIN sh.ops, b \in BOOLEAN : BodyStage(D, b)
    BY <1>9 DEF InBody
  <2>2. CASE \E p : MeetApi(p, D, b)
    <3>1. PICK p : MeetApi(p, D, b)
      BY <2>2
    <3>e. PICK E : E = Before(p + 1)
      OBVIOUS
    <3>c. PICK c \in BOOLEAN : c = ~b
      OBVIOUS
    <3>2. /\ p \in DOMAIN sh.ops /\ sh.ops[p].op = "barrier" /\ D = Before(p)
          /\ Cardinality(E) = Cardinality(D) + 1 /\ D # Before(End)
      BY <3>1, <3>e, BarrierCount DEF MeetApi
    <3>3. p + 1 \in 1 .. End /\ p + 1 \in Nat
      BY <3>2, ShaderFacts DEF End
    <3>5. Cardinality(D) \in Nat
      BY <3>2, BarriersFinite
    <3>6. ASSUME NEW w \in Waves, MeshWave(w)  PROVE MeshBody(w, E, c)'
      <4>1. pc'[w] = "api" /\ at'[w] = p + 1 /\ (NeedBarrierFlag(sh) => toggle'[w] = c)
        BY <1>1, <1>6, <3>1, <3>6, <3>c DEF MeetApi
      <4>2. E = Before(at[w])'
        BY <1>1, <3>e, <4>1 DEF Before
      <4> QED
        BY <1>1, <3>3, <4>1, <4>2, SameShader DEF MeshBody
    <3>7. ASSUME NEW w \in Waves, ~MeshWave(w)  PROVE ExtraBody(w, E, c)'
      <4>1. /\ pc'[w] = IF NeedBarrierFlag(sh) THEN "flag" ELSE "extra"
            /\ NeedBarrierFlag(sh) => toggle'[w] = c
            /\ ~NeedBarrierFlag(sh) => at'[w] = Cardinality(E) + 1
        BY <1>1, <1>6, <3>1, <3>2, <3>5, <3>7, <3>c DEF MeetApi
      <4> QED
        BY <1>1, <4>1, SameShader DEF ExtraBody
    <3>8. NeedBarrierFlag(sh) => flag' = 0
      BY <1>1, <2>1, <3>2 DEF BodyStage
    <3>9. BodyStage(E, c)'
      BY <1>1, <3>6, <3>7, <3>8, SameShader DEF BodyStage
    <3> QED
      BY <1>1, <1>7, <3>9, BodyAgain
  <2>3. CASE MeetEnd(b)
    <3>1. CloseStage(b)'
      BY <1>1, <1>6, <2>3, SameShader DEF MeetEnd, CloseStage, FlagOf
    <3> QED
      BY <1>7, <3>1 DEF StageInv
  <2>4. CASE MeetPost
    <3>1. EndStage'
      BY <1>1, <1>6, <2>4, SameShader DEF MeetPost, EndStage, Closing
    <3> QED
      BY <1>7, <3>1 DEF StageInv
  <2> QED
    BY <1>4, <2>1, <2>2, <2>3, <2>4, Meeting
<1>10. CASE \E b \in BOOLEAN : CloseStage(b)
  <2>1. \A w \in Waves : pc[w] = "barrier.post" /\ (MeshWave(w) => at[w] = End)
    BY <1>4, <1>10 DEF CloseStage, Barriers
  <2>2. EndStage'
    BY <1>1, <1>6, <2>1, SameShader DEF EndStage, Closing
  <2> QED
    BY <1>7, <2>2 DEF StageInv
<1> QED
  BY <1>2, <1>8, <1>9, <1>10 DEF StageInv

LEMMA StageInit ==
  ASSUME Init
  PROVE  TypeInv /\ StageInv
<1>1. TypeInv
  BY TypeInit
<1>2. \A w \in Waves : pc[w] = "init" /\ at[w] = 1 /\ toggle[w] = FALSE
  BY DEF Init
<1>3. CASE FirstBarrier
  BY <1>1, <1>2, <1>3, ShaderFacts DEF StageInv, BeginStage, Entry
<1>4. CASE ~FirstBarrier
  <2>1. ~NeedBarrierFlag(sh)
    BY <1>4 DEF FirstBarrier
  <2>2. BodyStage(Before(1), FALSE)
    BY <1>2, <1>4, <2>1 DEF BodyStage, MeshBody, ExtraBody, Entry
  <2>3. InBody
    BY <2>2 DEF InBody, Before
  <2> QED
    BY <1>1, <2>3 DEF StageInv
<1> QED
  BY <1>3, <1>4

LEMMA StageStutter ==
  ASSUME TypeInv, StageInv, UNCHANGED vars
  PROVE  TypeInv' /\ StageInv'
<1>1. sh' = sh /\ pc' = pc /\ at' = at /\ toggle' = toggle /\ flag' = flag
  BY DEF vars
<1>2. TypeInv'
  BY <1>1, SameShader DEF TypeInv
<1>3. BeginStage => BeginStage'
  BY <1>1, SameShader DEF BeginStage
<1>4. InBody => StageInv'
  <2> SUFFICES ASSUME NEW D \in SUBSET DOMAIN sh.ops, NEW b \in BOOLEAN, BodyStage(D, b)  PROVE StageInv'
    BY DEF InBody
  <2>1. ASSUME NEW w \in Waves
        PROVE  (MeshWave(w) => MeshBody(w, D, b)') /\ (~MeshWave(w) => ExtraBody(w, D, b)')
    BY <1>1, OtherMesh, OtherExtra DEF BodyStage
  <2>2. BodyStage(D, b)'
    BY <1>1, <2>1, SameShader DEF BodyStage, FlagOf
  <2> QED
    BY <1>1, <2>2, BodyAgain
<1>5. (\E b \in BOOLEAN : CloseStage(b)) => (\E b \in BOOLEAN : CloseStage(b)')
  BY <1>1, SameShader DEF CloseStage, FlagOf
<1>6. EndStage => EndStage'
  BY <1>1, SameShader DEF EndStage
<1> QED
  BY <1>2, <1>3, <1>4, <1>5, <1>6 DEF StageInv

LEMMA StageNext ==
  ASSUME TypeInv, StageInv, [Next]_vars
  PROVE  TypeInv' /\ StageInv'
<1>1. ASSUME NEW w \in Waves, WaveStep(w)  PROVE TypeInv' /\ StageInv'
  BY <1>1, InitIndicesStage, SpecialStage, ApiBarrierStage, OperationsStage, EndApiStage,
     ExtraBarrierStage, ReadFlagStage, ClosingStage DEF WaveStep
<1>2. CASE Release
  BY <1>2, ReleaseStage
<1>3. CASE UNCHANGED vars
  BY <1>3, StageStutter
<1> QED
  BY <1>1, <1>2, <1>3 DEF Next

(***************************************************************************)
(* The stages of a workgroup are an invariant: the waves of the API shader *)
(* have passed the same barriers, and each extra wave as many.             *)
(***************************************************************************)
THEOREM StagesInductive == Spec => [](TypeInv /\ StageInv)
<1>1. Init => TypeInv /\ StageInv
  BY StageInit
<1>2. TypeInv /\ StageInv /\ [Next]_vars => (TypeInv /\ StageInv)'
  BY StageNext
<1> QED
  BY <1>1, <1>2, PTL DEF Spec

(***************************************************************************)
(* The waves meet at corresponding barriers, whatever the wave size, the   *)
(* numbers of threads, vertices and primitives and the barriers the API    *)
(* shader executes.                                                        *)
(***************************************************************************)
THEOREM InStepKept == Spec => []InStep
<1>1. TypeInv /\ StageInv => InStep
  BY InStepHolds
<1> QED
  BY <1>1, StagesInductive, PTL

-----------------------------------------------------------------------------
(* The request for export space, step by step *)

LEMMA AskedSame ==
  ASSUME Asked, sh' = sh, counts' = counts, requests' = requests,
         pc'[0] \in Entry <=> pc[0] \in Entry, pc'[0] = "done" <=> pc[0] = "done",
         CountsSet(at[0])' <=> CountsSet(at[0])
  PROVE  Asked'
BY DEF Asked

LEMMA AskedOther ==
  ASSUME TypeInv, Asked, sh' = sh, counts' = counts, requests' = requests, NEW w \in Waves, w # 0,
         NEW l, pc' = [pc EXCEPT ![w] = l], \A v \in Waves \ {w} : at'[v] = at[v]
  PROVE  Asked'
<1>1. pc'[0] = pc[0] /\ at'[0] = at[0]
  BY ShaderFacts DEF TypeInv
<1>2. CountsSet(at[0])' <=> CountsSet(at[0])
  BY <1>1, SameShader DEF CountsSet
<1> QED
  BY <1>1, <1>2, AskedSame

LEMMA CountsSetNext ==
  ASSUME TypeInv, NEW k \in DOMAIN sh.ops
  PROVE  /\ sh.ops[k].op # "outputs" => (CountsSet(k + 1) <=> CountsSet(k))
         /\ sh.ops[k].op = "outputs" => CountsSet(k + 1) /\ ~CountsSet(k)
<1>1. k \in Int /\ \A i \in DOMAIN sh.ops : (i < k + 1 <=> i < k \/ i = k) /\ (i < k => i # k)
  BY ShaderFacts
<1>2. \A i, j \in DOMAIN sh.ops : sh.ops[i].op = "outputs" /\ sh.ops[j].op = "outputs" => i = j
  BY ShaderFacts DEF IsShader
<1>3. k < k + 1
  BY <1>1
<1>4. CountsSet(k + 1) <=> CountsSet(k) \/ sh.ops[k].op = "outputs"
  BY <1>1, <1>3 DEF CountsSet
<1>5. sh.ops[k].op = "outputs" => ~CountsSet(k)
  BY <1>1, <1>2 DEF CountsSet
<1> QED
  BY <1>4, <1>5

(* Before the last barrier nothing is exported. *)
LEMMA LateEarly ==
  ASSUME TypeInv, Late, ~EndStage, sh' = sh, exports' = exports,
         \A w \in Waves : pc'[w] # pc[w] => pc'[w] # "export"
  PROVE  Late'
<1>1. NoExports /\ \A w \in Waves : pc[w] # "export"
  BY DEF Late
<1>2. NoExports'
  BY <1>1 DEF NoExports, Cells, FlatWorkgroupSize, UsesRowExport
<1> QED
  BY <1>1, <1>2, SameShader DEF Late

LEMMA NotEnd ==
  ASSUME NEW w \in Waves, pc[w] \notin Closing
  PROVE  ~EndStage
BY DEF EndStage

LEMMA InitIndicesRequest ==
  ASSUME TypeInv, StageInv, Asked, Late, NEW w \in Waves, InitIndices(w)
  PROVE  Asked' /\ Late'
<1>1. /\ sh' = sh /\ at' = at /\ counts' = counts /\ requests' = requests /\ exports' = exports
      /\ pc[w] = "init" /\ pc' = [pc EXCEPT ![w] = "special"]
  BY DEF InitIndices, Goto
<1>2. Late'
  BY <1>1, NotEnd, LateEarly DEF Closing, TypeInv
<1>3. CASE w = 0
  <2>1. pc'[0] = "special"
    BY <1>1, <1>3 DEF TypeInv
  <2>2. CountsSet(at[0])' <=> CountsSet(at[0])
    BY <1>1 DEF CountsSet
  <2> QED
    BY <1>1, <1>2, <1>3, <2>1, <2>2, AskedSame DEF Entry
<1>4. CASE w # 0
  BY <1>1, <1>2, <1>4, AskedOther
<1> QED
  BY <1>3, <1>4

LEMMA SpecialRequest ==
  ASSUME TypeInv, StageInv, Asked, Late, NEW w \in Waves, WriteSpecialValue(w)
  PROVE  Asked' /\ Late'
<1> DEFINE l == IF FirstBarrier THEN "barrier.begin" ELSE Body(w)
<1>1. /\ sh' = sh /\ at' = at /\ requests' = requests /\ exports' = exports
      /\ pc[w] = "special" /\ pc' = [pc EXCEPT ![w] = l]
  BY DEF WriteSpecialValue, Goto
<1>2. l \in {"barrier.begin", "api", "extra"}
  BY DEF Body
<1> HIDE DEF l
<1>3. Late'
  BY <1>1, <1>2, NotEnd, LateEarly DEF Closing, TypeInv
<1>4. CASE w = 0
  <2>1. pc'[0] = l /\ requests = <<>>
    BY <1>1, <1>4 DEF TypeInv, Asked, Entry
  <2>2. at[0] = 1
    <3>1. BeginStage \/ InBody
      BY <1>1, PlaceEntry DEF Entry
    <3> QED
      BY <1>1, <1>4, <3>1 DEF BeginStage, InBody, BodyStage, MeshBody, ExtraBody
  <2>3. ~CountsSet(at[0])'
    BY <1>1, <2>2, ShaderFacts DEF CountsSet
  <2>4. counts' = <<InvalidValue, counts[2]>>
    BY <1>4 DEF WriteSpecialValue
  <2>5. counts'[1] = InvalidValue
    BY <2>4
  <2> QED
    BY <1>1, <1>2, <1>3, <2>1, <2>3, <2>5 DEF Asked, Entry
<1>5. CASE w # 0
  <2>1. counts' = counts
    BY <1>5 DEF WriteSpecialValue
  <2> QED
    BY <1>1, <1>3, <1>5, <2>1, AskedOther
<1> QED
  BY <1>4, <1>5

(* A step of the API shader that does not set the counts. *)
LEMMA ApiRequest ==
  ASSUME TypeInv, StageInv, Asked, Late, NEW w \in Waves, pc[w] \in {"api", "or"},
         sh' = sh, counts' = counts, requests' = requests, exports' = exports,
         at[w] \in DOMAIN sh.ops => sh.ops[at[w]].op # "outputs",
         NEW l, l \in {"api", "or", "barrier.api", "barrier.end", "barrier.post"}, pc' = [pc EXCEPT ![w] = l],
         at' = at \/ (Advance(w) /\ at[w] \in DOMAIN sh.ops)
  PROVE  Asked' /\ Late'
<1>1. Late'
  BY NotEnd, LateEarly DEF Closing, TypeInv
<1>2. CASE w = 0
  <2>1. pc'[0] = l
    BY <1>2 DEF TypeInv
  <2>2. CountsSet(at[0])' <=> CountsSet(at[0])
    <3>1. CASE at' = at
      BY <3>1 DEF CountsSet
    <3>2. CASE Advance(w) /\ at[w] \in DOMAIN sh.ops
      <4>1. at'[0] = at[0] + 1
        BY <1>2, <3>2, AdvanceType
      <4>2. CountsSet(at[0] + 1) <=> CountsSet(at[0])
        BY <1>2, <3>2, CountsSetNext
      <4> QED
        BY <4>1, <4>2 DEF CountsSet
    <3> QED
      BY <3>1, <3>2
  <2> QED
    BY <1>1, <1>2, <2>1, <2>2, AskedSame DEF Entry
<1>3. CASE w # 0
  <2>1. \A v \in Waves \ {w} : at'[v] = at[v]
    BY AdvanceType
  <2> QED
    BY <1>1, <1>3, <2>1, AskedOther
<1> QED
  BY <1>2, <1>3

LEMMA OperationsRequest ==
  ASSUME TypeInv, StageInv, Asked, Late, NEW w \in Waves,
         ApiBarrier(w) \/ ClearBits(w) \/ SetBits(w) \/ WriteMeshOutput(w) \/ EndApi(w)
  PROVE  Asked' /\ Late'
<1>0. ASSUME pc[w] \in {"api", "or"}  PROVE at[w] \in 1 .. End
  BY <1>0, ApiStep
<1>1. CASE ApiBarrier(w)
  <2>1. /\ sh' = sh /\ counts' = counts /\ requests' = requests /\ exports' = exports /\ pc[w] = "api"
        /\ HasOp(w, {"barrier"}) /\ pc' = [pc EXCEPT ![w] = "barrier.api"] /\ Advance(w)
    BY <1>1 DEF ApiBarrier, HasOp, Goto, memory
  <2>2. at[w] \in DOMAIN sh.ops /\ sh.ops[at[w]].op \in {"barrier"}
    BY <1>0, <2>1, HasOpFacts
  <2> QED
    BY <2>1, <2>2, ApiRequest
<1>2. CASE ClearBits(w)
  <2>1. /\ sh' = sh /\ counts' = counts /\ requests' = requests /\ exports' = exports /\ pc[w] = "api"
        /\ HasOp(w, {"indices", "culled"}) /\ pc' = [pc EXCEPT ![w] = "or"] /\ at' = at
    BY <1>2 DEF ClearBits, HasOp, Goto
  <2>2. at[w] \in DOMAIN sh.ops /\ sh.ops[at[w]].op \in {"indices", "culled"}
    BY <1>0, <2>1, HasOpFacts
  <2> QED
    BY <2>1, <2>2, ApiRequest
<1>3. CASE SetBits(w)
  <2>1. /\ sh' = sh /\ counts' = counts /\ requests' = requests /\ exports' = exports /\ pc[w] = "or"
        /\ pc' = [pc EXCEPT ![w] = "api"] /\ Advance(w)
    BY <1>3 DEF SetBits, Goto
  <2>2. at[w] \in DOMAIN sh.ops /\ sh.ops[at[w]].op \in {"indices", "culled"}
    BY <2>1, ApiStep
  <2> QED
    BY <2>1, <2>2, ApiRequest
<1>4. CASE WriteMeshOutput(w)
  <2>1. /\ sh' = sh /\ counts' = counts /\ requests' = requests /\ exports' = exports /\ pc[w] = "api"
        /\ HasOp(w, {"write"}) /\ pc' = pc /\ Advance(w)
    BY <1>4 DEF WriteMeshOutput, HasOp
  <2>2. at[w] \in DOMAIN sh.ops /\ sh.ops[at[w]].op \in {"write"}
    BY <1>0, <2>1, HasOpFacts
  <2>3. pc' = [pc EXCEPT ![w] = "api"]
    BY <2>1, SamePlace
  <2> QED
    BY <2>1, <2>2, <2>3, ApiRequest
<1>5. CASE EndApi(w)
  <2> DEFINE l == IF NeedBarrierFlag(sh) THEN "barrier.end" ELSE "barrier.post"
  <2>1. /\ sh' = sh /\ counts' = counts /\ requests' = requests /\ exports' = exports /\ pc[w] = "api"
        /\ pc' = [pc EXCEPT ![w] = l] /\ at' = at /\ at[w] > Len(sh.ops)
    BY <1>5 DEF EndApi, Goto
  <2>2. at[w] \notin DOMAIN sh.ops
    BY <2>1, ShaderFacts
  <2>3. l \in {"barrier.end", "barrier.post"}
    OBVIOUS
  <2> HIDE DEF l
  <2> QED
    BY <2>1, <2>2, <2>3, ApiRequest
<1> QED
  BY <1>1, <1>2, <1>3, <1>4, <1>5

LEMMA SetMeshOutputsRequest ==
  ASSUME TypeInv, StageInv, Asked, Late, NEW w \in Waves, SetMeshOutputs(w)
  PROVE  Asked' /\ Late'
<1>1. /\ sh' = sh /\ exports' = exports /\ pc' = pc /\ pc[w] = "api"
      /\ HasOp(w, {"outputs"}) /\ Advance(w)
  BY DEF SetMeshOutputs, HasOp
<1>2. Late'
  BY <1>1, NotEnd, LateEarly DEF Closing
<1>3. at[w] \in DOMAIN sh.ops /\ sh.ops[at[w]].op = "outputs"
  BY <1>1, ApiStep, HasOpFacts
<1>4. CASE w = 0
  <2> DEFINE v == Op(0).vertices
             p == Op(0).primitives
  <2>1. v \in Nat /\ p \in Nat
    BY <1>3, <1>4, ShaderFacts DEF IsShader, IsOp, Op
  <2>2. ~CountsSet(at[0]) /\ CountsSet(at[0])'
    <3>1. at'[0] = at[0] + 1
      BY <1>1, <1>4, AdvanceType
    <3>2. CountsSet(at[0] + 1) /\ ~CountsSet(at[0])
      BY <1>3, <1>4, CountsSetNext
    <3> QED
      BY <1>1, <3>1, <3>2 DEF CountsSet
  <2>3. requests = <<>>
    BY <1>1, <1>4, <2>2 DEF Asked, Entry
  <2> HIDE DEF v, p
  <2>4. \E new : /\ counts' = new /\ requests' = Append(requests, new)
                 /\ new = IF v * p = 0 THEN <<0, 0>> ELSE <<v, p>>
    BY <1>4 DEF SetMeshOutputs, v, p
  <2>5. requests' = <<counts'>>
    BY <2>3, <2>4
  <2>6. counts' \in Nat \X Nat /\ (counts'[1] = 0 <=> counts'[2] = 0)
    <3>1. CASE v * p = 0
      BY <2>4, <3>1
    <3>2. CASE v * p # 0
      <4>1. v # 0 /\ p # 0
        BY <2>1, <3>2
      <4> QED
        BY <2>1, <2>4, <3>2, <4>1
    <3> QED
      BY <3>1, <3>2
  <2> QED
    BY <1>1, <1>2, <1>4, <2>2, <2>5, <2>6 DEF Asked, Entry
<1>5. CASE w # 0
  <2>1. counts' = counts /\ requests' = requests
    BY <1>5 DEF SetMeshOutputs
  <2>2. \A u \in Waves \ {w} : at'[u] = at[u]
    BY <1>1, AdvanceType
  <2> QED
    BY <1>1, <1>2, <1>5, <2>1, <2>2, AskedOther, SamePlace
<1> QED
  BY <1>4, <1>5

(* The extra waves do not ask. *)
LEMMA ExtraRequest ==
  ASSUME TypeInv, StageInv, Asked, Late, NEW w \in Waves, ExtraBarrier(w) \/ ReadFlag(w)
  PROVE  Asked' /\ Late'
<1>1. /\ sh' = sh /\ exports' = exports /\ counts' = counts /\ requests' = requests
      /\ pc[w] \in {"extra", "flag"} /\ \A u \in Waves \ {w} : at'[u] = at[u]
  <2>1. CASE ExtraBarrier(w)
    <3>1. sh' = sh /\ (at' = at \/ Advance(w))
      BY <2>1 DEF ExtraBarrier
    <3>2. \A u \in Waves \ {w} : at'[u] = at[u]
      BY <3>1, AdvanceType
    <3> QED
      BY <2>1, <3>2 DEF ExtraBarrier, memory
  <2>2. CASE ReadFlag(w)
    BY <2>2 DEF ReadFlag, memory
  <2> QED
    BY <2>1, <2>2
<1>2. \E l \in {"barrier.extra", "barrier.post", "extra"} : pc' = [pc EXCEPT ![w] = l]
  BY DEF ExtraBarrier, ReadFlag, Goto
<1>3. w # 0
  <2>1. MeshWave(0) /\ 0 \in Waves
    BY ShaderFacts
  <2>2. ASSUME w = 0  PROVE FALSE
    <3>1. InBody \/ \E b \in BOOLEAN : CloseStage(b)
      BY <1>1, PlaceBody, PlaceFlag
    <3> QED
      BY <1>1, <2>1, <2>2, <3>1 DEF InBody, BodyStage, MeshBody, CloseStage, Entry
  <2> QED
    BY <2>2
<1>4. Late'
  BY <1>1, <1>2, NotEnd, LateEarly DEF Closing, TypeInv
<1> QED
  BY <1>1, <1>2, <1>3, <1>4, AskedOther

LEMMA ReleaseRequest ==
  ASSUME TypeInv, StageInv, Asked, Late, Release
  PROVE  Asked' /\ Late'
<1>1. sh' = sh /\ at' = at /\ counts' = counts /\ requests' = requests /\ exports' = exports
  BY DEF Release, memory
<1>2. ~EndStage
  BY DEF Release, EndStage, Closing, Barriers
<1>3. ASSUME NEW w \in Waves
      PROVE  pc[w] \in Barriers /\ pc'[w] \in {"api", "extra", "barrier.post", "flag", "counts"}
  <2>1. pc[w] \notin Closing
    BY <1>2, PlaceEnd
  <2>2. pc[w] \in Barriers /\ pc'[w] = AfterBarrier(w)
    BY <2>1 DEF Release, Closing
  <2> QED
    BY <2>2 DEF AfterBarrier, Body, Barriers
<1>4. Late'
  BY <1>1, <1>2, <1>3, LateEarly
<1>5. pc'[0] \notin Entry /\ pc[0] \notin Entry /\ pc'[0] # "done" /\ pc[0] # "done"
  BY <1>3, ShaderFacts DEF Entry, Barriers
<1>6. CountsSet(at[0])' <=> CountsSet(at[0])
  BY <1>1 DEF CountsSet
<1> QED
  BY <1>1, <1>4, <1>5, <1>6, AskedSame

LEMMA CheckCountsRequest ==
  ASSUME TypeInv, StageInv, Asked, Late, NEW w \in Waves, CheckCounts(w)
  PROVE  Asked' /\ Late'
<1> DEFINE l == IF counts[1] \in {InvalidValue, 0} THEN "done" ELSE "export"
<1>1. /\ sh' = sh /\ at' = at /\ counts' = counts /\ exports' = exports
      /\ pc[w] = "counts" /\ pc' = [pc EXCEPT ![w] = l]
      /\ requests' = IF counts[1] = InvalidValue /\ w = 0 THEN Append(requests, <<0, 0>>) ELSE requests
  BY DEF CheckCounts, Goto, memory
<1>2. /\ counts[1] \in {InvalidValue, 0} => l = "done"
      /\ counts[1] \notin {InvalidValue, 0} => l = "export"
  OBVIOUS
<1> HIDE DEF l
<1>3. EndStage /\ EndStage'
  BY ClosingStage
<1>4. Late'
  <2>1. NoExports => NoExports'
    BY <1>1 DEF NoExports, Cells, FlatWorkgroupSize, UsesRowExport
  <2>2. \A v \in Waves : pc'[v] = pc[v] \/ pc'[v] = l
    BY <1>1 DEF TypeInv
  <2> QED
    BY <1>1, <1>2, <1>3, <2>1, <2>2, SameShader DEF Late
<1>5. CountsSet(at[0])' <=> CountsSet(at[0])
  BY <1>1 DEF CountsSet
<1>6. CASE w = 0
  <2>1. pc'[0] = l /\ l \notin Entry /\ pc[0] \notin Entry
    BY <1>1, <1>2, <1>6 DEF TypeInv, Entry
  <2>2. CASE CountsSet(at[0])
    <3>1. requests = <<counts>> /\ counts \in Nat \X Nat /\ (counts[1] = 0 <=> counts[2] = 0)
      BY <2>1, <2>2 DEF Asked
    <3>2. counts[1] # InvalidValue
      BY <3>1 DEF InvalidValue
    <3> QED
      BY <1>1, <1>4, <1>5, <2>1, <2>2, <3>1, <3>2 DEF Asked
  <2>3. CASE ~CountsSet(at[0])
    <3>1. counts[1] = InvalidValue /\ requests = <<>>
      BY <1>1, <1>6, <2>1, <2>3 DEF Asked
    <3>2. requests' = << <<0, 0>> >> /\ pc'[0] = "done"
      BY <1>1, <1>2, <1>6, <2>1, <3>1
    <3> QED
      BY <1>1, <1>4, <1>5, <2>1, <2>3, <3>1, <3>2 DEF Asked
  <2> QED
    BY <2>2, <2>3
<1>7. CASE w # 0
  BY <1>1, <1>4, <1>7, AskedOther
<1> QED
  BY <1>6, <1>7

LEMMA ExportRequest ==
  ASSUME TypeInv, StageInv, Asked, Late, NEW w \in Waves, Export(w) \/ ExportDone(w) \/ Exit(w)
  PROVE  Asked' /\ Late'
<1>1. /\ sh' = sh /\ at' = at /\ counts' = counts /\ requests' = requests
      /\ pc[w] = "export" /\ (pc' = pc \/ pc' = [pc EXCEPT ![w] = "done"])
  BY DEF Export, ExportDone, Exit, Goto, memory
<1>2. EndStage /\ EndStage'
  BY ClosingStage
<1>3. counts[1] \notin {InvalidValue, 0}
  BY <1>1 DEF Late
<1>4. Late'
  BY <1>1, <1>2, <1>3 DEF Late
<1>5. CountsSet(at[0])' <=> CountsSet(at[0])
  BY <1>1 DEF CountsSet
<1>6. pc[0] \in Closing /\ pc'[0] \in Closing
  BY <1>1, <1>2, ShaderFacts, SameShader DEF EndStage
<1>7. pc[0] \notin Entry /\ pc'[0] \notin Entry /\ CountsSet(at[0])
  BY <1>3, <1>6 DEF Asked, Entry, Closing
<1> QED
  BY <1>1, <1>4, <1>5, <1>7 DEF Asked

LEMMA RequestNext ==
  ASSUME TypeInv, StageInv, Asked, Late, [Next]_vars
  PROVE  Asked' /\ Late'
<1>1. ASSUME NEW w \in Waves, WaveStep(w)  PROVE Asked' /\ Late'
  BY <1>1, InitIndicesRequest, SpecialRequest, OperationsRequest, SetMeshOutputsRequest,
     ExtraRequest, CheckCountsRequest, ExportRequest DEF WaveStep
<1>2. CASE Release
  BY <1>2, ReleaseRequest
<1>3. CASE UNCHANGED vars
  <2>1. /\ sh' = sh /\ at' = at /\ pc' = pc /\ counts' = counts /\ requests' = requests /\ exports' = exports
    BY <1>3 DEF vars
  <2>2. (CountsSet(at[0])' <=> CountsSet(at[0])) /\ (EndStage => EndStage') /\ (NoExports => NoExports')
    BY <2>1, SameShader DEF CountsSet, EndStage, NoExports, Cells, FlatWorkgroupSize, UsesRowExport
  <2>3. Late'
    BY <2>1, <2>2, SameShader DEF Late
  <2> QED
    BY <2>1, <2>2, <2>3, AskedSame
<1> QED
  BY <1>1, <1>2, <1>3 DEF Next

(***************************************************************************)
(* What the first wave has asked for, and that nothing is exported before  *)
(* the last barrier or without counts.                                     *)
(***************************************************************************)
THEOREM RequestInductive == Spec => [](Asked /\ Late)
<1>1. Init => Asked /\ Late
  <2> SUFFICES ASSUME Init  PROVE Asked /\ Late
    OBVIOUS
  <2>1. pc[0] = "init" /\ requests = <<>> /\ NoExports /\ \A w \in Waves : pc[w] = "init"
    BY TypeInit, ShaderFacts DEF Init, NoExports
  <2> QED
    BY <2>1 DEF Asked, Late, Entry
<1>2. TypeInv /\ StageInv /\ Asked /\ Late /\ [Next]_vars => (Asked /\ Late)'
  BY RequestNext
<1> QED
  BY <1>1, <1>2, StagesInductive, PTL DEF Spec

(***************************************************************************)
(* Export space is requested once and before anything is exported, with    *)
(* the counts SetMeshOutputs stored, or with none where the API shader     *)
(* never executes it.                                                      *)
(***************************************************************************)
THEOREM OneRequestKept == Spec => []OneRequest
<1>1. TypeInv /\ StageInv /\ Asked /\ Late => OneRequest
  <2> SUFFICES ASSUME TypeInv, StageInv, Asked, Late  PROVE OneRequest
    OBVIOUS
  <2>1. 0 \in Waves
    BY ShaderFacts
  <2>2. Len(requests) <= 1
    BY DEF Asked
  <2>3. ASSUME ~NoExports  PROVE requests = <<counts>> /\ counts # <<0, 0>>
    <3>1. EndStage /\ counts[1] \notin {InvalidValue, 0}
      BY <2>3 DEF Late
    <3>2. pc[0] \notin Entry
      BY <2>1, <3>1 DEF EndStage, Closing, Entry
    <3> QED
      BY <3>1, <3>2 DEF Asked
  <2>4. ASSUME \A w \in Waves : pc[w] = "done"
        PROVE  requests = <<IF counts[1] = InvalidValue THEN <<0, 0>> ELSE counts>>
    <3>1. pc[0] = "done" /\ pc[0] \notin Entry
      BY <2>1, <2>4 DEF Entry
    <3>2. CASE CountsSet(at[0])
      <4>1. requests = <<counts>> /\ counts \in Nat \X Nat
        BY <3>1, <3>2 DEF Asked
      <4>2. counts[1] # InvalidValue
        BY <4>1 DEF InvalidValue
      <4> QED
        BY <4>1, <4>2
    <3>3. CASE ~CountsSet(at[0])
      BY <3>1, <3>3 DEF Asked
    <3> QED
      BY <3>2, <3>3
  <2> QED
    BY <2>2, <2>3, <2>4 DEF OneRequest, NoExports
<1> QED
  BY <1>1, RequestInductive, StagesInductive, PTL

-----------------------------------------------------------------------------
(* What the API shader has written so far *)

Line(i) == i \div sh.waveSize

Writes == {"indices", "culled", "write"}

(* The thread that writes an output with operation k, and whether a thread   *)
(* of wave w does.                                                           *)
Author(k, c) == CHOOSE t \in DOMAIN sh.ops[k].at : sh.ops[k].at[t] = c

About(k, op, region, slot) == sh.ops[k].op = op /\ sh.ops[k].region = region /\ sh.ops[k].slot = slot
HitBy(w, k, c) == \E t \in DOMAIN sh.ops[k].at : sh.ops[k].at[t] = c /\ Line(t) = w

(* The operations on an output that were executed. *)
Executed(op, region, slot, c) ==
  {k \in DOMAIN sh.ops : /\ About(k, op, region, slot)
                         /\ \E t \in DOMAIN sh.ops[k].at : sh.ops[k].at[t] = c /\ k < at[Line(t)]}

Latest(k, S) == k \in S /\ \A j \in S : j <= k

(* Between the two halves of an operation on a primitive. *)
Pending(op, c) == \E w \in Waves : pc[w] = "or" /\ Op(w).op = op /\ c \in Targets(w)

Ready(c) == OutputsToAllocas(sh) \/ \E w \in Waves : pc[w] # "init" /\ c \in Rows(w, sh.primitives)

IndicesRight(c) ==
  LET S == Executed("indices", "none", NoSlot, c)
  IN  /\ S = {} => prims[c].indices = ZeroIndices
      /\ \A k \in DOMAIN sh.ops : Latest(k, S) => prims[c].indices = <<k, Author(k, c)>>

NullRight(c) ==
  LET S == Executed("culled", "none", NoSlot, c)
  IN  /\ S = {} => prims[c].null = FALSE
      /\ \A k \in DOMAIN sh.ops : Latest(k, S) => prims[c].null = sh.ops[k].isCulled

PrimsInv ==
  \A c \in Cells(sh) : Ready(c) =>
    /\ ~Pending("indices", c) => IndicesRight(c)
    /\ ~Pending("culled", c) => NullRight(c)
    /\ Pending("culled", c) => prims[c].null = FALSE

Regions == {"vertex", "primitive"}

OutsInv ==
  \A r \in Regions, c \in Cells(sh), e \in Slots :
    \A k \in DOMAIN sh.ops : Latest(k, Executed("write", r, e, c)) => outs[r][c][e] = <<k, Author(k, c)>>

MemoryType ==
  /\ DOMAIN prims = Cells(sh) /\ \A c \in Cells(sh) : prims[c] = [indices |-> prims[c].indices, null |-> prims[c].null]
  /\ DOMAIN outs = Regions
  /\ \A r \in Regions : DOMAIN outs[r] = Cells(sh) /\ \A c \in Cells(sh) : DOMAIN outs[r][c] = Slots

(* The counts are those of the trace. *)
CountsInv ==
  \/ counts[1] \in {Garbage, InvalidValue}
  \/ counts = <<0, 0>>
  \/ \E k \in DOMAIN sh.ops : sh.ops[k].op = "outputs" /\ counts = <<sh.ops[k].vertices, sh.ops[k].primitives>>

-----------------------------------------------------------------------------
(* What was exported *)

(* The wave that exports an index, and whether it has when it is at row l of *)
(* its export number p.                                                      *)
Owner(i) == Line(i) % NumWaves(sh)

Passed(k, i, p, l) ==
  \E q \in DOMAIN Phases : Phases[q] = k /\ (q < p \/ (q = p /\ Line(i) < Owner(i) + l))

Exported(k, i) == i < Count(k) /\ Passed(k, i, phase[Owner(i)], loopIndex[Owner(i)])

Valid == counts[1] \notin {Garbage, InvalidValue, 0}

ExportType ==
  /\ DOMAIN exports = Kinds /\ \A k \in Kinds : DOMAIN exports[k] = Cells(sh)
  /\ phase \in [Waves -> Nat \ {0}] /\ loopIndex \in [Waves -> Nat]
  /\ \A w \in Waves : \E m \in 0 .. loopIndex[w] : loopIndex[w] = m * NumWaves(sh)
  /\ ~UsesRowExport(sh) => \A w \in Waves : loopIndex[w] = 0
  /\ \A w \in Waves : phase[w] <= Len(Phases) + 1
  /\ \A w \in Waves : pc[w] \notin {"export", "done"} => phase[w] = 1 /\ loopIndex[w] = 0
  /\ \A w \in Waves : pc[w] = "done" /\ Valid => phase[w] = Len(Phases) + 1

ExportInv ==
  EndStage /\ Valid =>
    \A k \in Kinds, i \in Cells(sh) :
      /\ Exported(k, i) => exports[k][i] = <<[row |-> Line(i), data |-> Data(k, i)]>>
      /\ ~Exported(k, i) => exports[k][i] = <<>>

-----------------------------------------------------------------------------
(* Threads and waves *)

LEMMA DivIs ==
  ASSUME NEW n \in Nat, NEW m \in Nat \ {0}, NEW q \in Nat
  PROVE  n \div m = q <=> q * m <= n /\ n < q * m + m
<1> DEFINE d == n \div m
<1>1. d \in Nat /\ d * m <= n /\ n < d * m + m
  BY Division
<1> HIDE DEF d
<1>2. d < q => d * m + m <= q * m
  BY <1>1
<1>3. q < d => q * m + m <= d * m
  BY <1>1
<1>4. q * m \in Nat /\ d * m \in Nat
  BY <1>1
<1>5. d = q <=> q * m <= n /\ n < q * m + m
  BY <1>1, <1>2, <1>3, <1>4
<1> QED
  BY <1>5 DEF d

LEMMA ThreadLine ==
  ASSUME TypeInv, NEW w \in Nat, NEW t
  PROVE  t \in Threads(w) <=> t \in Nat /\ Line(t) = w
<1>1. sh.waveSize \in Nat \ {0}
  BY ShaderFacts DEF IsShader
<1>2. w * sh.waveSize \in Nat /\ (w + 1) * sh.waveSize = w * sh.waveSize + sh.waveSize
  BY <1>1
<1>3. t \in Threads(w) <=> t \in Nat /\ w * sh.waveSize <= t /\ t < w * sh.waveSize + sh.waveSize
  BY <1>1, <1>2 DEF Threads
<1> QED
  BY <1>1, <1>3, DivIs DEF Line

(* An invocation of the API shader runs in a wave that executes it. *)
LEMMA ApiLine ==
  ASSUME TypeInv, NEW t \in 0 .. sh.threads - 1
  PROVE  Line(t) \in Nat /\ Line(t) \in Waves /\ Line(t) < NumMeshWaves(sh) /\ MeshWave(Line(t))
<1>1. IsShader(sh) /\ sh.waveSize \in Nat \ {0} /\ sh.threads \in Nat
  BY ShaderFacts DEF IsShader
<1>2. /\ NumMeshWaves(sh) \in Nat /\ NumWaves(sh) \in Nat /\ NumMeshWaves(sh) <= NumWaves(sh)
      /\ sh.threads <= NumMeshWaves(sh) * sh.waveSize
  BY <1>1, WaveCounts
<1>3. t \in Nat /\ t < sh.threads
  BY <1>1
<1> DEFINE d == Line(t)
<1>4. d \in Nat /\ d * sh.waveSize <= t
  BY <1>1, <1>3, Division DEF Line
<1> HIDE DEF d
<1>5. d < NumMeshWaves(sh)
  <2>1. ASSUME NumMeshWaves(sh) <= d  PROVE FALSE
    <3>1. NumMeshWaves(sh) * sh.waveSize <= d * sh.waveSize
      BY <1>1, <1>2, <1>4, <2>1
    <3>2. NumMeshWaves(sh) * sh.waveSize \in Nat /\ d * sh.waveSize \in Nat
      BY <1>1, <1>2, <1>4
    <3> QED
      BY <1>1, <1>2, <1>3, <1>4, <3>1, <3>2
  <2> QED
    BY <1>2, <1>4, <2>1
<1> QED
  BY <1>2, <1>4, <1>5 DEF d, Waves, MeshWave

LEMMA OpFacts ==
  ASSUME TypeInv, NEW k \in DOMAIN sh.ops, sh.ops[k].op \in Writes
  PROVE  /\ DOMAIN sh.ops[k].at \subseteq 0 .. sh.threads - 1
         /\ \A t, u \in DOMAIN sh.ops[k].at : sh.ops[k].at[t] = sh.ops[k].at[u] => t = u
<1>1. IsOp(sh, sh.ops[k]) /\ ~Races(sh.ops)
  BY ShaderFacts DEF IsShader
<1>2. DOMAIN sh.ops[k].at \subseteq 0 .. sh.threads - 1
  BY <1>1 DEF IsOp, Writes
<1>3. k \in Int
  BY ShaderFacts
<1>4. ASSUME NEW t \in DOMAIN sh.ops[k].at, NEW u \in DOMAIN sh.ops[k].at, t # u
      PROVE  sh.ops[k].at[t] # sh.ops[k].at[u]
  <2>1. ~ \E i \in k .. k : sh.ops[i].op = "barrier"
    BY <1>3 DEF Writes
  <2>2. k <= k
    BY <1>3
  <2> QED
    BY <1>1, <1>4, <2>1, <2>2 DEF Races, Writes
<1> QED
  BY <1>2, <1>4

(* The cells an operation writes, and by which thread. *)
LEMMA TargetFacts ==
  ASSUME TypeInv, NEW w \in Waves, at[w] \in DOMAIN sh.ops, sh.ops[at[w]].op \in Writes
  PROVE  /\ \A c : c \in Targets(w) <=> HitBy(w, at[w], c)
         /\ \A c \in Targets(w) : Value(w, c) = <<at[w], Author(at[w], c)>>
<1> DEFINE f == sh.ops[at[w]].at
<1>1. /\ DOMAIN f \subseteq 0 .. sh.threads - 1
      /\ \A t, u \in DOMAIN f : f[t] = f[u] => t = u
  BY OpFacts
<1>2. \A t \in DOMAIN f : Cell(t, f[t]) = f[t]
  <2>1. IsOp(sh, sh.ops[at[w]])
    BY ShaderFacts DEF IsShader
  <2> QED
    BY <2>1 DEF Cell, OutputsToAllocas, Writes, IsOp
<1>3. w \in Nat
  BY DEF Waves
<1>4. \A t \in DOMAIN f : t \in Active(w) <=> Line(t) = w
  <2>1. \A t \in DOMAIN f : t \in Nat /\ t < sh.threads
    BY <1>1, ShaderFacts DEF IsShader
  <2> QED
    BY <1>3, <2>1, ThreadLine DEF Active, ApiThreads, Op
<1>5. Active(w) \subseteq DOMAIN f
  BY DEF Active, Op
<1>6. ASSUME NEW c  PROVE c \in Targets(w) <=> HitBy(w, at[w], c)
  BY <1>2, <1>4, <1>5 DEF Targets, HitBy, Op
<1>7. ASSUME NEW c \in Targets(w)  PROVE Value(w, c) = <<at[w], Author(at[w], c)>>
  <2>1. PICK t \in Active(w) : f[t] = c
    BY <1>2, <1>5, <1>7 DEF Targets, Op
  <2>2. Writer(w, c) = t
    BY <1>1, <1>2, <1>5, <2>1 DEF Writer, Op
  <2>3. Author(at[w], c) = t
    BY <1>1, <1>5, <2>1 DEF Author
  <2> QED
    BY <2>2, <2>3 DEF Value
<1> QED
  BY <1>6, <1>7

-----------------------------------------------------------------------------
(* The order of the writes *)

LEMMA ExecutedSame ==
  ASSUME TypeInv, sh' = sh, \A v \in Waves : MeshWave(v) => at'[v] = at[v],
         NEW op \in Writes, NEW r, NEW e, NEW c
  PROVE  Executed(op, r, e, c)' = Executed(op, r, e, c)
<1>1. ASSUME NEW k \in DOMAIN sh.ops, sh.ops[k].op = op, NEW t \in DOMAIN sh.ops[k].at
      PROVE  at'[Line(t)] = at[Line(t)]
  <2>1. t \in 0 .. sh.threads - 1
    BY <1>1, OpFacts
  <2> QED
    BY <2>1, ApiLine
<1>2. \A t : Line(t)' = Line(t)
  BY DEF Line
<1> QED
  BY <1>1, <1>2 DEF Executed, About

LEMMA ExecutedNext ==
  ASSUME TypeInv, sh' = sh, NEW w \in Waves, Advance(w), at[w] \in DOMAIN sh.ops,
         NEW op \in Writes, NEW r, NEW e, NEW c
  PROVE  /\ About(at[w], op, r, e) /\ HitBy(w, at[w], c) =>
              Executed(op, r, e, c)' = Executed(op, r, e, c) \cup {at[w]}
         /\ ~(About(at[w], op, r, e) /\ HitBy(w, at[w], c)) =>
              Executed(op, r, e, c)' = Executed(op, r, e, c)
<1> DEFINE k == at[w]
<1>1. at'[w] = k + 1 /\ \A v \in Waves \ {w} : at'[v] = at[v]
  BY AdvanceType
<1>2. k \in Int /\ \A i \in DOMAIN sh.ops : (i < k + 1 <=> i < k \/ i = k)
  BY ShaderFacts
<1> HIDE DEF k
<1>3. ASSUME NEW i \in DOMAIN sh.ops, sh.ops[i].op = op, NEW t \in DOMAIN sh.ops[i].at
      PROVE  i < at'[Line(t)] <=> i < at[Line(t)] \/ (Line(t) = w /\ i = k)
  <2>1. t \in 0 .. sh.threads - 1
    BY <1>3, OpFacts
  <2>2. Line(t) \in Waves
    BY <2>1, ApiLine
  <2>3. CASE Line(t) = w
    BY <1>1, <1>2, <2>3 DEF k
  <2>4. CASE Line(t) # w
    BY <1>1, <2>2, <2>4
  <2> QED
    BY <2>3, <2>4
<1>4. \A t : Line(t)' = Line(t)
  BY DEF Line
<1>5. ASSUME NEW i
      PROVE  i \in Executed(op, r, e, c)' <=>
               \/ i \in Executed(op, r, e, c)
               \/ i = k /\ About(k, op, r, e) /\ HitBy(w, k, c)
  <2>1. i \in Executed(op, r, e, c)' <=>
          /\ i \in DOMAIN sh.ops /\ About(i, op, r, e)
          /\ \E t \in DOMAIN sh.ops[i].at : sh.ops[i].at[t] = c /\ i < at'[Line(t)]
    BY <1>4 DEF Executed, About
  <2>2. i \in DOMAIN sh.ops /\ About(i, op, r, e) =>
          \A t \in DOMAIN sh.ops[i].at : (i < at'[Line(t)] <=> i < at[Line(t)] \/ (Line(t) = w /\ i = k))
    BY <1>3 DEF About
  <2>3. k \in DOMAIN sh.ops
    BY DEF k
  <2> QED
    BY <2>1, <2>2, <2>3 DEF Executed, HitBy
<1> QED
  BY <1>5 DEF k

(* Two operations on the same kind of output. *)
Alike(k, j) ==
  /\ sh.ops[k].op \in Writes /\ sh.ops[k].op = sh.ops[j].op
  /\ sh.ops[k].region = sh.ops[j].region /\ sh.ops[k].slot = sh.ops[j].slot

(* Two invocations that write one output have a barrier in between. *)
LEMMA Apart ==
  ASSUME TypeInv, NEW k \in DOMAIN sh.ops, NEW j \in DOMAIN sh.ops, k <= j,
         Alike(k, j), NEW t \in DOMAIN sh.ops[k].at, NEW u \in DOMAIN sh.ops[j].at, t # u,
         sh.ops[k].at[t] = sh.ops[j].at[u]
  PROVE  \E p \in DOMAIN sh.ops : sh.ops[p].op = "barrier" /\ k < p /\ p < j
<1>1. ~Races(sh.ops)
  BY ShaderFacts DEF IsShader
<1>2. PICK p \in k .. j : sh.ops[p].op = "barrier"
  BY <1>1 DEF Races, Alike, Writes
<1>3. p # k /\ p # j
  BY <1>2 DEF Alike, Writes
<1>4. p \in DOMAIN sh.ops /\ k < p /\ p < j
  BY <1>3, ShaderFacts
<1> QED
  BY <1>2, <1>4

(* A barrier that a wave has behind it is behind all. *)
LEMMA BehindAll ==
  ASSUME TypeInv, NEW D, NEW b, BodyStage(D, b), NEW v \in Waves, MeshWave(v),
         NEW p \in DOMAIN sh.ops, NEW j \in DOMAIN sh.ops, sh.ops[p].op = "barrier", p < j,
         j < at[v] \/ (j = at[v] /\ pc[v] = "or")
  PROVE  p \in D
<1>1. MeshBody(v, D, b)
  BY DEF BodyStage
<1>2. p \in Int /\ j \in Int /\ at[v] \in Int /\ 1 <= p /\ p < End
  BY ShaderFacts DEF TypeInv, End
<1>3. p < at[v] /\ (p < at[v] - 1 \/ pc[v] = "or")
  BY <1>2
<1>4. ~(at[v] = 1)
  BY <1>2, <1>3
<1> QED
  BY <1>1, <1>2, <1>3, <1>4 DEF MeshBody, Before

(* What a wave writes now comes after all that was written. *)
LEMMA Ordered ==
  ASSUME TypeInv, StageInv, NEW w \in Waves, pc[w] \in {"api", "or"}, at[w] \in DOMAIN sh.ops,
         NEW op \in Writes, NEW r, NEW e, NEW c, About(at[w], op, r, e), HitBy(w, at[w], c),
         NEW j \in Executed(op, r, e, c)
  PROVE  j < at[w]
<1> DEFINE k == at[w]
<1>1. PICK D \in SUBSET DOMAIN sh.ops, b \in BOOLEAN :
        BodyStage(D, b) /\ MeshWave(w) /\ D = Before(at[w])
  BY ApiStep
<1>2. j \in DOMAIN sh.ops /\ About(j, op, r, e)
  BY DEF Executed
<1>3. PICK u \in DOMAIN sh.ops[j].at : sh.ops[j].at[u] = c /\ j < at[Line(u)]
  BY DEF Executed
<1>4. PICK t \in DOMAIN sh.ops[k].at : sh.ops[k].at[t] = c /\ Line(t) = w
  BY DEF HitBy
<1>5. k \in Int /\ j \in Int
  BY <1>2, ShaderFacts
<1>6. u \in 0 .. sh.threads - 1
  BY <1>2, <1>3, OpFacts DEF About
<1>7. Line(u) \in Waves /\ MeshWave(Line(u))
  BY <1>6, ApiLine
<1>8. ASSUME k <= j  PROVE FALSE
  <2>1. Line(u) # w
    BY <1>3, <1>5, <1>8
  <2>2. t # u
    BY <1>4, <2>1
  <2>3. PICK p \in DOMAIN sh.ops : sh.ops[p].op = "barrier" /\ k < p /\ p < j
    <3>1. Alike(k, j)
      BY <1>2 DEF About, Alike
    <3>2. sh.ops[k].at[t] = sh.ops[j].at[u]
      BY <1>3, <1>4
    <3> QED
      BY <1>2, <1>8, <2>2, <3>1, <3>2, Apart
  <2>4. p \in D
    BY <1>1, <1>2, <1>3, <1>7, <2>3, BehindAll
  <2>5. p \in Int /\ p < k
    BY <1>1, <2>3, <2>4, ShaderFacts DEF Before
  <2> QED
    BY <1>5, <2>3, <2>5
<1> QED
  BY <1>5, <1>8

(* No two waves are at operations on one output. *)
LEMMA NoClash ==
  ASSUME TypeInv, StageInv, NEW w \in Waves, NEW v \in Waves, v # w, pc[w] \in {"api", "or"}, pc[v] = "or",
         at[w] \in DOMAIN sh.ops, at[v] \in DOMAIN sh.ops,
         NEW op \in Writes, NEW r, NEW e, NEW c, About(at[w], op, r, e), About(at[v], op, r, e),
         HitBy(w, at[w], c), HitBy(v, at[v], c)
  PROVE  FALSE
<1>1. PICK D \in SUBSET DOMAIN sh.ops, b \in BOOLEAN :
        BodyStage(D, b) /\ MeshWave(w) /\ D = Before(at[w])
  BY ApiStep
<1>2. D = Before(at[v])
  BY <1>1, AtApi
<1>3. PICK k \in DOMAIN sh.ops, j \in DOMAIN sh.ops : k = at[w] /\ j = at[v]
  OBVIOUS
<1>4. Alike(k, j) /\ Alike(j, k)
  BY <1>3 DEF About, Alike
<1>5. PICK t \in DOMAIN sh.ops[k].at : sh.ops[k].at[t] = c /\ Line(t) = w
  BY <1>3 DEF HitBy
<1>6. PICK u \in DOMAIN sh.ops[j].at : sh.ops[j].at[u] = c /\ Line(u) = v
  BY <1>3 DEF HitBy
<1>7. t # u /\ u # t /\ sh.ops[k].at[t] = sh.ops[j].at[u] /\ k \in Int /\ j \in Int
  BY <1>5, <1>6, ShaderFacts
<1>8. CASE k <= j
  <2>1. PICK p \in DOMAIN sh.ops : sh.ops[p].op = "barrier" /\ k < p /\ p < j
    BY <1>4, <1>7, <1>8, Apart
  <2>2. p \in Before(j)
    BY <2>1 DEF Before
  <2>3. p \in Int /\ p < k
    BY <1>1, <1>2, <1>3, <2>1, <2>2, ShaderFacts DEF Before
  <2> QED
    BY <1>7, <2>1, <2>3
<1>9. CASE j <= k
  <2>1. PICK p \in DOMAIN sh.ops : sh.ops[p].op = "barrier" /\ j < p /\ p < k
    BY <1>4, <1>7, <1>9, Apart
  <2>2. p \in Before(k)
    BY <2>1 DEF Before
  <2>3. p \in Int /\ p < j
    BY <1>1, <1>2, <1>3, <2>1, <2>2, ShaderFacts DEF Before
  <2> QED
    BY <1>7, <2>1, <2>3
<1> QED
  BY <1>7, <1>8, <1>9

-----------------------------------------------------------------------------
(* Steps that leave the outputs alone *)

(* No wave begins or ends an operation on a primitive, or its entry. *)
SamePlaces ==
  \A v \in Waves : /\ pc'[v] = "or" <=> pc[v] = "or"
                   /\ pc[v] = "or" => at'[v] = at[v]
                   /\ pc'[v] = "init" <=> pc[v] = "init"

SameExecuted == \A op \in Writes : \A r, e, c : Executed(op, r, e, c)' = Executed(op, r, e, c)

Quiet == sh' = sh /\ prims' = prims /\ outs' = outs /\ SamePlaces /\ SameExecuted

LEMMA QuietWave ==
  ASSUME TypeInv, StageInv, NEW w \in Waves, sh' = sh, prims' = prims, outs' = outs,
         pc[w] \notin {"or", "init"}, NEW l, l \notin {"or", "init"}, pc' = [pc EXCEPT ![w] = l],
         \/ at' = at
         \/ Advance(w) /\ ~MeshWave(w)
         \/ Advance(w) /\ at[w] \in DOMAIN sh.ops /\ sh.ops[at[w]].op \notin Writes
  PROVE  Quiet
<1>1. \A v \in Waves : pc'[v] = IF v = w THEN l ELSE pc[v]
  BY DEF TypeInv
<1>2. \A v \in Waves \ {w} : at'[v] = at[v]
  BY AdvanceType
<1>3. SamePlaces
  BY <1>1, <1>2 DEF SamePlaces
<1>4. SameExecuted
  <2> SUFFICES ASSUME NEW op \in Writes, NEW r, NEW e, NEW c
               PROVE  Executed(op, r, e, c)' = Executed(op, r, e, c)
    BY DEF SameExecuted
  <2>1. CASE at' = at
    BY <2>1, ExecutedSame
  <2>2. CASE Advance(w) /\ ~MeshWave(w)
    <3>1. \A v \in Waves : MeshWave(v) => at'[v] = at[v]
      BY <1>2, <2>2
    <3> QED
      BY <3>1, ExecutedSame
  <2>3. CASE Advance(w) /\ at[w] \in DOMAIN sh.ops /\ sh.ops[at[w]].op \notin Writes
    <3>1. ~About(at[w], op, r, e)
      BY <2>3 DEF About
    <3> QED
      BY <2>3, <3>1, ExecutedNext
  <2> QED
    BY <2>1, <2>2, <2>3
<1> QED
  BY <1>3, <1>4 DEF Quiet

LEMMA QuietSteps ==
  ASSUME TypeInv, StageInv, NEW w \in Waves,
         \/ WriteSpecialValue(w) \/ ApiBarrier(w) \/ SetMeshOutputs(w) \/ EndApi(w)
         \/ ExtraBarrier(w) \/ ReadFlag(w) \/ CheckCounts(w) \/ Export(w) \/ ExportDone(w) \/ Exit(w)
  PROVE  Quiet
<1>1. CASE WriteSpecialValue(w)
  <2> DEFINE l == IF FirstBarrier THEN "barrier.begin" ELSE Body(w)
  <2>1. /\ sh' = sh /\ prims' = prims /\ outs' = outs /\ at' = at
        /\ pc[w] = "special" /\ pc' = [pc EXCEPT ![w] = l]
    BY <1>1 DEF WriteSpecialValue, Goto
  <2>2. l \notin {"or", "init"}
    BY DEF Body
  <2> HIDE DEF l
  <2> QED
    BY <2>1, <2>2, QuietWave
<1>2. CASE ApiBarrier(w)
  <2>1. /\ sh' = sh /\ prims' = prims /\ outs' = outs /\ pc[w] = "api" /\ HasOp(w, {"barrier"})
        /\ Advance(w) /\ pc' = [pc EXCEPT ![w] = "barrier.api"]
    BY <1>2 DEF ApiBarrier, Goto, HasOp, memory
  <2>2. at[w] \in DOMAIN sh.ops /\ sh.ops[at[w]].op \in {"barrier"}
    BY <2>1, ApiStep, HasOpFacts
  <2> QED
    BY <2>1, <2>2, QuietWave DEF Writes
<1>3. CASE SetMeshOutputs(w)
  <2>1. /\ sh' = sh /\ prims' = prims /\ outs' = outs /\ pc[w] = "api" /\ HasOp(w, {"outputs"})
        /\ Advance(w) /\ pc' = [pc EXCEPT ![w] = "api"]
    BY <1>3, SamePlace DEF SetMeshOutputs, HasOp
  <2>2. at[w] \in DOMAIN sh.ops /\ sh.ops[at[w]].op \in {"outputs"}
    BY <2>1, ApiStep, HasOpFacts
  <2> QED
    BY <2>1, <2>2, QuietWave DEF Writes
<1>4. CASE EndApi(w)
  <2> DEFINE l == IF NeedBarrierFlag(sh) THEN "barrier.end" ELSE "barrier.post"
  <2>1. /\ sh' = sh /\ prims' = prims /\ outs' = outs /\ at' = at
        /\ pc[w] = "api" /\ pc' = [pc EXCEPT ![w] = l]
    BY <1>4 DEF EndApi, Goto
  <2>2. l \notin {"or", "init"}
    OBVIOUS
  <2> HIDE DEF l
  <2> QED
    BY <2>1, <2>2, QuietWave
<1>5. CASE ExtraBarrier(w)
  <2>1. sh' = sh /\ prims' = prims /\ outs' = outs /\ pc[w] = "extra" /\ (at' = at \/ Advance(w))
    BY <1>5 DEF ExtraBarrier, memory
  <2>2. \E l \in {"barrier.extra", "barrier.post"} : pc' = [pc EXCEPT ![w] = l]
    BY <1>5 DEF ExtraBarrier, Goto
  <2>3. ~MeshWave(w)
    <3>1. PICK D \in SUBSET DOMAIN sh.ops, b \in BOOLEAN : BodyStage(D, b)
      BY <2>1, PlaceBody DEF InBody
    <3> QED
      BY <2>1, <3>1 DEF BodyStage, MeshBody, Entry
  <2> QED
    BY <2>1, <2>2, <2>3, QuietWave
<1>6. CASE ReadFlag(w)
  <2>1. sh' = sh /\ prims' = prims /\ outs' = outs /\ pc[w] = "flag" /\ at' = at
    BY <1>6 DEF ReadFlag, memory
  <2>2. \E l \in {"extra", "barrier.post"} : pc' = [pc EXCEPT ![w] = l]
    BY <1>6 DEF ReadFlag, Goto
  <2> QED
    BY <2>1, <2>2, QuietWave
<1>7. CASE CheckCounts(w) \/ Exit(w)
  <2>1. sh' = sh /\ prims' = prims /\ outs' = outs /\ pc[w] \in {"counts", "export"} /\ at' = at
    BY <1>7 DEF CheckCounts, Exit, memory
  <2>2. \E l \in {"done", "export"} : pc' = [pc EXCEPT ![w] = l]
    BY <1>7 DEF CheckCounts, Exit, Goto
  <2> QED
    BY <2>1, <2>2, QuietWave
<1>8. CASE Export(w) \/ ExportDone(w)
  <2>1. sh' = sh /\ prims' = prims /\ outs' = outs /\ pc[w] = "export" /\ at' = at /\ pc' = pc
    BY <1>8 DEF Export, ExportDone, memory
  <2>2. pc' = [pc EXCEPT ![w] = "export"]
    BY <2>1, SamePlace
  <2> QED
    BY <2>1, <2>2, QuietWave
<1> QED
  BY <1>1, <1>2, <1>3, <1>4, <1>5, <1>6, <1>7, <1>8

LEMMA QuietRest ==
  ASSUME TypeInv, StageInv, Release \/ UNCHANGED vars
  PROVE  Quiet
<1>1. sh' = sh /\ prims' = prims /\ outs' = outs /\ at' = at
  BY DEF Release, vars, memory
<1>2. SameExecuted
  BY <1>1, ExecutedSame DEF SameExecuted
<1>3. CASE Release
  <2>1. \A w \in Waves : pc[w] \in Barriers \cup {"done"} /\ pc'[w] \notin {"or", "init"}
    BY <1>3 DEF Release, AfterBarrier, Body, Barriers
  <2> QED
    BY <1>1, <1>2, <2>1 DEF Quiet, SamePlaces, Barriers
<1>4. CASE UNCHANGED vars
  BY <1>1, <1>2, <1>4 DEF Quiet, SamePlaces, vars
<1> QED
  BY <1>3, <1>4

-----------------------------------------------------------------------------
(* The outputs, step by step *)

LEMMA SameLayout ==
  ASSUME sh' = sh
  PROVE  /\ Cells(sh)' = Cells(sh) /\ OutputsToAllocas(sh)' = OutputsToAllocas(sh)
         /\ \A w, n : Rows(w, n)' = Rows(w, n)
         /\ \A t : Line(t)' = Line(t)
         /\ \A k, c : Author(k, c)' = Author(k, c)
BY DEF Cells, OutputsToAllocas, Rows, Threads, Line, Author

LEMMA SameTargets ==
  ASSUME sh' = sh, NEW v, at'[v] = at[v]
  PROVE  Targets(v)' = Targets(v) /\ Op(v)' = Op(v)
<1>1. Op(v)' = Op(v)
  BY DEF Op
<1>2. Active(v)' = Active(v)
  BY <1>1 DEF Active, ApiThreads, Threads
<1>3. \A t, i : Cell(t, i)' = Cell(t, i)
  BY DEF Cell, OutputsToAllocas
<1> QED
  BY <1>1, <1>2, <1>3 DEF Targets

LEMMA QuietKeeps ==
  ASSUME TypeInv, PrimsInv, OutsInv, MemoryType, Quiet
  PROVE  PrimsInv' /\ OutsInv' /\ MemoryType'
<1>1. sh' = sh /\ prims' = prims /\ outs' = outs
  BY DEF Quiet
<1>2. ASSUME NEW op, NEW c  PROVE Pending(op, c)' <=> Pending(op, c)
  <2>1. \A v \in Waves : pc[v] = "or" => Targets(v)' = Targets(v) /\ Op(v)' = Op(v)
    BY <1>1, SameTargets DEF Quiet, SamePlaces
  <2> QED
    BY <1>1, <2>1, SameShader DEF Pending, Quiet, SamePlaces
<1>3. ASSUME NEW c  PROVE Ready(c)' <=> Ready(c)
  BY <1>1, SameShader, SameLayout DEF Ready, Quiet, SamePlaces
<1>4. ASSUME NEW c  PROVE (IndicesRight(c) => IndicesRight(c)') /\ (NullRight(c) => NullRight(c)')
  <2>1. Executed("indices", "none", NoSlot, c)' = Executed("indices", "none", NoSlot, c)
        /\ Executed("culled", "none", NoSlot, c)' = Executed("culled", "none", NoSlot, c)
    BY DEF Quiet, SameExecuted, Writes
  <2>2. \A k : Author(k, c)' = Author(k, c)
    BY <1>1, SameLayout
  <2> QED
    BY <1>1, <2>1, <2>2 DEF IndicesRight, NullRight, Latest
<1>5. PrimsInv'
  BY <1>1, <1>2, <1>3, <1>4, SameLayout DEF PrimsInv
<1>6. OutsInv'
  <2>1. \A r, e, c : Executed("write", r, e, c)' = Executed("write", r, e, c)
    BY DEF Quiet, SameExecuted, Writes
  <2> QED
    BY <1>1, <2>1, SameLayout DEF OutsInv, Latest
<1>7. MemoryType'
  BY <1>1, SameLayout DEF MemoryType
<1> QED
  BY <1>5, <1>6, <1>7

(* Nothing is executed before the API shader begins. *)
LEMMA NothingYet ==
  ASSUME TypeInv, \A v \in Waves : at[v] = 1, NEW op \in Writes, NEW r, NEW e, NEW c
  PROVE  Executed(op, r, e, c) = {}
<1>1. ASSUME NEW k \in DOMAIN sh.ops, sh.ops[k].op = op, NEW t \in DOMAIN sh.ops[k].at
      PROVE  ~(k < at[Line(t)])
  <2>1. t \in 0 .. sh.threads - 1
    BY <1>1, OpFacts
  <2>2. at[Line(t)] = 1
    BY <2>1, ApiLine
  <2> QED
    BY <2>2, ShaderFacts
<1> QED
  BY <1>1 DEF Executed, About

LEMMA InitIndicesData ==
  ASSUME TypeInv, StageInv, PrimsInv, OutsInv, MemoryType, NEW w \in Waves, InitIndices(w)
  PROVE  PrimsInv' /\ OutsInv' /\ MemoryType'
<1>1. /\ sh' = sh /\ outs' = outs /\ at' = at /\ pc[w] = "init" /\ pc' = [pc EXCEPT ![w] = "special"]
  BY DEF InitIndices, Goto
<1>2. \A v \in Waves : pc'[v] = IF v = w THEN "special" ELSE pc[v]
  BY <1>1 DEF TypeInv
<1>3. ASSUME NEW op \in Writes, NEW r, NEW e, NEW c  PROVE Executed(op, r, e, c)' = Executed(op, r, e, c)
  BY <1>1, ExecutedSame
<1>4. OutsInv'
  <2>1. \A r, e, c : Executed("write", r, e, c)' = Executed("write", r, e, c)
    BY <1>3 DEF Writes
  <2> QED
    BY <1>1, <2>1, SameLayout DEF OutsInv, Latest
<1>5. ASSUME NEW op, NEW c  PROVE Pending(op, c)' <=> Pending(op, c)
  <2>1. \A v \in Waves : Targets(v)' = Targets(v) /\ Op(v)' = Op(v)
    BY <1>1, SameTargets
  <2> QED
    BY <1>1, <1>2, <2>1, SameShader DEF Pending
<1>6. ASSUME NEW c
      PROVE  /\ Executed("indices", "none", NoSlot, c)' = Executed("indices", "none", NoSlot, c)
             /\ Executed("culled", "none", NoSlot, c)' = Executed("culled", "none", NoSlot, c)
  BY <1>3 DEF Writes
<1>7. ASSUME NEW c, prims'[c] = prims[c]
      PROVE  (IndicesRight(c) => IndicesRight(c)') /\ (NullRight(c) => NullRight(c)')
  BY <1>1, <1>6, <1>7, SameLayout DEF IndicesRight, NullRight, Latest
<1>8. CASE OutputsToAllocas(sh)
  <2>1. prims' = prims
    BY <1>8 DEF InitIndices
  <2>2. \A c : Ready(c)
    BY <1>8 DEF Ready
  <2>3. PrimsInv'
    BY <1>1, <1>5, <1>7, <2>1, <2>2, SameLayout DEF PrimsInv
  <2>4. MemoryType'
    BY <1>1, <2>1, SameLayout DEF MemoryType
  <2> QED
    BY <1>4, <2>3, <2>4
<1>9. CASE ~OutputsToAllocas(sh)
  <2> DEFINE Z == [indices |-> ZeroIndices, null |-> FALSE]
  <2>1. prims' = [c \in Cells(sh) |-> IF c \in Rows(w, sh.primitives) THEN Z ELSE prims[c]]
    BY <1>9 DEF InitIndices, MemoryType
  <2>2. BeginStage
    <3>1. FirstBarrier
      BY <1>9 DEF FirstBarrier
    <3>2. ~InBody
      BY <1>1, <3>1 DEF InBody, BodyStage, MeshBody, ExtraBody
    <3> QED
      BY <1>1, <3>2, PlaceEntry DEF Entry
  <2>3. ASSUME NEW c
        PROVE  /\ Executed("indices", "none", NoSlot, c) = {}
               /\ Executed("culled", "none", NoSlot, c) = {}
    BY <2>2, NothingYet DEF BeginStage, Writes
  <2>4. ASSUME NEW op, NEW c  PROVE ~Pending(op, c)
    BY <2>2 DEF Pending, BeginStage, Entry
  <2>5. Z.indices = ZeroIndices /\ Z.null = FALSE /\ Z = [indices |-> Z.indices, null |-> Z.null]
    OBVIOUS
  <2> HIDE DEF Z
  <2>6. ASSUME NEW c \in Cells(sh), Ready(c)'  PROVE IndicesRight(c)' /\ NullRight(c)'
    <3>1. CASE c \in Rows(w, sh.primitives)
      <4>1. prims'[c] = Z
        BY <2>1, <3>1
      <4> QED
        BY <1>6, <2>3, <2>5, <4>1 DEF IndicesRight, NullRight, Latest
    <3>2. CASE c \notin Rows(w, sh.primitives)
      <4>1. prims'[c] = prims[c]
        BY <2>1, <3>2
      <4>2. Ready(c)
        BY <1>1, <1>2, <2>6, <3>2, SameShader, SameLayout DEF Ready
      <4>3. IndicesRight(c) /\ NullRight(c)
        BY <2>4, <4>2 DEF PrimsInv
      <4> QED
        BY <1>7, <4>1, <4>3
    <3> QED
      BY <3>1, <3>2
  <2>7. PrimsInv'
    BY <1>1, <1>5, <2>4, <2>6, SameLayout DEF PrimsInv
  <2>8. MemoryType'
    BY <1>1, <2>1, <2>5, SameLayout DEF MemoryType
  <2> QED
    BY <1>4, <2>7, <2>8
<1> QED
  BY <1>8, <1>9

(* The operation of a wave is on one output of each cell it writes. *)
LEMMA AboutOp ==
  ASSUME TypeInv, NEW k \in DOMAIN sh.ops
  PROVE  /\ \A op \in {"indices", "culled"} : About(k, op, "none", NoSlot) <=> sh.ops[k].op = op
         /\ sh.ops[k].op = "culled" => sh.ops[k].isCulled \in BOOLEAN
<1>1. IsOp(sh, sh.ops[k])
  BY ShaderFacts DEF IsShader
<1> QED
  BY <1>1 DEF IsOp, About

LEMMA RecordFields ==
  ASSUME NEW x, NEW i, NEW n, x = [indices |-> i, null |-> n]
  PROVE  x.indices = i /\ x.null = n /\ x = [indices |-> x.indices, null |-> x.null]
OBVIOUS

LEMMA RecordUpdate ==
  ASSUME NEW x, x = [indices |-> x.indices, null |-> x.null], NEW y
  PROVE  /\ [x EXCEPT !.indices = y] = [indices |-> y, null |-> x.null]
         /\ [x EXCEPT !.null = y] = [indices |-> x.indices, null |-> y]
OBVIOUS

LEMMA ClearBitsData ==
  ASSUME TypeInv, StageInv, PrimsInv, OutsInv, MemoryType, NEW w \in Waves, ClearBits(w)
  PROVE  PrimsInv' /\ OutsInv' /\ MemoryType'
<1>1. /\ sh' = sh /\ outs' = outs /\ at' = at /\ pc[w] = "api" /\ pc' = [pc EXCEPT ![w] = "or"]
      /\ HasOp(w, {"indices", "culled"})
  BY DEF ClearBits, Goto, HasOp
<1>2. \A v \in Waves : pc'[v] = IF v = w THEN "or" ELSE pc[v]
  BY <1>1 DEF TypeInv
<1>3. at[w] \in DOMAIN sh.ops /\ Op(w).op \in {"indices", "culled"}
  BY <1>1, ApiStep, HasOpFacts DEF Op
<1>4. ASSUME NEW op \in Writes, NEW r, NEW e, NEW c  PROVE Executed(op, r, e, c)' = Executed(op, r, e, c)
  BY <1>1, ExecutedSame
<1>5. OutsInv'
  <2>1. \A r, e, c : Executed("write", r, e, c)' = Executed("write", r, e, c)
    BY <1>4 DEF Writes
  <2> QED
    BY <1>1, <2>1, SameLayout DEF OutsInv, Latest
<1>6. ASSUME NEW op, NEW c
      PROVE  Pending(op, c)' <=> Pending(op, c) \/ (Op(w).op = op /\ c \in Targets(w))
  <2>1. \A v \in Waves : Targets(v)' = Targets(v) /\ Op(v)' = Op(v)
    BY <1>1, SameTargets
  <2> QED
    BY <1>1, <1>2, <2>1, SameShader DEF Pending
<1>7. ASSUME NEW c  PROVE Ready(c)' => Ready(c)
  <2>1. \A v \in Waves : pc'[v] # "init" => pc[v] # "init"
    BY <1>1, <1>2
  <2> QED
    BY <1>1, <2>1, SameShader, SameLayout DEF Ready
<1>8. ASSUME NEW c
      PROVE  /\ Executed("indices", "none", NoSlot, c)' = Executed("indices", "none", NoSlot, c)
             /\ Executed("culled", "none", NoSlot, c)' = Executed("culled", "none", NoSlot, c)
  BY <1>4 DEF Writes
<1>9. ASSUME NEW c
      PROVE  /\ prims'[c].indices = prims[c].indices /\ IndicesRight(c) => IndicesRight(c)'
             /\ prims'[c].null = prims[c].null /\ NullRight(c) => NullRight(c)'
  BY <1>1, <1>8, SameLayout DEF IndicesRight, NullRight, Latest
<1>10. ASSUME NEW c \in Cells(sh)
       PROVE  /\ c \notin Targets(w) => prims'[c] = prims[c]
              /\ c \in Targets(w) /\ Op(w).op = "indices" => prims'[c] = [indices |-> ZeroIndices, null |-> prims[c].null]
              /\ c \in Targets(w) /\ Op(w).op = "culled" => prims'[c] = [indices |-> prims[c].indices, null |-> FALSE]
  <2>1. prims[c] = [indices |-> prims[c].indices, null |-> prims[c].null] /\ c \in DOMAIN prims
    BY DEF MemoryType
  <2>2. prims'[c] = IF c \notin Targets(w) THEN prims[c]
                    ELSE IF Op(w).op = "indices" THEN [prims[c] EXCEPT !.indices = ZeroIndices]
                    ELSE [prims[c] EXCEPT !.null = FALSE]
    BY <2>1 DEF ClearBits
  <2>3. /\ [prims[c] EXCEPT !.indices = ZeroIndices] = [indices |-> ZeroIndices, null |-> prims[c].null]
        /\ [prims[c] EXCEPT !.null = FALSE] = [indices |-> prims[c].indices, null |-> FALSE]
    BY <2>1, RecordUpdate, Zenon
  <2> QED
    BY <2>2, <2>3, Zenon
<1>f. ASSUME NEW c \in Cells(sh), c \in Targets(w)
       PROVE  /\ Op(w).op = "indices" => prims'[c].indices = ZeroIndices /\ prims'[c].null = prims[c].null
              /\ Op(w).op = "culled" => prims'[c].indices = prims[c].indices /\ prims'[c].null = FALSE
              /\ prims'[c] = [indices |-> prims'[c].indices, null |-> prims'[c].null]
  <2>1. CASE Op(w).op = "indices"
    <3>1. prims'[c] = [indices |-> ZeroIndices, null |-> prims[c].null]
      BY <1>10, <1>f, <2>1, Zenon
    <3> QED
      BY <2>1, <3>1, RecordFields
  <2>2. CASE Op(w).op = "culled"
    <3>1. prims'[c] = [indices |-> prims[c].indices, null |-> FALSE]
      BY <1>10, <1>f, <2>2, Zenon
    <3>2. ASSUME NEW y, prims'[c] = [indices |-> prims[c].indices, null |-> y]
          PROVE  /\ prims'[c].indices = prims[c].indices /\ prims'[c].null = y
                 /\ prims'[c] = [indices |-> prims'[c].indices, null |-> prims'[c].null]
      BY <3>2, RecordFields
    <3> QED
      BY <2>2, <3>1, <3>2, Zenon
  <2> QED
    BY <1>3, <2>1, <2>2
<1>11. ASSUME NEW c \in Cells(sh), Ready(c)'
       PROVE  /\ ~Pending("indices", c)' => IndicesRight(c)'
              /\ ~Pending("culled", c)' => NullRight(c)'
              /\ Pending("culled", c)' => prims'[c].null = FALSE
  <2>1. /\ ~Pending("indices", c) => IndicesRight(c)
        /\ ~Pending("culled", c) => NullRight(c)
        /\ Pending("culled", c) => prims[c].null = FALSE
    BY <1>7, <1>11 DEF PrimsInv
  <2>2. CASE c \notin Targets(w)
    BY <1>6, <1>9, <1>10, <2>1, <2>2
  <2>3. CASE c \in Targets(w) /\ Op(w).op = "indices"
    <3>1. prims'[c].null = prims[c].null
      BY <1>f, <2>3
    <3> QED
      BY <1>6, <1>9, <2>1, <2>3, <3>1
  <2>4. CASE c \in Targets(w) /\ Op(w).op = "culled"
    <3>1. prims'[c].indices = prims[c].indices /\ prims'[c].null = FALSE
      BY <1>f, <2>4
    <3> QED
      BY <1>6, <1>9, <2>1, <2>4, <3>1
  <2> QED
    BY <1>3, <2>2, <2>3, <2>4
<1>12. PrimsInv'
  BY <1>1, <1>11, SameLayout DEF PrimsInv
<1>13. MemoryType'
  <2>1. DOMAIN prims' = Cells(sh)
    BY DEF ClearBits, MemoryType
  <2>2. ASSUME NEW c \in Cells(sh)  PROVE prims'[c] = [indices |-> prims'[c].indices, null |-> prims'[c].null]
    <3>1. prims[c] = [indices |-> prims[c].indices, null |-> prims[c].null]
      BY DEF MemoryType
    <3>2. CASE c \notin Targets(w)
      BY <1>10, <3>1, <3>2, Zenon
    <3>3. CASE c \in Targets(w) /\ Op(w).op = "indices"
      BY <1>f, <3>3
    <3>4. CASE c \in Targets(w) /\ Op(w).op = "culled"
      BY <1>f, <3>4
    <3> QED
      BY <1>3, <3>2, <3>3, <3>4
  <2> QED
    BY <1>1, <2>1, <2>2, SameLayout DEF MemoryType
<1> QED
  BY <1>5, <1>12, <1>13

LEMMA NewLatest ==
  ASSUME TypeInv, NEW S, S \subseteq DOMAIN sh.ops, NEW k \in DOMAIN sh.ops, \A j \in S : j < k
  PROVE  \A i : Latest(i, S \cup {k}) <=> i = k
<1>1. k \in Int /\ \A j \in S : j \in Int /\ j <= k /\ ~(k <= j)
  BY ShaderFacts
<1> QED
  BY <1>1 DEF Latest

LEMMA SetBitsData ==
  ASSUME TypeInv, StageInv, PrimsInv, OutsInv, MemoryType, NEW w \in Waves, SetBits(w)
  PROVE  PrimsInv' /\ OutsInv' /\ MemoryType'
<1>0. PICK k : k = at[w]
  OBVIOUS
<1>1. /\ sh' = sh /\ outs' = outs /\ Advance(w) /\ pc[w] = "or" /\ pc' = [pc EXCEPT ![w] = "api"]
  BY DEF SetBits, Goto
<1>2. /\ \A v \in Waves : pc'[v] = IF v = w THEN "api" ELSE pc[v]
      /\ \A v \in Waves \ {w} : at'[v] = at[v]
  BY <1>1, AdvanceType DEF TypeInv
<1>3. k \in DOMAIN sh.ops /\ Op(w).op \in {"indices", "culled"} /\ Op(w) = sh.ops[k]
  BY <1>0, <1>1, ApiStep DEF Op
<1>4. /\ \A c : c \in Targets(w) <=> HitBy(w, k, c)
      /\ \A c \in Targets(w) : Value(w, c) = <<k, Author(k, c)>>
  BY <1>0, <1>3, TargetFacts DEF Writes
<1>5. ASSUME NEW op \in Writes, NEW r, NEW e, NEW c
      PROVE  /\ About(k, op, r, e) /\ c \in Targets(w) =>
                  Executed(op, r, e, c)' = Executed(op, r, e, c) \cup {k}
             /\ ~(About(k, op, r, e) /\ c \in Targets(w)) => Executed(op, r, e, c)' = Executed(op, r, e, c)
  BY <1>0, <1>1, <1>3, <1>4, ExecutedNext
<1>6. OutsInv'
  <2>1. \A r, e, c : Executed("write", r, e, c)' = Executed("write", r, e, c)
    BY <1>3, <1>5 DEF Writes, About
  <2> QED
    BY <1>1, <2>1, SameLayout DEF OutsInv, Latest
<1>7. ASSUME NEW op, NEW c
      PROVE  /\ Pending(op, c)' => \E v \in Waves : v # w /\ pc[v] = "or" /\ Op(v).op = op /\ c \in Targets(v)
             /\ ~(Op(w).op = op /\ c \in Targets(w)) => (Pending(op, c)' <=> Pending(op, c))
  <2>1. \A v \in Waves \ {w} : Targets(v)' = Targets(v) /\ Op(v)' = Op(v)
    BY <1>1, <1>2, SameTargets
  <2> QED
    BY <1>1, <1>2, <2>1, SameShader DEF Pending
<1>8. ASSUME NEW c  PROVE Ready(c)' => Ready(c)
  <2>1. \A v \in Waves : pc'[v] # "init" => pc[v] # "init"
    BY <1>1, <1>2
  <2> QED
    BY <1>1, <2>1, SameShader, SameLayout DEF Ready
<1>9. ASSUME NEW c
      PROVE  /\ ~(Op(w).op = "indices" /\ c \in Targets(w)) =>
                  Executed("indices", "none", NoSlot, c)' = Executed("indices", "none", NoSlot, c)
             /\ ~(Op(w).op = "culled" /\ c \in Targets(w)) =>
                  Executed("culled", "none", NoSlot, c)' = Executed("culled", "none", NoSlot, c)
  BY <1>3, <1>5, AboutOp DEF Writes
<1>10. ASSUME NEW c
       PROVE  /\ ~(Op(w).op = "indices" /\ c \in Targets(w)) /\ prims'[c].indices = prims[c].indices /\ IndicesRight(c)
                   => IndicesRight(c)'
              /\ ~(Op(w).op = "culled" /\ c \in Targets(w)) /\ prims'[c].null = prims[c].null /\ NullRight(c)
                   => NullRight(c)'
  BY <1>1, <1>9, SameLayout DEF IndicesRight, NullRight, Latest
<1>11. ASSUME NEW c \in Cells(sh)
       PROVE  /\ c \notin Targets(w) => prims'[c] = prims[c]
              /\ c \in Targets(w) /\ Op(w).op = "indices" => prims'[c] = [indices |-> <<k, Author(k, c)>>, null |-> prims[c].null]
              /\ c \in Targets(w) /\ Op(w).op = "culled" =>
                   prims'[c] = [indices |-> prims[c].indices, null |-> prims[c].null \/ Op(w).isCulled]
  <2>1. prims[c] = [indices |-> prims[c].indices, null |-> prims[c].null] /\ c \in DOMAIN prims
    BY DEF MemoryType
  <2>2. prims'[c] = IF c \notin Targets(w) THEN prims[c]
                    ELSE IF Op(w).op = "indices" THEN [prims[c] EXCEPT !.indices = Value(w, c)]
                    ELSE [prims[c] EXCEPT !.null = prims[c].null \/ Op(w).isCulled]
    BY <2>1 DEF SetBits
  <2>3. ASSUME NEW x, NEW y
        PROVE  /\ [prims[c] EXCEPT !.indices = x] = [indices |-> x, null |-> prims[c].null]
               /\ [prims[c] EXCEPT !.null = y] = [indices |-> prims[c].indices, null |-> y]
    BY <2>1, RecordUpdate, Zenon
  <2> QED
    BY <1>4, <2>2, <2>3, Zenon
<1>f. ASSUME NEW c \in Cells(sh), c \in Targets(w)
       PROVE  /\ Op(w).op = "indices" => prims'[c].indices = <<k, Author(k, c)>> /\ prims'[c].null = prims[c].null
              /\ Op(w).op = "culled" => prims'[c].indices = prims[c].indices /\ prims'[c].null = (prims[c].null \/ Op(w).isCulled)
              /\ prims'[c] = [indices |-> prims'[c].indices, null |-> prims'[c].null]
  <2>1. CASE Op(w).op = "indices"
    <3>1. prims'[c] = [indices |-> <<k, Author(k, c)>>, null |-> prims[c].null]
      BY <1>11, <1>f, <2>1, Zenon
    <3> QED
      BY <2>1, <3>1, RecordFields
  <2>2. CASE Op(w).op = "culled"
    <3>1. prims'[c] = [indices |-> prims[c].indices, null |-> (prims[c].null \/ Op(w).isCulled)]
      BY <1>11, <1>f, <2>2, Zenon
    <3>2. ASSUME NEW y, prims'[c] = [indices |-> prims[c].indices, null |-> y]
          PROVE  /\ prims'[c].indices = prims[c].indices /\ prims'[c].null = y
                 /\ prims'[c] = [indices |-> prims'[c].indices, null |-> prims'[c].null]
      BY <3>2, RecordFields
    <3> QED
      BY <2>2, <3>1, <3>2, Zenon
  <2> QED
    BY <1>3, <2>1, <2>2
<1>12. ASSUME NEW c \in Cells(sh), c \in Targets(w), NEW op \in {"indices", "culled"}, Op(w).op = op
       PROVE  /\ \A j \in Executed(op, "none", NoSlot, c) : j < k
              /\ ~Pending(op, c)'
              /\ Executed(op, "none", NoSlot, c)' = Executed(op, "none", NoSlot, c) \cup {k}
  <2>1. About(k, op, "none", NoSlot) /\ HitBy(w, k, c) /\ op \in Writes
    BY <1>3, <1>4, <1>12, AboutOp DEF Writes
  <2>2. \A j \in Executed(op, "none", NoSlot, c) : j < k
    BY <1>0, <1>1, <1>3, <2>1, Ordered
  <2>3. ASSUME NEW v \in Waves, v # w, pc[v] = "or", Op(v).op = op, c \in Targets(v)  PROVE FALSE
    <3>1. at[v] \in DOMAIN sh.ops
      BY <2>3, ApiStep
    <3>2. About(at[v], op, "none", NoSlot) /\ sh.ops[at[v]].op \in Writes
      BY <2>3, <3>1, AboutOp DEF Op, Writes
    <3>3. HitBy(v, at[v], c)
      BY <2>3, <3>1, <3>2, TargetFacts
    <3> QED
      BY <1>0, <1>1, <1>3, <2>1, <2>3, <3>1, <3>2, <3>3, NoClash
  <2> QED
    BY <1>5, <1>7, <1>12, <2>1, <2>2, <2>3
<1>13. ASSUME NEW c \in Cells(sh), Ready(c)'
       PROVE  /\ ~Pending("indices", c)' => IndicesRight(c)'
              /\ ~Pending("culled", c)' => NullRight(c)'
              /\ Pending("culled", c)' => prims'[c].null = FALSE
  <2>1. /\ ~Pending("indices", c) => IndicesRight(c)
        /\ ~Pending("culled", c) => NullRight(c)
        /\ Pending("culled", c) => prims[c].null = FALSE
    BY <1>8, <1>13 DEF PrimsInv
  <2>2. CASE c \notin Targets(w)
    BY <1>7, <1>10, <1>11, <2>1, <2>2
  <2>3. CASE c \in Targets(w) /\ Op(w).op = "indices"
    <3>1. prims'[c].null = prims[c].null /\ prims'[c].indices = <<k, Author(k, c)>>
      BY <1>f, <2>3, Zenon
    <3>2. /\ \A j \in Executed("indices", "none", NoSlot, c) : j < k
          /\ Executed("indices", "none", NoSlot, c)' = Executed("indices", "none", NoSlot, c) \cup {k}
      BY <1>12, <2>3
    <3>3. \A i : Latest(i, Executed("indices", "none", NoSlot, c)') <=> i = k
      <4>1. Executed("indices", "none", NoSlot, c) \subseteq DOMAIN sh.ops
        BY DEF Executed
      <4>2. \A i : Latest(i, Executed("indices", "none", NoSlot, c) \cup {k}) <=> i = k
        BY <1>3, <3>2, <4>1, NewLatest
      <4> QED
        BY <3>2, <4>2, Zenon
    <3>4. IndicesRight(c)'
      <4>1. Executed("indices", "none", NoSlot, c)' # {}
        BY <3>2
      <4>2. \A i : Latest(i, Executed("indices", "none", NoSlot, c))' => i = k
        BY <3>3 DEF Latest
      <4>3. Author(k, c)' = Author(k, c)
        BY <1>1, SameLayout
      <4> QED
        BY <3>1, <4>1, <4>2, <4>3 DEF IndicesRight
    <3> QED
      BY <1>7, <1>10, <2>1, <2>3, <3>1, <3>4
  <2>4. CASE c \in Targets(w) /\ Op(w).op = "culled"
    <3>1. Pending("culled", c)
      BY <1>1, <2>4 DEF Pending
    <3>2. prims[c].null = FALSE
      BY <2>1, <3>1
    <3>3. Op(w).isCulled \in BOOLEAN
      BY <1>3, <2>4, AboutOp
    <3>4. prims'[c].indices = prims[c].indices /\ prims'[c].null = (prims[c].null \/ Op(w).isCulled)
      BY <1>f, <2>4, Zenon
    <3>5. prims'[c].null = Op(w).isCulled
      BY <3>2, <3>3, <3>4, Zenon
    <3>6. /\ \A j \in Executed("culled", "none", NoSlot, c) : j < k
          /\ Executed("culled", "none", NoSlot, c)' = Executed("culled", "none", NoSlot, c) \cup {k}
          /\ ~Pending("culled", c)'
      BY <1>12, <2>4
    <3>7. \A i : Latest(i, Executed("culled", "none", NoSlot, c)') <=> i = k
      <4>1. Executed("culled", "none", NoSlot, c) \subseteq DOMAIN sh.ops
        BY DEF Executed
      <4>2. \A i : Latest(i, Executed("culled", "none", NoSlot, c) \cup {k}) <=> i = k
        BY <1>3, <3>6, <4>1, NewLatest
      <4> QED
        BY <3>6, <4>2, Zenon
    <3>8. NullRight(c)'
      <4>1. Executed("culled", "none", NoSlot, c)' # {}
        BY <3>6
      <4>2. \A i : Latest(i, Executed("culled", "none", NoSlot, c))' => i = k
        BY <3>7 DEF Latest
      <4> QED
        BY <1>1, <1>3, <3>5, <4>1, <4>2 DEF NullRight
    <3> QED
      BY <1>7, <1>10, <2>1, <2>4, <3>4, <3>6, <3>8
  <2> QED
    BY <1>3, <2>2, <2>3, <2>4
<1>14. PrimsInv'
  BY <1>1, <1>13, SameLayout DEF PrimsInv
<1>15. MemoryType'
  <2>1. DOMAIN prims' = Cells(sh)
    BY DEF SetBits, MemoryType
  <2>2. ASSUME NEW c \in Cells(sh)  PROVE prims'[c] = [indices |-> prims'[c].indices, null |-> prims'[c].null]
    <3>1. prims[c] = [indices |-> prims[c].indices, null |-> prims[c].null]
      BY DEF MemoryType
    <3>2. CASE c \notin Targets(w)
      BY <1>11, <3>1, <3>2, Zenon
    <3>3. CASE c \in Targets(w) /\ Op(w).op = "indices"
      BY <1>f, <3>3, Zenon
    <3>4. CASE c \in Targets(w) /\ Op(w).op = "culled"
      BY <1>f, <3>4, Zenon
    <3> QED
      BY <1>3, <3>2, <3>3, <3>4
  <2> QED
    BY <1>1, <2>1, <2>2, SameLayout DEF MemoryType
<1> QED
  BY <1>6, <1>14, <1>15

LEMMA WriteData ==
  ASSUME TypeInv, StageInv, PrimsInv, OutsInv, MemoryType, ~sh.wide, NEW w \in Waves, WriteMeshOutput(w)
  PROVE  PrimsInv' /\ OutsInv' /\ MemoryType'
<1>0. PICK k : k = at[w]
  OBVIOUS
<1>1. /\ sh' = sh /\ prims' = prims /\ Advance(w) /\ pc[w] = "api" /\ pc' = pc /\ HasOp(w, {"write"})
  BY DEF WriteMeshOutput, HasOp
<1>2. \A v \in Waves \ {w} : at'[v] = at[v]
  BY <1>1, AdvanceType
<1>3. k \in DOMAIN sh.ops /\ sh.ops[k].op = "write" /\ Op(w) = sh.ops[k]
  BY <1>0, <1>1, ApiStep, HasOpFacts DEF Op
<1>4. /\ \A c : c \in Targets(w) <=> HitBy(w, k, c)
      /\ \A c \in Targets(w) : Value(w, c) = <<k, Author(k, c)>>
  BY <1>0, <1>3, TargetFacts DEF Writes
<1>5. ASSUME NEW op \in Writes, NEW r, NEW e, NEW c
      PROVE  /\ About(k, op, r, e) /\ c \in Targets(w) =>
                  Executed(op, r, e, c)' = Executed(op, r, e, c) \cup {k}
             /\ ~(About(k, op, r, e) /\ c \in Targets(w)) => Executed(op, r, e, c)' = Executed(op, r, e, c)
  BY <1>0, <1>1, <1>3, <1>4, ExecutedNext
<1>6. PrimsInv'
  <2>1. ASSUME NEW op, NEW c  PROVE Pending(op, c)' <=> Pending(op, c)
    <3>1. \A v \in Waves \ {w} : Targets(v)' = Targets(v) /\ Op(v)' = Op(v)
      BY <1>1, <1>2, SameTargets
    <3> QED
      BY <1>1, <3>1, SameShader DEF Pending
  <2>2. ASSUME NEW c  PROVE Ready(c)' <=> Ready(c)
    BY <1>1, SameShader, SameLayout DEF Ready
  <2>3. ASSUME NEW c  PROVE (IndicesRight(c) => IndicesRight(c)') /\ (NullRight(c) => NullRight(c)')
    <3>1. Executed("indices", "none", NoSlot, c)' = Executed("indices", "none", NoSlot, c)
          /\ Executed("culled", "none", NoSlot, c)' = Executed("culled", "none", NoSlot, c)
      BY <1>3, <1>5 DEF Writes, About
    <3> QED
      BY <1>1, <3>1, SameLayout DEF IndicesRight, NullRight, Latest
  <2> QED
    BY <1>1, <2>1, <2>2, <2>3, SameLayout DEF PrimsInv
<1> DEFINE R == Op(w).region
           s == Op(w).slot
<1>7. SlotOf(s) = s
  BY DEF SlotOf
<1> DEFINE New(r, c) == IF c \in Targets(w) THEN [outs[r][c] EXCEPT ![s] = Value(w, c)] ELSE outs[r][c]
<1>8. outs' = [outs EXCEPT ![R] = [c \in DOMAIN outs[R] |-> New(R, c)]]
  BY <1>7 DEF WriteMeshOutput
<1>9. DOMAIN outs = Regions /\ \A r \in Regions : DOMAIN outs[r] = Cells(sh) /\ \A c \in Cells(sh) : DOMAIN outs[r][c] = Slots
  BY DEF MemoryType
<1> HIDE DEF R, s
<1>10. ASSUME NEW r \in Regions
       PROVE  /\ r # R => outs'[r] = outs[r]
              /\ r = R => outs'[r] = [c \in Cells(sh) |-> New(r, c)]
  BY <1>8, <1>9
<1>11. ASSUME NEW r \in Regions, NEW c \in Cells(sh), NEW e \in Slots
       PROVE  /\ r = R /\ c \in Targets(w) /\ e = s => outs'[r][c][e] = <<k, Author(k, c)>>
              /\ ~(r = R /\ c \in Targets(w) /\ e = s) => outs'[r][c][e] = outs[r][c][e]
  <2>1. CASE r # R
    BY <1>10, <2>1
  <2>2. CASE r = R /\ c \notin Targets(w)
    BY <1>10, <2>2
  <2>3. CASE r = R /\ c \in Targets(w)
    <3>1. outs'[r][c] = [outs[r][c] EXCEPT ![s] = Value(w, c)]
      BY <1>10, <2>3
    <3>2. DOMAIN outs[r][c] = Slots
      BY <1>9
    <3> QED
      BY <1>4, <2>3, <3>1, <3>2
  <2> QED
    BY <2>1, <2>2, <2>3
<1>12. MemoryType'
  <2>1. DOMAIN outs' = Regions
    BY <1>8, <1>9
  <2>2. ASSUME NEW r \in Regions  PROVE DOMAIN outs'[r] = Cells(sh) /\ \A c \in Cells(sh) : DOMAIN outs'[r][c] = Slots
    <3>1. CASE r # R
      BY <1>9, <1>10, <3>1
    <3>2. CASE r = R
      <4>1. outs'[r] = [c \in Cells(sh) |-> New(r, c)]
        BY <1>10, <3>2
      <4>2. ASSUME NEW c \in Cells(sh)  PROVE DOMAIN New(r, c) = Slots
        BY <1>9
      <4> HIDE DEF New
      <4> QED
        BY <4>1, <4>2
    <3> QED
      BY <3>1, <3>2
  <2> QED
    BY <1>1, <2>1, <2>2, SameLayout DEF MemoryType
<1>13. ASSUME NEW r \in Regions, NEW c \in Cells(sh), NEW e \in Slots, NEW i \in DOMAIN sh.ops,
              Latest(i, Executed("write", r, e, c)')
       PROVE  outs'[r][c][e] = <<i, Author(i, c)>>
  <2>1. About(k, "write", r, e) <=> r = R /\ e = s
    BY <1>3 DEF About, R, s
  <2>2. CASE r = R /\ c \in Targets(w) /\ e = s
    <3>1. Executed("write", r, e, c)' = Executed("write", r, e, c) \cup {k}
      BY <1>5, <2>1, <2>2 DEF Writes
    <3>2. \A j \in Executed("write", r, e, c) : j < k
      BY <1>0, <1>1, <1>3, <1>4, <2>1, <2>2, Ordered DEF Writes
    <3>3. Executed("write", r, e, c) \subseteq DOMAIN sh.ops
      BY DEF Executed
    <3>4. \A j : Latest(j, Executed("write", r, e, c) \cup {k}) <=> j = k
      BY <1>3, <3>2, <3>3, NewLatest
    <3>5. i = k
      BY <1>13, <3>1, <3>4, Zenon
    <3> QED
      BY <1>11, <2>2, <3>5
  <2>3. CASE ~(r = R /\ c \in Targets(w) /\ e = s)
    <3>1. Executed("write", r, e, c)' = Executed("write", r, e, c)
      BY <1>5, <2>1, <2>3 DEF Writes
    <3>2. outs[r][c][e] = <<i, Author(i, c)>>
      BY <1>13, <3>1 DEF OutsInv
    <3> QED
      BY <1>11, <2>3, <3>2
  <2> QED
    BY <2>2, <2>3
<1>14. OutsInv'
  BY <1>1, <1>13, SameLayout DEF OutsInv, Latest
<1> QED
  BY <1>6, <1>12, <1>14

LEMMA DataNext ==
  ASSUME TypeInv, StageInv, PrimsInv, OutsInv, MemoryType, ~sh.wide, [Next]_vars
  PROVE  PrimsInv' /\ OutsInv' /\ MemoryType'
<1>1. ASSUME NEW w \in Waves, WaveStep(w)  PROVE PrimsInv' /\ OutsInv' /\ MemoryType'
  BY <1>1, InitIndicesData, ClearBitsData, SetBitsData, WriteData, QuietSteps, QuietKeeps DEF WaveStep
<1>2. CASE Release \/ UNCHANGED vars
  BY <1>2, QuietRest, QuietKeeps
<1> QED
  BY <1>1, <1>2 DEF Next

LEMMA DataInit ==
  ASSUME Init
  PROVE  PrimsInv /\ OutsInv /\ MemoryType
<1>1. TypeInv /\ \A v \in Waves : at[v] = 1 /\ pc[v] = "init"
  BY TypeInit DEF Init
<1>2. ASSUME NEW op \in Writes, NEW r, NEW e, NEW c  PROVE Executed(op, r, e, c) = {}
  BY <1>1, NothingYet
<1>3. OutsInv
  <2>1. \A r, e, c : Executed("write", r, e, c) = {}
    BY <1>2 DEF Writes
  <2> QED
    BY <2>1 DEF OutsInv, Latest
<1>4. MemoryType
  <2>1. outs = [r \in Regions |-> [c \in Cells(sh) |-> [e \in Slots |-> Unset]]]
    BY DEF Init, Regions
  <2>2. ASSUME NEW c \in Cells(sh)
        PROVE  /\ prims[c] = IF OutputsToAllocas(sh) THEN [indices |-> ZeroIndices, null |-> FALSE]
                             ELSE [indices |-> Unset, null |-> TRUE]
    BY DEF Init
  <2>3. ASSUME NEW c \in Cells(sh)  PROVE prims[c] = [indices |-> prims[c].indices, null |-> prims[c].null]
    BY <2>2, RecordFields
  <2>4. DOMAIN prims = Cells(sh)
    BY DEF Init
  <2> QED
    BY <2>1, <2>3, <2>4 DEF MemoryType
<1>5. PrimsInv
  <2> SUFFICES ASSUME NEW c \in Cells(sh), Ready(c)
               PROVE  IndicesRight(c) /\ NullRight(c) /\ ~Pending("culled", c)
    BY DEF PrimsInv
  <2>1. OutputsToAllocas(sh)
    BY <1>1 DEF Ready
  <2>2. prims[c] = [indices |-> ZeroIndices, null |-> FALSE]
    BY <2>1 DEF Init
  <2>3. prims[c].indices = ZeroIndices /\ prims[c].null = FALSE
    BY <2>2, RecordFields
  <2>4. Executed("indices", "none", NoSlot, c) = {} /\ Executed("culled", "none", NoSlot, c) = {}
    BY <1>2 DEF Writes
  <2>5. ~Pending("culled", c)
    BY <1>1 DEF Pending
  <2> QED
    BY <2>3, <2>4, <2>5 DEF IndicesRight, NullRight, Latest
<1> QED
  BY <1>3, <1>4, <1>5

(* The counts are those of the trace. *)
LEMMA CountsNext ==
  ASSUME TypeInv, StageInv, CountsInv, [Next]_vars
  PROVE  CountsInv'
<1>1. ASSUME counts' = counts, sh' = sh  PROVE CountsInv'
  BY <1>1 DEF CountsInv
<1>2. ASSUME NEW w \in Waves, WriteSpecialValue(w)  PROVE CountsInv'
  <2>1. CASE w = 0
    <3>1. counts' = <<InvalidValue, counts[2]>>
      BY <1>2, <2>1 DEF WriteSpecialValue
    <3>2. counts'[1] = InvalidValue
      BY <3>1
    <3> QED
      BY <3>2 DEF CountsInv
  <2>2. CASE w # 0
    BY <1>1, <1>2, <2>2 DEF WriteSpecialValue
  <2> QED
    BY <2>1, <2>2
<1>3. ASSUME NEW w \in Waves, SetMeshOutputs(w)  PROVE CountsInv'
  <2>1. CASE w = 0
    <3>0. pc[w] = "api" /\ HasOp(w, {"outputs"})
      BY <1>3 DEF SetMeshOutputs, HasOp
    <3>1. at[w] \in DOMAIN sh.ops /\ sh.ops[at[w]].op = "outputs"
      BY <3>0, ApiStep, HasOpFacts
    <3>2. counts' = <<0, 0>> \/ counts' = <<sh.ops[at[w]].vertices, sh.ops[at[w]].primitives>>
      BY <1>3, <2>1 DEF SetMeshOutputs, Op
    <3>3. sh' = sh
      BY <1>3 DEF SetMeshOutputs
    <3> QED
      BY <3>1, <3>2, <3>3 DEF CountsInv
  <2>2. CASE w # 0
    BY <1>1, <1>3, <2>2 DEF SetMeshOutputs
  <2> QED
    BY <2>1, <2>2
<1>4. ASSUME NEW w \in Waves, WaveStep(w), ~WriteSpecialValue(w), ~SetMeshOutputs(w)  PROVE CountsInv'
  <2>1. counts' = counts /\ sh' = sh
    BY <1>4 DEF WaveStep, InitIndices, ApiBarrier, ClearBits, SetBits, WriteMeshOutput, EndApi, ExtraBarrier,
       ReadFlag, CheckCounts, Export, ExportDone, Exit, memory
  <2> QED
    BY <1>1, <2>1
<1>5. CASE Release \/ UNCHANGED vars
  BY <1>1, <1>5 DEF Release, vars, memory
<1> QED
  BY <1>2, <1>3, <1>4, <1>5 DEF Next

-----------------------------------------------------------------------------
(* Rows and the waves that export them *)

LEMMA Remainder ==
  ASSUME NEW q \in Nat, NEW m \in Nat \ {0}, NEW r \in 0 .. m - 1, NEW n \in Nat, n = q * m + r
  PROVE  n % m = r
OBVIOUS

LEMMA Modulo ==
  ASSUME NEW n \in Nat, NEW m \in Nat \ {0}
  PROVE  \E q \in Nat, r \in 0 .. m - 1 : n = q * m + r /\ n % m = r
<1>1. PICK q \in Nat : q * m <= n /\ n < q * m + m
  BY Division
<1>2. PICK r \in 0 .. m - 1 : n = q * m + r
  <2>1. n - q * m \in 0 .. m - 1 /\ n = q * m + (n - q * m)
    BY <1>1
  <2> QED
    BY <2>1
<1>3. n % m = r
  BY <1>2, Remainder
<1> QED
  BY <1>2, <1>3

LEMMA OwnerFacts ==
  ASSUME TypeInv, NEW i \in Nat
  PROVE  /\ NumWaves(sh) \in Nat \ {0} /\ Line(i) \in Nat /\ Owner(i) \in Waves /\ Owner(i) \in Nat
         /\ \E m \in Nat : Line(i) = Owner(i) + m * NumWaves(sh)
<1>1. sh.waveSize \in Nat \ {0} /\ NumWaves(sh) \in Nat \ {0}
  BY ShaderFacts, WaveCounts DEF IsShader
<1>2. Line(i) \in Nat
  BY <1>1, Division DEF Line
<1>3. PICK m \in Nat, r \in 0 .. NumWaves(sh) - 1 : Line(i) = m * NumWaves(sh) + r /\ Line(i) % NumWaves(sh) = r
  BY <1>1, <1>2, Modulo
<1>4. Owner(i) = r
  BY <1>3 DEF Owner
<1>5. r \in Nat /\ m * NumWaves(sh) \in Nat
  BY <1>1
<1>6. Line(i) = Owner(i) + m * NumWaves(sh)
  BY <1>3, <1>4, <1>5
<1> QED
  BY <1>1, <1>2, <1>4, <1>5, <1>6 DEF Waves

(* The wave's next row is the next of those it owns. *)
LEMMA Multiples ==
  ASSUME NEW a \in Nat, NEW b \in Nat, NEW n \in Nat \ {0}
  PROVE  a * n < b * n + n <=> a * n < b * n \/ a * n = b * n
<1>1. a * n \in Nat /\ b * n \in Nat
  OBVIOUS
<1>2. b < a => b * n + n <= a * n
  OBVIOUS
<1>3. a < b => a * n < b * n
  OBVIOUS
<1>4. a < b \/ a = b \/ b < a
  OBVIOUS
<1> QED
  BY <1>1, <1>2, <1>3, <1>4

LEMMA Turn ==
  ASSUME TypeInv, NEW i \in Nat, NEW m \in Nat
  PROVE  Line(i) < Owner(i) + (m * NumWaves(sh) + NumWaves(sh)) <=>
           Line(i) < Owner(i) + m * NumWaves(sh) \/ Line(i) = Owner(i) + m * NumWaves(sh)
<1>1. NumWaves(sh) \in Nat \ {0} /\ Owner(i) \in Nat
  BY OwnerFacts
<1>2. PICK j \in Nat : Line(i) = Owner(i) + j * NumWaves(sh)
  BY OwnerFacts
<1>3. j * NumWaves(sh) \in Nat /\ m * NumWaves(sh) \in Nat
  BY <1>1
<1>4. j * NumWaves(sh) < m * NumWaves(sh) + NumWaves(sh) <=>
        j * NumWaves(sh) < m * NumWaves(sh) \/ j * NumWaves(sh) = m * NumWaves(sh)
  BY <1>1, Multiples
<1> QED
  BY <1>1, <1>2, <1>3, <1>4

LEMMA Mine ==
  ASSUME TypeInv, NEW i \in Nat, NEW w \in Waves, NEW m \in Nat, Line(i) = w + m * NumWaves(sh)
  PROVE  Owner(i) = w
<1>1. NumWaves(sh) \in Nat \ {0} /\ w \in Nat /\ w < NumWaves(sh)
  BY OwnerFacts DEF Waves
<1>2. Line(i) \in Nat /\ m * NumWaves(sh) \in Nat
  BY <1>1, OwnerFacts
<1>3. w \in 0 .. NumWaves(sh) - 1 /\ Line(i) = m * NumWaves(sh) + w
  BY <1>1, <1>2
<1>4. ASSUME NEW n \in Nat, NEW q \in Nat \ {0}, NEW r \in 0 .. q - 1, n = m * q + r
      PROVE  n % q = r
  BY <1>4, Remainder
<1>5. Line(i) % NumWaves(sh) = w
  BY <1>1, <1>2, <1>3, <1>4
<1> QED
  BY <1>5 DEF Owner

(* An index is that of a thread of the wave, by rows, when its row is. *)
LEMMA ThreadRow ==
  ASSUME TypeInv, NEW i \in Nat, NEW w \in Waves, NEW l \in Nat
  PROVE  Line(i) = w + l <=> i - l * sh.waveSize \in Threads(w)
<1>1. sh.waveSize \in Nat \ {0} /\ w \in Nat
  BY ShaderFacts DEF IsShader, Waves
<1>2. /\ w * sh.waveSize \in Nat /\ l * sh.waveSize \in Nat
      /\ (w + l) * sh.waveSize = w * sh.waveSize + l * sh.waveSize
      /\ (w + 1) * sh.waveSize = w * sh.waveSize + sh.waveSize
  BY <1>1
<1>3. w + l \in Nat
  BY <1>1
<1>4. Line(i) = w + l <=> (w + l) * sh.waveSize <= i /\ i < (w + l) * sh.waveSize + sh.waveSize
  BY <1>1, <1>3, DivIs DEF Line
<1> QED
  BY <1>1, <1>2, <1>4 DEF Threads

LEMMA PhaseFacts ==
  ASSUME TypeInv
  PROVE  /\ DOMAIN Phases = 1 .. Len(Phases) /\ Len(Phases) \in Nat
         /\ \A p \in DOMAIN Phases : Phases[p] \in Kinds
         /\ \A p, q \in DOMAIN Phases : Phases[p] = Phases[q] => p = q
<1>1. sh.attributes \in BOOLEAN /\ sh.atmPrecedesPos \in BOOLEAN
  BY ShaderFacts DEF IsShader
<1>2. /\ <<"primitive">> \in Seq(Kinds) /\ <<"position">> \in Seq(Kinds) /\ << >> \in Seq(Kinds)
      /\ <<"vertexAttribute", "primitiveAttribute">> \in Seq(Kinds)
  BY DEF Kinds
<1>3. CASE ~sh.attributes
  <2>1. PICK s \in Seq(Kinds) : Len(s) = 1 /\ s[1] = "position" /\ Phases = <<"primitive">> \o s
    <3>1. << >> \o <<"position">> = <<"position">> /\ <<"position">> \o << >> = <<"position">>
      BY <1>2, ConcatEmptySeq
    <3> QED
      BY <1>2, <1>3, <3>1 DEF Phases
  <2>2. Phases \in Seq(Kinds) /\ Len(Phases) = 2 /\ Phases[1] = "primitive" /\ Phases[2] = "position"
    BY <1>2, <2>1, ConcatProperties
  <2>3. DOMAIN Phases = 1 .. 2 /\ 1 .. 2 = {1, 2}
    BY <2>2
  <2> QED
    BY <2>2, <2>3 DEF Kinds
<1>4. CASE sh.attributes /\ sh.atmPrecedesPos
  <2>1. PICK s \in Seq(Kinds) : /\ s = <<"vertexAttribute", "primitiveAttribute">> \o <<"position">>
                                /\ Phases = <<"primitive">> \o s
    BY <1>2, <1>4, ConcatProperties DEF Phases
  <2>2. Len(s) = 3 /\ s[1] = "vertexAttribute" /\ s[2] = "primitiveAttribute" /\ s[3] = "position"
    BY <1>2, <2>1, ConcatProperties
  <2>3. /\ Phases \in Seq(Kinds) /\ Len(Phases) = 4 /\ Phases[1] = "primitive" /\ Phases[2] = "vertexAttribute"
        /\ Phases[3] = "primitiveAttribute" /\ Phases[4] = "position"
    BY <1>2, <2>1, <2>2, ConcatProperties
  <2> QED
    BY <2>3
<1>5. CASE sh.attributes /\ ~sh.atmPrecedesPos
  <2>1. PICK s \in Seq(Kinds) : /\ s = <<"position">> \o <<"vertexAttribute", "primitiveAttribute">>
                                /\ Phases = <<"primitive">> \o s
    BY <1>2, <1>5, ConcatProperties DEF Phases
  <2>2. Len(s) = 3 /\ s[1] = "position" /\ s[2] = "vertexAttribute" /\ s[3] = "primitiveAttribute"
    BY <1>2, <2>1, ConcatProperties
  <2>3. /\ Phases \in Seq(Kinds) /\ Len(Phases) = 4 /\ Phases[1] = "primitive" /\ Phases[2] = "position"
        /\ Phases[3] = "vertexAttribute" /\ Phases[4] = "primitiveAttribute"
    BY <1>2, <2>1, <2>2, ConcatProperties
  <2> QED
    BY <2>3
<1> QED
  BY <1>1, <1>3, <1>4, <1>5

LEMMA SameExports ==
  ASSUME sh' = sh
  PROVE  /\ Phases' = Phases /\ \A i : Owner(i)' = Owner(i)
         /\ \A t, i : Cell(t, i)' = Cell(t, i)
         /\ UsesRowExport(sh)' = UsesRowExport(sh) /\ NumWaves(sh)' = NumWaves(sh)
         /\ counts' = counts => (Valid' = Valid /\ \A k : Count(k)' = Count(k))
         /\ prims' = prims /\ outs' = outs => \A k, c : Data(k, c)' = Data(k, c)
<1>1. Phases' = Phases /\ \A i : Line(i)' = Line(i) /\ Owner(i)' = Owner(i)
  BY DEF Phases, Line, Owner
<1>3. \A t, i : Cell(t, i)' = Cell(t, i)
  BY DEF Cell, OutputsToAllocas
<1>4. counts' = counts => (Valid' = Valid /\ \A k : Count(k)' = Count(k))
  BY DEF Valid, Count
<1>5. prims' = prims /\ outs' = outs => \A k, c : Data(k, c)' = Data(k, c)
  BY DEF Data, PrimitiveData, Positions, VertexAttributes, PrimitiveAttributes
<1> QED
  BY <1>1, <1>3, <1>4, <1>5

LEMMA ExportedNext ==
  ASSUME sh' = sh, NEW k, NEW i
  PROVE  Exported(k, i)' <=> i < Count(k)' /\ Passed(k, i, phase'[Owner(i)], loopIndex'[Owner(i)])
<1>1. Phases' = Phases /\ Owner(i)' = Owner(i) /\ Line(i)' = Line(i)
  BY SameExports, SameLayout
<1> QED
  BY <1>1 DEF Exported, Passed

-----------------------------------------------------------------------------
(* Counts and cells *)

(* What the theorem on exports supposes of the shaders. *)
Regular == \A s \in Shaders : IsRegular(s)

LEMMA Max3 ==
  ASSUME NEW a \in Int, NEW b \in Int, NEW c \in Int
  PROVE  /\ Max({a, b, c}) \in Int
         /\ a <= Max({a, b, c}) /\ b <= Max({a, b, c}) /\ c <= Max({a, b, c})
<1>1. \E x \in {a, b, c} : \A y \in {a, b, c} : x >= y
  <2>1. CASE a >= b /\ a >= c  BY <2>1
  <2>2. CASE b >= a /\ b >= c  BY <2>2
  <2>3. CASE c >= a /\ c >= b  BY <2>3
  <2> QED BY <2>1, <2>2, <2>3
<1> QED
  BY <1>1 DEF Max

LEMMA CellFacts ==
  ASSUME TypeInv
  PROVE  /\ \A i \in Cells(sh) : i \in Nat
         /\ \A i \in Nat : i < sh.vertices \/ i < sh.primitives => i \in Cells(sh)
<1>1. IsShader(sh) /\ sh.waveSize \in Nat /\ sh.vertices \in Nat /\ sh.primitives \in Nat
  BY ShaderFacts DEF IsShader
<1>2. FlatWorkgroupSize(sh) \in Int
  BY <1>1, WaveCounts
<1>3. PICK m : m = Max({FlatWorkgroupSize(sh), sh.primitives, sh.vertices})
  OBVIOUS
<1>4. m \in Int /\ sh.primitives <= m /\ sh.vertices <= m
  <2>1. ASSUME NEW a \in Int, NEW b \in Int, NEW c \in Int, m = Max({a, b, c})
        PROVE  m \in Int /\ b <= m /\ c <= m
    BY <2>1, Max3
  <2>2. sh.primitives \in Int /\ sh.vertices \in Int
    BY <1>1
  <2> QED
    BY <1>2, <1>3, <2>1, <2>2
<1>5. Cells(sh) = 0 .. m - 1
  BY <1>3 DEF Cells
<1> QED
  BY <1>1, <1>4, <1>5

LEMMA CountFacts ==
  ASSUME TypeInv, Regular, CountsInv, Valid, NEW k \in Kinds
  PROVE  /\ Count(k) \in Nat
         /\ Count(k) <= sh.vertices \/ Count(k) <= sh.primitives
         /\ k = "primitive" => Count(k) <= sh.primitives
         /\ ~UsesRowExport(sh) \/ OutputsToAllocas(sh) => Count(k) <= FlatWorkgroupSize(sh)
<1>1. PICK j \in DOMAIN sh.ops : sh.ops[j].op = "outputs" /\ counts = <<sh.ops[j].vertices, sh.ops[j].primitives>>
  BY DEF CountsInv, Valid
<1>2. IsShader(sh) /\ sh.waveSize \in Nat /\ sh.vertices \in Nat /\ sh.primitives \in Nat
  BY ShaderFacts DEF IsShader
<1>3. sh.ops[j].vertices \in 0 .. sh.vertices /\ sh.ops[j].primitives \in 0 .. sh.primitives
  BY <1>1, <1>2 DEF IsShader, IsOp
<1>4. counts[1] = sh.ops[j].vertices /\ counts[2] = sh.ops[j].primitives
  BY <1>1
<1>5. /\ FlatWorkgroupSize(sh) \in Nat
      /\ ~UsesRowExport(sh) => sh.vertices <= FlatWorkgroupSize(sh) /\ sh.primitives <= FlatWorkgroupSize(sh)
  BY <1>2, WaveCounts
<1>6. UsesRowExport(sh) /\ OutputsToAllocas(sh) =>
        sh.ops[j].vertices <= FlatWorkgroupSize(sh) /\ sh.ops[j].primitives <= FlatWorkgroupSize(sh)
  BY <1>1 DEF Regular, IsRegular, TypeInv
<1>7. /\ Count(k) = sh.ops[j].vertices \/ Count(k) = sh.ops[j].primitives
      /\ k = "primitive" => Count(k) = sh.ops[j].primitives
  BY <1>4 DEF Count
<1> QED
  BY <1>2, <1>3, <1>5, <1>6, <1>7

(* Without rows beyond the first, the row of an index is that of its wave. *)
LEMMA FirstRow ==
  ASSUME TypeInv, NEW i \in Nat, i < FlatWorkgroupSize(sh)
  PROVE  Line(i) = Owner(i)
<1>1. /\ sh.waveSize \in Nat \ {0} /\ NumWaves(sh) \in Nat \ {0} /\ FlatWorkgroupSize(sh) = NumWaves(sh) * sh.waveSize
      /\ Line(i) \in Nat
  BY ShaderFacts, WaveCounts, OwnerFacts DEF IsShader
<1>2. Line(i) * sh.waveSize <= i /\ Line(i) * sh.waveSize \in Nat
  <2>1. (i \div sh.waveSize) * sh.waveSize <= i
    BY <1>1, Division
  <2>2. Line(i) * sh.waveSize <= i
    BY <2>1 DEF Line
  <2> QED
    BY <1>1, <2>2
<1>3. Line(i) < NumWaves(sh)
  <2>1. ASSUME NumWaves(sh) <= Line(i)  PROVE FALSE
    <3>1. NumWaves(sh) * sh.waveSize <= Line(i) * sh.waveSize /\ NumWaves(sh) * sh.waveSize \in Nat
      BY <1>1, <2>1
    <3> QED
      BY <1>1, <1>2, <3>1
  <2> QED
    BY <1>1, <2>1
<1>4. Line(i) \in Waves /\ Line(i) = Line(i) + 0 * NumWaves(sh)
  BY <1>1, <1>3 DEF Waves
<1> QED
  BY <1>4, Mine

-----------------------------------------------------------------------------
(* The exports, step by step *)

(* A step before the last barrier. *)
LEMMA ExportEarly ==
  ASSUME TypeInv, StageInv, Late, ExportType, ~EndStage, sh' = sh, exports' = exports, phase' = phase,
         loopIndex' = loopIndex, \A w \in Waves : pc'[w] \notin {"export", "done"}
  PROVE  ExportType' /\ ExportInv'
<1>1. NoExports
  BY DEF Late
<1>2. \A w \in Waves : phase[w] = 1 /\ loopIndex[w] = 0
  <2>1. \A w \in Waves : pc[w] \notin Closing
    BY PlaceEnd
  <2> QED
    BY <2>1 DEF ExportType, Closing
<1>3. ExportType'
  BY <1>2, SameShader, SameLayout, SameExports DEF ExportType
<1>4. ASSUME NEW k, NEW i \in Cells(sh)  PROVE ~Exported(k, i)'
  <2>1. i \in Nat /\ Owner(i) \in Waves /\ Owner(i) \in Nat /\ Line(i) \in Nat
    BY CellFacts, OwnerFacts
  <2>2. Line(i) >= Owner(i)
    <3>1. PICK m \in Nat : Line(i) = Owner(i) + m * NumWaves(sh)
      BY <2>1, OwnerFacts
    <3>2. m * NumWaves(sh) \in Nat
      BY <2>1, OwnerFacts
    <3> QED
      BY <2>1, <3>1, <3>2
  <2>3. ~Passed(k, i, 1, 0)
    <3>1. \A q \in DOMAIN Phases : ~(q < 1)
      BY PhaseFacts
    <3> QED
      BY <2>1, <2>2, <3>1 DEF Passed
  <2> QED
    BY <1>2, <2>1, <2>3, ExportedNext
<1>5. ExportInv'
  BY <1>1, <1>4, SameLayout DEF ExportInv, NoExports
<1> QED
  BY <1>3, <1>5

LEMMA EarlySteps ==
  ASSUME TypeInv, StageInv, Late, ExportType, NEW w \in Waves, WaveStep(w),
         ~CheckCounts(w), ~Export(w), ~ExportDone(w), ~Exit(w)
  PROVE  ExportType' /\ ExportInv'
<1>1. /\ sh' = sh /\ exports' = exports /\ phase' = phase /\ loopIndex' = loopIndex
      /\ pc[w] \in {"init", "special", "api", "or", "extra", "flag"}
  BY DEF WaveStep, InitIndices, WriteSpecialValue, ApiBarrier, SetMeshOutputs, ClearBits, SetBits,
     WriteMeshOutput, EndApi, ExtraBarrier, ReadFlag, HasOp
<1>2. \E l \in Labels \ {"export", "done"} : pc' = [pc EXCEPT ![w] = l]
  <2>1. CASE InitIndices(w) \/ WriteSpecialValue(w) \/ ApiBarrier(w) \/ ClearBits(w) \/ SetBits(w) \/ EndApi(w)
             \/ ExtraBarrier(w) \/ ReadFlag(w)
    BY <2>1 DEF InitIndices, WriteSpecialValue, ApiBarrier, ClearBits, SetBits, EndApi, ExtraBarrier, ReadFlag,
       Goto, Body, Labels, Barriers
  <2>2. CASE SetMeshOutputs(w) \/ WriteMeshOutput(w)
    <3>1. pc' = pc /\ pc[w] \in Labels \ {"export", "done"}
      BY <1>1, <2>2 DEF SetMeshOutputs, WriteMeshOutput, Labels
    <3> QED
      BY <3>1, SamePlace
  <2> QED
    BY <2>1, <2>2 DEF WaveStep
<1>3. ~EndStage
  BY <1>1, NotEnd DEF Closing
<1>4. \A v \in Waves : pc[v] \notin Closing
  BY <1>3, PlaceEnd
<1>5. \A v \in Waves : pc'[v] \notin {"export", "done"}
  BY <1>2, <1>4 DEF TypeInv, Closing
<1> QED
  BY <1>1, <1>3, <1>5, ExportEarly

LEMMA ReleaseExport ==
  ASSUME TypeInv, StageInv, Late, ExportType, Release
  PROVE  ExportType' /\ ExportInv'
<1>1. sh' = sh /\ exports' = exports /\ phase' = phase /\ loopIndex' = loopIndex
  BY DEF Release
<1>2. ~EndStage
  BY DEF Release, EndStage, Closing, Barriers
<1>3. ASSUME NEW w \in Waves  PROVE pc'[w] \notin {"export", "done"}
  <2>1. pc[w] \notin Closing
    BY <1>2, PlaceEnd
  <2>2. pc[w] \in Barriers /\ pc'[w] = AfterBarrier(w)
    BY <2>1 DEF Release, Closing
  <2> QED
    BY <2>2 DEF AfterBarrier, Body, Barriers
<1> QED
  BY <1>1, <1>2, <1>3, ExportEarly

(* A step that only moves on to the exports, or to the end. *)
LEMMA ExportSame ==
  ASSUME TypeInv, ExportInv, EndStage, sh' = sh, counts' = counts, prims' = prims, outs' = outs,
         exports' = exports, \A k, i : i \in Cells(sh) => (Exported(k, i)' <=> Exported(k, i))
  PROVE  ExportInv'
<1>1. Valid' = Valid /\ \A k, c : Data(k, c)' = Data(k, c)
  BY SameExports
<1>2. Cells(sh)' = Cells(sh) /\ \A i : Line(i)' = Line(i)
  BY SameLayout
<1> QED
  BY <1>1, <1>2 DEF ExportInv

LEMMA EndSteps ==
  ASSUME TypeInv, StageInv, ExportType, ExportInv, NEW w \in Waves, CheckCounts(w) \/ Exit(w)
  PROVE  ExportType' /\ ExportInv'
<1>1. /\ sh' = sh /\ counts' = counts /\ prims' = prims /\ outs' = outs /\ exports' = exports
      /\ phase' = phase /\ loopIndex' = loopIndex
  BY DEF CheckCounts, Exit, memory
<1>2. EndStage
  BY ClosingStage
<1>3. \A k, i : Exported(k, i)' <=> Exported(k, i)
  BY <1>1, ExportedNext, SameExports DEF Exported
<1>4. ExportInv'
  BY <1>1, <1>2, <1>3, ExportSame
<1>5. PICK l \in {"export", "done"} : pc' = [pc EXCEPT ![w] = l]
  BY DEF CheckCounts, Exit, Goto
<1>6. \A v \in Waves : pc'[v] = IF v = w THEN l ELSE pc[v]
  BY <1>5 DEF TypeInv
<1>7. l = "done" /\ Valid => phase[w] = Len(Phases) + 1
  <2>1. CASE CheckCounts(w)
    BY <1>6, <2>1 DEF CheckCounts, Goto, TypeInv, Valid
  <2>2. CASE Exit(w)
    <3>1. phase[w] \in Nat /\ phase[w] > Len(Phases) /\ phase[w] <= Len(Phases) + 1 /\ Len(Phases) \in Nat
      BY <2>2, PhaseFacts DEF Exit, ExportType
    <3> QED
      BY <3>1
  <2> QED
    BY <2>1, <2>2
<1>8. /\ \A v \in Waves : pc'[v] \notin {"export", "done"} => phase[v] = 1 /\ loopIndex[v] = 0
      /\ \A v \in Waves : pc'[v] = "done" /\ Valid => phase[v] = Len(Phases) + 1
  BY <1>6, <1>7 DEF ExportType
<1>9. /\ Waves' = Waves /\ Cells(sh)' = Cells(sh) /\ Phases' = Phases /\ Valid' = Valid
      /\ UsesRowExport(sh)' = UsesRowExport(sh) /\ NumWaves(sh)' = NumWaves(sh)
  BY <1>1, SameShader, SameLayout, SameExports
<1>10. ExportType'
  BY <1>1, <1>8, <1>9 DEF ExportType
<1> QED
  BY <1>4, <1>10

(* A wave that exports has the counts of the trace. *)
LEMMA ValidExport ==
  ASSUME TypeInv, StageInv, Asked, Late, NEW w \in Waves, pc[w] = "export"
  PROVE  EndStage /\ Valid
<1>1. EndStage /\ counts[1] \notin {InvalidValue, 0}
  BY DEF Late
<1>2. pc[0] \notin Entry
  BY <1>1, ShaderFacts DEF EndStage, Closing, Entry
<1>3. counts \in Nat \X Nat
  BY <1>1, <1>2 DEF Asked
<1>4. counts[1] \in Nat
  BY <1>3
<1>5. counts[1] # Garbage
  BY <1>4 DEF Garbage
<1> QED
  BY <1>1, <1>5 DEF Valid

LEMMA PassedRow ==
  ASSUME TypeInv, NEW k, NEW i \in Nat, NEW p \in DOMAIN Phases, NEW m \in Nat, NEW l, l = m * NumWaves(sh)
  PROVE  Passed(k, i, p, l + NumWaves(sh)) <=> Passed(k, i, p, l) \/ (Phases[p] = k /\ Line(i) = Owner(i) + l)
<1>1. Line(i) < Owner(i) + (l + NumWaves(sh)) <=> Line(i) < Owner(i) + l \/ Line(i) = Owner(i) + l
  BY Turn
<1>2. ASSUME Passed(k, i, p, l + NumWaves(sh))
      PROVE  Passed(k, i, p, l) \/ (Phases[p] = k /\ Line(i) = Owner(i) + l)
  <2>1. PICK q \in DOMAIN Phases :
          Phases[q] = k /\ (q < p \/ (q = p /\ Line(i) < Owner(i) + (l + NumWaves(sh))))
    BY <1>2, Zenon DEF Passed
  <2>2. CASE q < p
    BY <2>1, <2>2 DEF Passed
  <2>3. CASE q = p /\ Line(i) < Owner(i) + l
    BY <2>1, <2>3 DEF Passed
  <2>4. CASE q = p /\ Line(i) = Owner(i) + l
    BY <2>1, <2>4
  <2> QED
    BY <1>1, <2>1, <2>2, <2>3, <2>4
<1>3. ASSUME Passed(k, i, p, l) \/ (Phases[p] = k /\ Line(i) = Owner(i) + l)
      PROVE  Passed(k, i, p, l + NumWaves(sh))
  BY <1>1, <1>3 DEF Passed
<1> QED
  BY <1>2, <1>3

LEMMA OwnRow ==
  ASSUME TypeInv, NEW i \in Nat
  PROVE  Owner(i) <= Line(i) /\ ~(Line(i) < Owner(i) + 0)
<1>1. PICK m \in Nat : Line(i) = Owner(i) + m * NumWaves(sh)
  BY OwnerFacts
<1>2. m * NumWaves(sh) \in Nat /\ Owner(i) \in Nat
  BY OwnerFacts
<1> QED
  BY <1>1, <1>2

LEMMA PassedNext ==
  ASSUME TypeInv, NEW k, NEW i \in Nat, NEW p \in DOMAIN Phases, NEW l \in Nat
  PROVE  Passed(k, i, p + 1, 0) <=> Passed(k, i, p, l) \/ Phases[p] = k
<1>1. ~(Line(i) < Owner(i) + 0)
  BY OwnRow
<1>2. p \in Int /\ \A q \in DOMAIN Phases : q < p + 1 <=> q < p \/ q = p
  BY PhaseFacts
<1>3. ASSUME Passed(k, i, p + 1, 0)  PROVE Passed(k, i, p, l) \/ Phases[p] = k
  <2>1. PICK q \in DOMAIN Phases : Phases[q] = k /\ (q < p + 1 \/ (q = p + 1 /\ Line(i) < Owner(i) + 0))
    BY <1>3, Zenon DEF Passed
  <2>2. q < p \/ q = p
    BY <1>1, <1>2, <2>1
  <2>3. CASE q < p
    BY <2>1, <2>3 DEF Passed
  <2>4. CASE q = p
    BY <2>1, <2>4
  <2> QED
    BY <2>2, <2>3, <2>4
<1>4. ASSUME Passed(k, i, p, l) \/ Phases[p] = k  PROVE Passed(k, i, p + 1, 0)
  <2>1. PICK q \in DOMAIN Phases : Phases[q] = k /\ (q < p \/ q = p)
    BY <1>4, Zenon DEF Passed
  <2>2. q < p + 1
    BY <1>2, <2>1
  <2> QED
    BY <2>1, <2>2 DEF Passed
<1> QED
  BY <1>3, <1>4

(* A wave with no index left in its row has none left at all. *)
LEMMA NoneLeft ==
  ASSUME TypeInv, NEW w \in Waves, loopIndex[w] \in Nat, Count(Phases[phase[w]]) \in Nat, Exporters(w) = {},
         NEW i \in Nat, i < Count(Phases[phase[w]]), Owner(i) = w
  PROVE  Line(i) < Owner(i) + loopIndex[w]
<1>1. PICK l \in Nat, n \in Nat : l = loopIndex[w] /\ n = Count(Phases[phase[w]])
  OBVIOUS
<1>2. sh.waveSize \in Nat \ {0} /\ w \in Nat /\ Line(i) \in Nat
  BY ShaderFacts, OwnerFacts DEF IsShader, Waves
<1>3. Line(i) * sh.waveSize <= i /\ Line(i) * sh.waveSize \in Nat
  <2>1. (i \div sh.waveSize) * sh.waveSize <= i
    BY <1>2, Division
  <2>2. Line(i) * sh.waveSize <= i
    BY <2>1 DEF Line
  <2> QED
    BY <1>2, <2>2
<1>4. SUFFICES ASSUME w + l <= Line(i)  PROVE FALSE
  BY <1>1, <1>2
<1>5. /\ w * sh.waveSize \in Nat /\ l * sh.waveSize \in Nat
      /\ (w + l) * sh.waveSize = w * sh.waveSize + l * sh.waveSize
      /\ (w + 1) * sh.waveSize = w * sh.waveSize + sh.waveSize
  BY <1>2
<1>6. (w + l) * sh.waveSize <= Line(i) * sh.waveSize
  BY <1>2, <1>4
<1>7. w * sh.waveSize + l * sh.waveSize < n
  BY <1>1, <1>3, <1>5, <1>6
<1>8. w * sh.waveSize \in Threads(w)
  BY <1>2, <1>5 DEF Threads
<1> QED
  BY <1>1, <1>7, <1>8 DEF Exporters

LEMMA ExportDoneExport ==
  ASSUME TypeInv, StageInv, Asked, Late, Regular, CountsInv, ExportType, ExportInv,
         NEW w \in Waves, ExportDone(w)
  PROVE  ExportType' /\ ExportInv'
<1>1. /\ sh' = sh /\ counts' = counts /\ prims' = prims /\ outs' = outs /\ exports' = exports /\ pc' = pc
      /\ pc[w] = "export" /\ phase[w] <= Len(Phases) /\ Exporters(w) = {}
      /\ phase' = [phase EXCEPT ![w] = phase[w] + 1] /\ loopIndex' = [loopIndex EXCEPT ![w] = 0]
  BY DEF ExportDone, memory
<1>2. EndStage /\ Valid
  BY <1>1, ValidExport
<1>3. phase \in [Waves -> Nat \ {0}] /\ loopIndex \in [Waves -> Nat]
  BY DEF ExportType
<1>4. PICK p, l, k : p = phase[w] /\ l = loopIndex[w] /\ k = Phases[p]
  OBVIOUS
<1>5. p \in Nat \ {0} /\ l \in Nat /\ p \in DOMAIN Phases /\ k \in Kinds /\ p + 1 <= Len(Phases) + 1
  <2>1. p \in Nat \ {0} /\ l \in Nat /\ p <= Len(Phases)
    BY <1>1, <1>3, <1>4
  <2>2. p \in DOMAIN Phases /\ p + 1 <= Len(Phases) + 1
    BY <2>1, PhaseFacts
  <2> QED
    BY <1>4, <2>1, <2>2, PhaseFacts
<1>6. /\ phase'[w] = p + 1 /\ loopIndex'[w] = 0
      /\ \A v \in Waves \ {w} : phase'[v] = phase[v] /\ loopIndex'[v] = loopIndex[v]
      /\ phase' \in [Waves -> Nat \ {0}] /\ loopIndex' \in [Waves -> Nat]
  BY <1>1, <1>3, <1>4, <1>5
<1>7. ASSUME NEW k2, NEW i, i \in Cells(sh)  PROVE Exported(k2, i)' <=> Exported(k2, i)
  <2>1. i \in Nat /\ Owner(i) \in Waves
    BY <1>7, CellFacts, OwnerFacts
  <2>2. Count(k2)' = Count(k2)
    BY <1>1, SameExports
  <2>3. CASE Owner(i) # w
    BY <1>1, <1>6, <2>1, <2>2, <2>3, ExportedNext DEF Exported
  <2>4. CASE Owner(i) = w
    <3>1. Exported(k2, i)' <=> i < Count(k2) /\ Passed(k2, i, p + 1, 0)
      BY <1>1, <1>6, <2>2, <2>4, ExportedNext
    <3>2. Exported(k2, i) <=> i < Count(k2) /\ Passed(k2, i, p, l)
      BY <1>4, <2>4 DEF Exported
    <3>3. Passed(k2, i, p + 1, 0) <=> Passed(k2, i, p, l) \/ k = k2
      BY <1>4, <1>5, <2>1, PassedNext
    <3>4. i < Count(k2) /\ k = k2 => Passed(k2, i, p, l)
      <4>1. SUFFICES ASSUME i < Count(k2), k = k2  PROVE Passed(k2, i, p, l)
        OBVIOUS
      <4>2. Count(k) \in Nat
        BY <1>2, <1>5, CountFacts
      <4>3. Line(i) < Owner(i) + l
        BY <1>1, <1>4, <1>5, <2>1, <2>4, <4>1, <4>2, NoneLeft
      <4> QED
        BY <1>4, <1>5, <4>1, <4>3 DEF Passed
    <3> QED
      BY <3>1, <3>2, <3>3, <3>4
  <2> QED
    BY <2>3, <2>4
<1>8. ExportInv'
  BY <1>1, <1>2, <1>7, ExportSame
<1>9. /\ Waves' = Waves /\ Cells(sh)' = Cells(sh) /\ Phases' = Phases /\ Valid' = Valid
      /\ UsesRowExport(sh)' = UsesRowExport(sh) /\ NumWaves(sh)' = NumWaves(sh)
  BY <1>1, SameShader, SameLayout, SameExports
<1>10. \A v \in Waves : \E m \in 0 .. loopIndex'[v] : loopIndex'[v] = m * NumWaves(sh)
  <2>1. 0 \in 0 .. 0 /\ 0 = 0 * NumWaves(sh)
    BY ShaderFacts
  <2> QED
    BY <1>6, <2>1 DEF ExportType
<1>11. /\ ~UsesRowExport(sh) => \A v \in Waves : loopIndex'[v] = 0
       /\ \A v \in Waves : phase'[v] <= Len(Phases) + 1
  BY <1>5, <1>6 DEF ExportType
<1>12. /\ \A v \in Waves : pc[v] \notin {"export", "done"} => phase'[v] = 1 /\ loopIndex'[v] = 0
       /\ \A v \in Waves : pc[v] = "done" /\ Valid => phase'[v] = Len(Phases) + 1
  BY <1>1, <1>6 DEF ExportType
<1>13. DOMAIN exports = Kinds /\ \A c \in Kinds : DOMAIN exports[c] = Cells(sh)
  BY DEF ExportType
<1>14. ExportType'
  BY <1>1, <1>6, <1>9, <1>10, <1>11, <1>12, <1>13 DEF ExportType
<1> QED
  BY <1>8, <1>14

(* The indices below n of row l of a wave, and the threads that export them. *)
Sends(w, l, n) == {<<t + l * sh.waveSize, t>> : t \in {t \in Threads(w) : t + l * sh.waveSize < n}}

LEMMA Senders ==
  ASSUME TypeInv, NEW w \in Waves, NEW l \in Nat, NEW n \in Nat, NEW from, from = Sends(w, l, n),
         NEW i \in Nat
  PROVE  /\ (\E p \in from : p[1] = i) <=> i < n /\ Line(i) = w + l
         /\ i < n /\ Line(i) = w + l => (CHOOSE p \in from : p[1] = i)[2] = i - l * sh.waveSize
<1>1. l * sh.waveSize \in Nat /\ \A t \in Threads(w) : t \in Int
  BY ShaderFacts DEF IsShader, Threads
<1>2. PICK a \in Nat : a = l * sh.waveSize
  BY <1>1
<1>3. Line(i) = w + l <=> i - a \in Threads(w)
  BY <1>2, ThreadRow
<1>4. from = {<<t + a, t>> : t \in {t \in Threads(w) : t + a < n}}
  BY <1>2 DEF Sends
<1>5. ASSUME NEW p \in from, p[1] = i  PROVE i < n /\ Line(i) = w + l /\ p = <<i, i - a>>
  <2>1. PICK t \in Threads(w) : t + a < n /\ p = <<t + a, t>>
    BY <1>4, <1>5
  <2>2. t + a = i /\ t \in Int
    BY <1>1, <1>5, <2>1
  <2>3. t = i - a
    BY <2>2
  <2> QED
    BY <1>3, <2>1, <2>2, <2>3
<1>6. ASSUME i < n, Line(i) = w + l  PROVE <<i, i - a>> \in from
  <2>1. i - a \in Threads(w) /\ (i - a) + a = i
    BY <1>3, <1>6
  <2> QED
    BY <1>4, <1>6, <2>1
<1>7. ASSUME i < n, Line(i) = w + l  PROVE (CHOOSE p \in from : p[1] = i)[2] = i - a
  <2>1. PICK p : p = (CHOOSE x \in from : x[1] = i)
    OBVIOUS
  <2>2. \E x \in from : x[1] = i
    <3>1. <<i, i - a>>[1] = i
      OBVIOUS
    <3> QED
      BY <1>6, <1>7, <3>1
  <2>3. p \in from /\ p[1] = i
    BY <2>1, <2>2, Zenon
  <2>4. p[2] = i - a
    BY <1>5, <2>3
  <2> QED
    BY <2>1, <2>4
<1> QED
  BY <1>2, <1>5, <1>6, <1>7

LEMMA ExportExport ==
  ASSUME TypeInv, StageInv, Asked, Late, Regular, CountsInv, ExportType, ExportInv,
         NEW w \in Waves, Export(w)
  PROVE  ExportType' /\ ExportInv'
<1>1. /\ sh' = sh /\ counts' = counts /\ prims' = prims /\ outs' = outs /\ pc' = pc
      /\ pc[w] = "export" /\ phase[w] <= Len(Phases)
  BY DEF Export, memory
<1>2. EndStage /\ Valid
  BY <1>1, ValidExport
<1>3. phase \in [Waves -> Nat \ {0}] /\ loopIndex \in [Waves -> Nat]
  BY DEF ExportType
<1>4. PICK p, l, k : p = phase[w] /\ l = loopIndex[w] /\ k = Phases[p]
  OBVIOUS
<1>5. /\ p \in Nat \ {0} /\ l \in Nat /\ p \in DOMAIN Phases /\ k \in Kinds /\ p + 1 <= Len(Phases) + 1
      /\ p <= Len(Phases) + 1
  <2>1. p \in Nat \ {0} /\ l \in Nat /\ p <= Len(Phases)
    BY <1>1, <1>3, <1>4
  <2>2. p \in DOMAIN Phases /\ p + 1 <= Len(Phases) + 1 /\ p <= Len(Phases) + 1
    BY <2>1, PhaseFacts
  <2> QED
    BY <1>4, <2>1, <2>2, PhaseFacts
<1>6. PICK m \in Nat : l = m * NumWaves(sh) /\ m \in 0 .. l
  BY <1>4, <1>5 DEF ExportType
<1>7. NumWaves(sh) \in Nat \ {0} /\ w \in Nat /\ l + NumWaves(sh) \in Nat
  <2>1. NumWaves(sh) \in Nat \ {0}
    BY ShaderFacts DEF Waves
  <2> QED
    BY <1>5, <2>1 DEF Waves
<1>8. PICK n \in Nat : n = Count(k)
  BY <1>2, <1>5, CountFacts
<1>9. PICK from : from = Sends(w, l, n)
  OBVIOUS
<1>10. PICK new : new = [i \in DOMAIN exports[k] |->
           IF \E x \in from : x[1] = i
             THEN Append(exports[k][i], [row  |-> w + l,
                                         data |-> Data(k, Cell((CHOOSE x \in from : x[1] = i)[2], i))])
             ELSE exports[k][i]]
  OBVIOUS
<1>11. exports' = [exports EXCEPT ![k] = new]
  <2>1. Exporters(w) = {t \in Threads(w) : t + l * sh.waveSize < n}
    BY <1>4, <1>8 DEF Exporters
  <2> QED
    BY <1>4, <1>9, <1>10, <2>1 DEF Export, Sends
<1>12. DOMAIN exports = Kinds /\ \A c \in Kinds : DOMAIN exports[c] = Cells(sh)
  BY DEF ExportType
<1>13. DOMAIN exports' = Kinds /\ exports'[k] = new /\ \A c \in Kinds \ {k} : exports'[c] = exports[c]
  BY <1>5, <1>11, <1>12
<1>14. DOMAIN new = Cells(sh)
  BY <1>5, <1>10, <1>12
<1>15. \/ /\ UsesRowExport(sh) /\ phase' = phase
          /\ loopIndex' = [loopIndex EXCEPT ![w] = l + NumWaves(sh)]
       \/ ~UsesRowExport(sh) /\ loopIndex' = loopIndex /\ phase' = [phase EXCEPT ![w] = p + 1]
  BY <1>4 DEF Export
<1>16. /\ phase' \in [Waves -> Nat \ {0}] /\ loopIndex' \in [Waves -> Nat]
       /\ \A v \in Waves \ {w} : phase'[v] = phase[v] /\ loopIndex'[v] = loopIndex[v]
       /\ UsesRowExport(sh) => phase'[w] = p /\ loopIndex'[w] = l + NumWaves(sh)
       /\ ~UsesRowExport(sh) => phase'[w] = p + 1 /\ loopIndex'[w] = l
  <2>1. CASE UsesRowExport(sh)
    <3>1. phase' = phase /\ loopIndex' = [loopIndex EXCEPT ![w] = l + NumWaves(sh)]
      BY <1>15, <2>1
    <3> QED
      BY <1>3, <1>4, <1>7, <2>1, <3>1
  <2>2. CASE ~UsesRowExport(sh)
    <3>1. loopIndex' = loopIndex /\ phase' = [phase EXCEPT ![w] = p + 1] /\ p + 1 \in Nat \ {0}
      BY <1>5, <1>15, <2>2
    <3> QED
      BY <1>3, <1>4, <2>2, <3>1
  <2> QED
    BY <2>1, <2>2
<1>17. ~UsesRowExport(sh) => l = 0
  BY <1>4 DEF ExportType
<1> DEFINE Sent(c, i) == c = k /\ i < n /\ Line(i) = w + l
<1>18. ASSUME NEW i \in Nat, Line(i) = w + l  PROVE Owner(i) = w
  BY <1>6, <1>18, Mine
<1>19. ASSUME NEW i \in Nat, i < n, ~UsesRowExport(sh) \/ OutputsToAllocas(sh)  PROVE Line(i) = Owner(i)
  <2>1. n <= FlatWorkgroupSize(sh)
    BY <1>2, <1>5, <1>8, <1>19, CountFacts
  <2>2. FlatWorkgroupSize(sh) \in Nat
    BY ShaderFacts, WaveCounts DEF IsShader
  <2>3. i < FlatWorkgroupSize(sh)
    BY <1>19, <2>1, <2>2
  <2> QED
    BY <2>3, FirstRow
<1>20. ASSUME NEW c \in Kinds, NEW i \in Cells(sh)
       PROVE  Exported(c, i)' <=> Exported(c, i) \/ Sent(c, i)
  <2>1. i \in Nat /\ Owner(i) \in Waves
    BY CellFacts, OwnerFacts
  <2>2. Count(c)' = Count(c) /\ (c = k => Count(c) = n)
    BY <1>1, <1>8, SameExports
  <2>3. CASE Owner(i) # w
    BY <1>1, <1>16, <1>18, <2>1, <2>2, <2>3, ExportedNext DEF Exported
  <2>4. CASE Owner(i) = w /\ UsesRowExport(sh)
    <3>1. Exported(c, i)' <=> i < Count(c) /\ Passed(c, i, p, l + NumWaves(sh))
      BY <1>1, <1>16, <2>2, <2>4, ExportedNext
    <3>2. Exported(c, i) <=> i < Count(c) /\ Passed(c, i, p, l)
      BY <1>4, <2>4 DEF Exported
    <3>3. Passed(c, i, p, l + NumWaves(sh)) <=> Passed(c, i, p, l) \/ (k = c /\ Line(i) = w + l)
      BY <1>4, <1>5, <1>6, <2>1, <2>4, PassedRow
    <3> QED
      BY <2>2, <3>1, <3>2, <3>3
  <2>5. CASE Owner(i) = w /\ ~UsesRowExport(sh)
    <3>1. Exported(c, i)' <=> i < Count(c) /\ Passed(c, i, p + 1, 0)
      BY <1>1, <1>16, <1>17, <2>2, <2>5, ExportedNext
    <3>2. Exported(c, i) <=> i < Count(c) /\ Passed(c, i, p, l)
      BY <1>4, <2>5 DEF Exported
    <3>3. Passed(c, i, p + 1, 0) <=> Passed(c, i, p, l) \/ k = c
      BY <1>4, <1>5, <2>1, PassedNext
    <3>4. i < n => Line(i) = w + l
      BY <1>7, <1>17, <1>19, <2>1, <2>5
    <3> QED
      BY <2>2, <3>1, <3>2, <3>3, <3>4
  <2> QED
    BY <2>3, <2>4, <2>5
<1>21. ASSUME NEW i \in Cells(sh), Sent(k, i)
       PROVE  ~Exported(k, i) /\ new[i] = <<[row |-> Line(i), data |-> Data(k, i)]>>
  <2>1. i \in Nat /\ Line(i) = w + l /\ i < n /\ Owner(i) = w
    BY <1>18, <1>21, CellFacts
  <2>2. ~Passed(k, i, p, l)
    <3>1. \A q \in DOMAIN Phases : Phases[q] = k => q = p
      BY <1>4, <1>5, PhaseFacts
    <3>2. ~(p < p) /\ ~(Line(i) < Owner(i) + l)
      BY <1>5, <1>7, <2>1
    <3> QED
      BY <3>1, <3>2 DEF Passed
  <2>3. ~Exported(k, i)
    BY <1>4, <2>1, <2>2 DEF Exported
  <2>4. exports[k][i] = <<>>
    BY <1>2, <1>5, <2>3 DEF ExportInv
  <2>5. PICK t : t = i - l * sh.waveSize
    OBVIOUS
  <2>6. (\E x \in from : x[1] = i) /\ (CHOOSE x \in from : x[1] = i)[2] = t
    BY <1>5, <1>9, <2>1, <2>5, Senders
  <2>7. new[i] = Append(<<>>, [row |-> w + l, data |-> Data(k, Cell(t, i))])
    BY <1>10, <1>14, <2>4, <2>6
  <2>8. Cell(t, i) = i
    <3>1. CASE OutputsToAllocas(sh)
      <4>1. l = 0
        BY <1>5, <1>7, <1>19, <2>1, <3>1
      <4>2. t = i
        BY <2>1, <2>5, <4>1, ShaderFacts DEF IsShader
      <4> QED
        BY <4>2 DEF Cell
    <3>2. CASE ~OutputsToAllocas(sh)
      BY <3>2 DEF Cell
    <3> QED
      BY <3>1, <3>2
  <2>9. new[i] = Append(<<>>, [row |-> Line(i), data |-> Data(k, i)])
    BY <2>1, <2>7, <2>8
  <2>10. \A x : Append(<<>>, x) = <<x>>
    OBVIOUS
  <2> QED
    BY <2>3, <2>9, <2>10
<1>22. ASSUME NEW i \in Cells(sh), ~Sent(k, i)  PROVE new[i] = exports[k][i]
  <2>1. ~ \E x \in from : x[1] = i
    BY <1>5, <1>9, <1>22, CellFacts, Senders
  <2> QED
    BY <1>10, <1>14, <2>1
<1>23. ASSUME NEW c \in Kinds, NEW i \in Cells(sh)
       PROVE  /\ Sent(c, i) => exports'[c][i] = <<[row |-> Line(i), data |-> Data(c, i)]>>
              /\ ~Sent(c, i) => exports'[c][i] = exports[c][i]
  BY <1>13, <1>21, <1>22
<1> HIDE DEF Sent
<1>24. ExportInv'
  <2>1. Cells(sh)' = Cells(sh) /\ \A i : Line(i)' = Line(i)
    BY <1>1, SameLayout
  <2>2. \A c, i : Data(c, i)' = Data(c, i)
    BY <1>1, SameExports
  <2>3. ASSUME NEW c \in Kinds, NEW i \in Cells(sh)
        PROVE  /\ Exported(c, i)' => exports'[c][i] = <<[row |-> Line(i), data |-> Data(c, i)]>>
               /\ ~Exported(c, i)' => exports'[c][i] = <<>>
    <3>1. /\ Exported(c, i) => exports[c][i] = <<[row |-> Line(i), data |-> Data(c, i)]>>
          /\ ~Exported(c, i) => exports[c][i] = <<>>
      BY <1>2 DEF ExportInv
    <3> QED
      BY <1>20, <1>23, <3>1
  <2> QED
    BY <2>1, <2>2, <2>3 DEF ExportInv
<1>25. /\ Waves' = Waves /\ Cells(sh)' = Cells(sh) /\ Phases' = Phases /\ Valid' = Valid
       /\ UsesRowExport(sh)' = UsesRowExport(sh) /\ NumWaves(sh)' = NumWaves(sh)
  BY <1>1, SameShader, SameLayout, SameExports
<1>26. \A v \in Waves : \E j \in 0 .. loopIndex'[v] : loopIndex'[v] = j * NumWaves(sh)
  <2>1. m + 1 \in 0 .. l + NumWaves(sh) /\ l + NumWaves(sh) = (m + 1) * NumWaves(sh)
    BY <1>5, <1>6, <1>7
  <2>2. \A v \in Waves : \E j \in 0 .. loopIndex[v] : loopIndex[v] = j * NumWaves(sh)
    BY DEF ExportType
  <2>3. CASE UsesRowExport(sh)
    BY <1>16, <2>1, <2>2, <2>3
  <2>4. CASE ~UsesRowExport(sh)
    BY <1>15, <2>2, <2>4
  <2> QED
    BY <2>3, <2>4
<1>27. /\ ~UsesRowExport(sh) => \A v \in Waves : loopIndex'[v] = 0
       /\ \A v \in Waves : phase'[v] <= Len(Phases) + 1
  BY <1>5, <1>15, <1>16 DEF ExportType
<1>28. /\ \A v \in Waves : pc[v] \notin {"export", "done"} => phase'[v] = 1 /\ loopIndex'[v] = 0
       /\ \A v \in Waves : pc[v] = "done" /\ Valid => phase'[v] = Len(Phases) + 1
  BY <1>1, <1>16 DEF ExportType
<1>29. \A c \in Kinds : DOMAIN exports'[c] = Cells(sh)
  BY <1>12, <1>13, <1>14
<1>30. ExportType'
  BY <1>1, <1>13, <1>16, <1>25, <1>26, <1>27, <1>28, <1>29 DEF ExportType
<1> QED
  BY <1>24, <1>30

LEMMA ExportNext ==
  ASSUME TypeInv, StageInv, Asked, Late, Regular, CountsInv, ExportType, ExportInv, [Next]_vars
  PROVE  ExportType' /\ ExportInv'
<1>1. ASSUME NEW w \in Waves, WaveStep(w)  PROVE ExportType' /\ ExportInv'
  BY <1>1, EarlySteps, EndSteps, ExportDoneExport, ExportExport
<1>2. CASE Release
  BY <1>2, ReleaseExport
<1>3. CASE UNCHANGED vars
  <2>1. /\ sh' = sh /\ counts' = counts /\ prims' = prims /\ outs' = outs /\ exports' = exports
        /\ phase' = phase /\ loopIndex' = loopIndex /\ pc' = pc /\ at' = at
    BY <1>3 DEF vars
  <2>2. \A k, i : Exported(k, i)' <=> Exported(k, i)
    BY <2>1, ExportedNext, SameExports DEF Exported
  <2>3. EndStage' <=> EndStage
    BY <2>1, SameShader DEF EndStage
  <2>4. ExportInv'
    <3>1. CASE EndStage
      BY <2>1, <2>2, <3>1, ExportSame
    <3>2. CASE ~EndStage
      BY <2>3, <3>2 DEF ExportInv
    <3> QED
      BY <3>1, <3>2
  <2>5. /\ Waves' = Waves /\ Cells(sh)' = Cells(sh) /\ Phases' = Phases /\ Valid' = Valid
        /\ UsesRowExport(sh)' = UsesRowExport(sh) /\ NumWaves(sh)' = NumWaves(sh)
    BY <2>1, SameShader, SameLayout, SameExports
  <2>6. ExportType'
    BY <2>1, <2>5 DEF ExportType
  <2> QED
    BY <2>4, <2>6
<1> QED
  BY <1>1, <1>2, <1>3 DEF Next

LEMMA ExportInit ==
  ASSUME Init
  PROVE  ExportType /\ ExportInv /\ CountsInv
<1>1. TypeInv
  BY TypeInit
<1>2. \A w \in Waves : pc[w] = "init" /\ phase[w] = 1 /\ loopIndex[w] = 0
  BY DEF Init
<1>3. ~EndStage
  BY <1>1, <1>2, ShaderFacts DEF EndStage, Closing
<1>4. phase \in [Waves -> Nat \ {0}] /\ loopIndex \in [Waves -> Nat]
  BY DEF Init
<1>5. DOMAIN exports = Kinds /\ \A k \in Kinds : DOMAIN exports[k] = Cells(sh)
  BY DEF Init
<1>6. 0 \in 0 .. 0 /\ 0 = 0 * NumWaves(sh) /\ 1 <= Len(Phases) + 1
  BY <1>1, ShaderFacts, PhaseFacts
<1>7. ExportType
  BY <1>2, <1>4, <1>5, <1>6 DEF ExportType
<1>8. counts[1] = Garbage
  BY DEF Init
<1> QED
  BY <1>3, <1>7, <1>8 DEF ExportInv, CountsInv

-----------------------------------------------------------------------------
(* What the API shader leaves *)

LEMMA Least ==
  ASSUME NEW T \in SUBSET Nat, T # {}
  PROVE  \E x \in T : \A y \in T : x <= y
<1> DEFINE R == {p \in Nat \X Nat : p[1] < p[2]}
<1>1. IsWellFoundedOn(R, Nat)
  BY NatLessThanWellFounded DEF OpToRel
<1> HIDE DEF R
<1>2. PICK x \in T : \A y \in T : ~ (<<y, x>> \in R)
  BY <1>1, WFMin
<1>3. \A y \in T : ~(y < x)
  BY <1>2 DEF R
<1> QED
  BY <1>3

LEMMA LastOf ==
  ASSUME NEW n \in Nat, NEW S \in SUBSET (1 .. n), S # {}
  PROVE  \E k \in S : Latest(k, S) /\ Max(S) = k
<1> DEFINE T == {x \in Nat : \E k \in S : x = n - k}
<1>1. T \in SUBSET Nat /\ T # {}
  <2>1. PICK k \in S : k \in 1 .. n
    OBVIOUS
  <2>2. n - k \in Nat
    BY <2>1
  <2> QED
    BY <2>2
<1>2. PICK x \in T : \A y \in T : x <= y
  BY <1>1, Least
<1>3. PICK k \in S : x = n - k
  BY <1>2
<1>4. ASSUME NEW j \in S  PROVE j <= k
  <2>1. j \in 1 .. n /\ k \in 1 .. n
    OBVIOUS
  <2>2. n - j \in T
    BY <2>1
  <2>3. n - k <= n - j
    BY <1>2, <1>3, <2>2
  <2> QED
    BY <2>1, <2>3
<1>5. Latest(k, S)
  BY <1>4 DEF Latest
<1>6. \A j \in S : (\A y \in S : j >= y) => j = k
  BY <1>4
<1>7. \A y \in S : k >= y
  BY <1>4
<1>8. Max(S) = k
  BY <1>6, <1>7 DEF Max
<1> QED
  BY <1>5, <1>8

(* After the last barrier every operation of the trace was executed. *)
LEMMA AllExecuted ==
  ASSUME TypeInv, EndStage, NEW op \in Writes, NEW r, NEW e, NEW c
  PROVE  Executed(op, r, e, c) =
           {k \in DOMAIN sh.ops : /\ sh.ops[k].op = op
                                  /\ sh.ops[k].region = r /\ sh.ops[k].slot = e
                                  /\ \E t \in DOMAIN sh.ops[k].at : sh.ops[k].at[t] = c}
<1>1. ASSUME NEW k \in DOMAIN sh.ops, About(k, op, r, e), NEW t \in DOMAIN sh.ops[k].at
      PROVE  k < at[Line(t)]
  <2>1. t \in 0 .. sh.threads - 1
    BY <1>1, OpFacts DEF About
  <2>2. at[Line(t)] = End
    BY <2>1, ApiLine DEF EndStage
  <2>3. k < End
    BY ShaderFacts DEF End
  <2> QED
    BY <2>2, <2>3
<1> QED
  BY <1>1 DEF Executed, About

LEMMA LastWriteIs ==
  ASSUME TypeInv, EndStage, NEW op \in Writes, NEW r, NEW e, NEW c
  PROVE  \/ Executed(op, r, e, c) = {} /\ LastWrite(op, r, e, c) = Unset
         \/ \E k \in DOMAIN sh.ops : /\ Latest(k, Executed(op, r, e, c))
                                     /\ LastWrite(op, r, e, c) = <<k, Author(k, c)>>
                                     /\ LastWrite(op, r, e, c) # Unset
<1>1. PICK S : S = Executed(op, r, e, c)
  OBVIOUS
<1>2. S = {k \in DOMAIN sh.ops : /\ sh.ops[k].op = op
                                 /\ sh.ops[k].region = r /\ sh.ops[k].slot = e
                                 /\ \E t \in DOMAIN sh.ops[k].at : sh.ops[k].at[t] = c}
  BY <1>1, AllExecuted
<1>3. LastWrite(op, r, e, c) = IF S = {} THEN Unset ELSE <<Max(S), Author(Max(S), c)>>
  BY <1>2 DEF LastWrite, Author
<1>4. CASE S = {}
  BY <1>1, <1>3, <1>4
<1>5. CASE S # {}
  <2>1. S \in SUBSET (1 .. Len(sh.ops)) /\ Len(sh.ops) \in Nat
    BY <1>2, ShaderFacts
  <2>2. PICK k \in S : Latest(k, S) /\ Max(S) = k
    BY <1>5, <2>1, LastOf
  <2>3. LastWrite(op, r, e, c) = <<k, Author(k, c)>>
    BY <1>3, <1>5, <2>2
  <2>4. k \in DOMAIN sh.ops /\ k # -1
    BY <2>1, <2>2, ShaderFacts
  <2>5. <<k, Author(k, c)>> # Unset
    BY <2>4 DEF Unset
  <2> QED
    BY <1>1, <2>2, <2>3, <2>4, <2>5
<1> QED
  BY <1>4, <1>5

(* Every primitive was given its default by the wave that stands for it. *)
LEMMA AllReady ==
  ASSUME TypeInv, EndStage, NEW c \in Nat, c < sh.primitives
  PROVE  Ready(c)
<1>1. PICK w \in Waves : w = Owner(c)
  BY OwnerFacts
<1>2. pc[w] # "init"
  BY DEF EndStage, Closing
<1>3. /\ sh.waveSize \in Nat \ {0} /\ sh.primitives \in Nat /\ Line(c) \in Nat /\ w \in Nat
      /\ NumWaves(sh) \in Nat \ {0}
  <2>1. sh.waveSize \in Nat \ {0} /\ sh.primitives \in Nat
    BY ShaderFacts DEF IsShader
  <2>2. Line(c) \in Nat /\ NumWaves(sh) \in Nat \ {0}
    BY OwnerFacts
  <2> QED
    BY <2>1, <2>2 DEF Waves
<1>4. PICK m \in Nat : Line(c) = w + m * NumWaves(sh)
  BY <1>1, OwnerFacts
<1>5. PICK l \in Nat : l = m * NumWaves(sh)
  BY <1>3
<1>6. Line(c) <= c
  <2>1. (c \div sh.waveSize) * sh.waveSize <= c
    BY <1>3, Division
  <2>2. Line(c) * sh.waveSize <= c
    BY <2>1 DEF Line
  <2>3. Line(c) <= Line(c) * sh.waveSize
    BY <1>3
  <2>4. Line(c) * sh.waveSize \in Nat
    BY <1>3
  <2> QED
    BY <1>3, <2>2, <2>3, <2>4
<1>7. l \in 0 .. sh.primitives
  BY <1>3, <1>4, <1>5, <1>6
<1>8. l % NumWaves(sh) = 0
  <2>1. 0 \in 0 .. NumWaves(sh) - 1 /\ l = m * NumWaves(sh) + 0
    BY <1>3, <1>5
  <2>2. ASSUME NEW q \in Nat \ {0}, NEW r \in 0 .. q - 1, l = m * q + r  PROVE l % q = r
    BY <2>2, Remainder
  <2> QED
    BY <1>3, <2>1, <2>2
<1>9. ~UsesRowExport(sh) => l = 0
  <2>1. SUFFICES ASSUME ~UsesRowExport(sh)  PROVE l = 0
    OBVIOUS
  <2>2. sh.primitives <= FlatWorkgroupSize(sh) /\ FlatWorkgroupSize(sh) \in Nat
    BY <1>3, <2>1, ShaderFacts, WaveCounts
  <2>3. Line(c) = w
    BY <1>1, <1>3, <2>2, FirstRow
  <2> QED
    BY <1>3, <1>4, <1>5, <2>3
<1>10. PICK t \in Threads(w) : t = c - l * sh.waveSize
  BY <1>4, <1>5, ThreadRow
<1>11. c = t + l * sh.waveSize /\ c \in 0 .. sh.primitives - 1
  <2>1. l * sh.waveSize \in Nat
    BY <1>3
  <2> QED
    BY <1>3, <1>10, <2>1
<1>12. l \in IF UsesRowExport(sh) THEN {j \in 0 .. sh.primitives : j % NumWaves(sh) = 0} ELSE {0}
  BY <1>7, <1>8, <1>9
<1>13. c \in Rows(w, sh.primitives)
  BY <1>10, <1>11, <1>12 DEF Rows
<1> QED
  BY <1>2, <1>13 DEF Ready

LEMMA IntendedData ==
  ASSUME TypeInv, Regular, EndStage, Valid, CountsInv, PrimsInv, OutsInv,
         NEW k \in Kinds, NEW i \in Cells(sh), i < Count(k)
  PROVE  Intended(k, i, Data(k, i))
<1>1. i \in Nat
  BY CellFacts
<1>2. ASSUME NEW r \in Regions, NEW e \in Slots  PROVE LastWrite("write", r, e, i) \in {Unset, outs[r][i][e]}
  <2>1. CASE LastWrite("write", r, e, i) = Unset
    BY <2>1
  <2>2. CASE LastWrite("write", r, e, i) # Unset
    <3>1. PICK j \in DOMAIN sh.ops : /\ Latest(j, Executed("write", r, e, i))
                                     /\ LastWrite("write", r, e, i) = <<j, Author(j, i)>>
      BY <2>2, LastWriteIs DEF Writes
    <3>2. outs[r][i][e] = <<j, Author(j, i)>>
      BY <3>1 DEF OutsInv
    <3> QED
      BY <3>1, <3>2
  <2> QED
    BY <2>1, <2>2
<1>3. CASE k = "primitive"
  <2>1. Ready(i)
    <3>1. Count(k) \in Nat /\ Count(k) <= sh.primitives /\ sh.primitives \in Nat
      BY <1>3, CountFacts, ShaderFacts DEF IsShader
    <3>2. i < sh.primitives
      BY <1>1, <3>1
    <3> QED
      BY <1>1, <3>2, AllReady
  <2>2. ~Pending("indices", i) /\ ~Pending("culled", i)
    BY DEF Pending, EndStage, Closing
  <2>3. IndicesRight(i) /\ NullRight(i)
    BY <2>1, <2>2 DEF PrimsInv
  <2>4. prims[i].indices = IF LastWrite("indices", "none", NoSlot, i) = Unset THEN ZeroIndices
                           ELSE LastWrite("indices", "none", NoSlot, i)
    <3>1. CASE /\ Executed("indices", "none", NoSlot, i) = {}
               /\ LastWrite("indices", "none", NoSlot, i) = Unset
      BY <2>3, <3>1 DEF IndicesRight
    <3>2. ASSUME NEW j \in DOMAIN sh.ops, Latest(j, Executed("indices", "none", NoSlot, i)),
                 LastWrite("indices", "none", NoSlot, i) = <<j, Author(j, i)>>,
                 LastWrite("indices", "none", NoSlot, i) # Unset
          PROVE  prims[i].indices = LastWrite("indices", "none", NoSlot, i)
      BY <2>3, <3>2 DEF IndicesRight
    <3> QED
      BY <3>1, <3>2, LastWriteIs DEF Writes
  <2>5. prims[i].null = IF LastWrite("culled", "none", NoSlot, i) = Unset THEN FALSE
                        ELSE sh.ops[LastWrite("culled", "none", NoSlot, i)[1]].isCulled
    <3>1. CASE /\ Executed("culled", "none", NoSlot, i) = {}
               /\ LastWrite("culled", "none", NoSlot, i) = Unset
      BY <2>3, <3>1 DEF NullRight
    <3>2. ASSUME NEW j \in DOMAIN sh.ops, Latest(j, Executed("culled", "none", NoSlot, i)),
                 LastWrite("culled", "none", NoSlot, i) = <<j, Author(j, i)>>,
                 LastWrite("culled", "none", NoSlot, i) # Unset
          PROVE  prims[i].null = sh.ops[LastWrite("culled", "none", NoSlot, i)[1]].isCulled
      <4>1. LastWrite("culled", "none", NoSlot, i)[1] = j
        BY <3>2
      <4>2. prims[i].null = sh.ops[j].isCulled
        BY <2>3, <3>2 DEF NullRight
      <4> QED
        BY <4>1, <4>2
    <3> QED
      BY <3>1, <3>2, LastWriteIs DEF Writes
  <2>6. Data(k, i) = prims[i]
    BY <1>3 DEF Data, PrimitiveData
  <2> QED
    BY <1>3, <2>4, <2>5, <2>6 DEF Intended
<1>4. CASE k = "position"
  <2>1. Data(k, i) = outs["vertex"][i][Position]
    BY <1>4 DEF Data, Positions
  <2>2. LastWrite("write", "vertex", Position, i) \in {Unset, Data(k, i)}
    BY <1>2, <2>1 DEF Regions, Slots
  <2> QED
    BY <1>4, <2>2 DEF Intended
<1>5. CASE k \in {"vertexAttribute", "primitiveAttribute"}
  <2>1. PICK r \in Regions : r = IF k = "vertexAttribute" THEN "vertex" ELSE "primitive"
    BY DEF Regions
  <2>2. ASSUME NEW e \in Slots \ {Position}  PROVE Data(k, i)[e] = outs[r][i][e]
    BY <1>5, <2>1 DEF Data, VertexAttributes, PrimitiveAttributes
  <2>3. ASSUME NEW e \in Slots \ {Position}  PROVE LastWrite("write", r, e, i) \in {Unset, Data(k, i)[e]}
    BY <1>2, <2>2
  <2> QED
    BY <1>5, <2>1, <2>3 DEF Intended
<1> QED
  BY <1>3, <1>4, <1>5 DEF Kinds

LEMMA ExportsHold ==
  ASSUME TypeInv, StageInv, Asked, Late, Regular, CountsInv, PrimsInv, OutsInv, ExportType, ExportInv
  PROVE  ExportsRight
<1>1. ASSUME NEW k \in Kinds, NEW i \in Cells(sh), NEW n \in 1 .. Len(exports[k][i])
      PROVE  /\ n = 1 /\ i < Count(k)
             /\ exports[k][i][n].row = i \div sh.waveSize
             /\ Intended(k, i, exports[k][i][n].data)
  <2>1. exports[k][i] # <<>>
    BY <1>1
  <2>2. EndStage /\ counts[1] \notin {InvalidValue, 0}
    BY <2>1 DEF Late, NoExports
  <2>3. Valid
    <3>1. pc[0] \notin Entry
      BY <2>2, ShaderFacts DEF EndStage, Closing, Entry
    <3>2. counts \in Nat \X Nat
      BY <2>2, <3>1 DEF Asked
    <3>3. counts[1] \in Nat
      BY <3>2
    <3>4. counts[1] # Garbage
      BY <3>3 DEF Garbage
    <3> QED
      BY <2>2, <3>4 DEF Valid
  <2>4. Exported(k, i)
    BY <2>1, <2>2, <2>3 DEF ExportInv
  <2>5. PICK x : x = [row |-> Line(i), data |-> Data(k, i)] /\ exports[k][i] = <<x>>
    BY <2>2, <2>3, <2>4 DEF ExportInv
  <2>6. n = 1 /\ exports[k][i][n] = x
    BY <2>5
  <2>7. x.row = Line(i) /\ x.data = Data(k, i)
    BY <2>5
  <2>8. i < Count(k)
    BY <2>4 DEF Exported
  <2>9. Intended(k, i, Data(k, i))
    BY <2>2, <2>3, <2>8, IntendedData
  <2> QED
    BY <2>6, <2>7, <2>8, <2>9 DEF Line
<1>2. ASSUME \A w \in Waves : pc[w] = "done", counts[1] # InvalidValue,
             NEW k \in ToSet(Phases), NEW i \in 0 .. Count(k) - 1
      PROVE  Len(exports[k][i]) = 1
  <2>1. EndStage /\ pc[0] \notin Entry
    <3>1. pc[0] = "done"
      BY <1>2, ShaderFacts
    <3> QED
      BY <3>1, PlaceEnd, ShaderFacts DEF Closing, Entry
  <2>2. counts \in Nat \X Nat /\ (counts[1] = 0 <=> counts[2] = 0)
    BY <1>2, <2>1 DEF Asked
  <2>3. counts[1] \in Nat /\ counts[2] \in Nat
    BY <2>2
  <2>4. counts[1] # 0
    <3>1. SUFFICES ASSUME counts[1] = 0  PROVE FALSE
      OBVIOUS
    <3>2. Count(k) = 0
      BY <2>2, <3>1 DEF Count
    <3> QED
      BY <1>2, <3>2
  <2>5. Valid
    BY <2>3, <2>4 DEF Valid, Garbage, InvalidValue
  <2>6. PICK p \in DOMAIN Phases : Phases[p] = k
    BY <1>2 DEF ToSet
  <2>7. k \in Kinds
    BY <2>6, PhaseFacts
  <2>8. Count(k) \in Nat /\ (Count(k) <= sh.vertices \/ Count(k) <= sh.primitives)
    BY <2>5, <2>7, CountFacts
  <2>9. i \in Nat /\ i < Count(k) /\ sh.vertices \in Nat /\ sh.primitives \in Nat
    BY <1>2, <2>8, ShaderFacts DEF IsShader
  <2>10. i \in Cells(sh)
    <3>1. i < sh.vertices \/ i < sh.primitives
      BY <2>8, <2>9
    <3> QED
      BY <2>9, <3>1, CellFacts
  <2>11. Owner(i) \in Waves
    BY <2>9, OwnerFacts
  <2>12. phase[Owner(i)] = Len(Phases) + 1
    BY <1>2, <2>5, <2>11 DEF ExportType
  <2>13. p < Len(Phases) + 1
    BY PhaseFacts
  <2>14. Exported(k, i)
    BY <2>6, <2>9, <2>12, <2>13 DEF Exported, Passed
  <2>15. PICK x : exports[k][i] = <<x>>
    BY <2>1, <2>5, <2>7, <2>10, <2>14 DEF ExportInv
  <2> QED
    BY <2>15
<1> QED
  BY <1>1, <1>2 DEF ExportsRight

(***************************************************************************)
(* Whatever the interleaving of the waves, every primitive and vertex      *)
(* below the counts is exported once, from the row that holds its index    *)
(* and with what the API shader last wrote to it, and none is left out     *)
(* when the waves have ended, for every set of regular shaders.            *)
(***************************************************************************)
THEOREM ExportsKept ==
  ASSUME Regular
  PROVE  Spec => []ExportsRight
<1> DEFINE DataInv == PrimsInv /\ OutsInv /\ MemoryType
           Exporting == CountsInv /\ ExportType /\ ExportInv
<1>1. Init => DataInv /\ Exporting
  BY DataInit, ExportInit
<1>2. TypeInv /\ StageInv /\ Asked /\ Late /\ DataInv /\ Exporting /\ [Next]_vars => DataInv' /\ Exporting'
  <2>1. TypeInv => ~sh.wide
    BY DEF TypeInv, Regular, IsRegular
  <2> QED
    BY <2>1, DataNext, CountsNext, ExportNext
<1>3. TypeInv /\ StageInv /\ Asked /\ Late /\ DataInv /\ Exporting => ExportsRight
  BY ExportsHold
<1> HIDE DEF DataInv, Exporting
<1>4. Spec => [](DataInv /\ Exporting)
  BY <1>1, <1>2, StagesInductive, RequestInductive, PTL DEF Spec
<1> QED
  BY <1>3, <1>4, StagesInductive, RequestInductive, PTL
=============================================================================
