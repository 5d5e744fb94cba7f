-------------------------- MODULE PrimShaderInput --------------------------
(***************************************************************************)
(* What lgc/lowering/NggPrimShader.cpp compiles a primitive shader from,   *)
(* the layout of its LDS, and what one geometry shader thread leaves in    *)
(* LDS; with the primitives the API says the shader assembles, to compare  *)
(* with.                                                                   *)
(*                                                                         *)
(* The hardware runs a primitive shader in subgroups.  A subgroup has a    *)
(* thread per vertex and per primitive it may export, in waves of waveSize *)
(* threads.  A value in LDS or in a buffer is a tuple that tells what it   *)
(* is: data of the shader is never looked at, only moved.                  *)
(***************************************************************************)
EXTENDS Integers, FiniteSets, Sequences, SequencesExt, FiniteSetsExt, TLC

CONSTANTS
  MaxGsStreams,                 \* 4 in the code
  MaxTransformFeedbackBuffers   \* 4 in the code

ASSUME LimitsAssumption ==
  MaxGsStreams \in Nat \ {0} /\ MaxTransformFeedbackBuffers \in Nat \ {0}

Streams == 0 .. MaxGsStreams - 1
NoStream == -1

\* An LDS cell nothing was written to.
Uninit == <<"uninitialized">>

-----------------------------------------------------------------------------
(***************************************************************************)
(* The inputs.  s is a compiled shader: its kind is "passthrough",         *)
(* "culling" (no API geometry shader) or "gs".  s.groups are the subgroups *)
(* of a draw in launch order.  A subgroup without API GS has verts         *)
(* vertices and a sequence of primitives (tuples of vertices); with one it *)
(* has esVerts vertices and a sequence of geometry shader threads: the     *)
(* vertices each reads (inputs) and the operations it executes (ops).      *)
(* culled are the primitives the cullers reject, by number.                *)
(***************************************************************************)
HasGs(s) == s.kind = "gs"
Provoking(s, prim) == IF s.provokingFirst THEN prim[1] ELSE prim[Len(prim)]
VertexCount(s, grp) == IF HasGs(s) THEN Len(grp.ops) * s.outputVertices ELSE grp.verts
PrimCount(s, grp) == IF HasGs(s) THEN Len(grp.ops) * s.outputVertices ELSE Len(grp.prims)
LaunchedThreads(s, grp) ==
  Max({1, VertexCount(s, grp), PrimCount(s, grp)} \cup (IF HasGs(s) THEN {grp.esVerts} ELSE {}))
NumWaves(s, grp) == (LaunchedThreads(s, grp) + s.waveSize - 1) \div s.waveSize
MaxThreads(s) == s.maxWaves * s.waveSize

IsEmit(o) == o.op = "emit"
Emits(ops) == {k \in DOMAIN ops : IsEmit(ops[k])}

IsSubgroup(s, grp) ==
  /\ IF HasGs(s) THEN grp.esVerts \in Nat /\ grp.ops \in Seq(Seq([op : {"emit", "cut"}, stream : Streams]))
     ELSE grp.verts \in Nat /\ grp.prims \in Seq(Seq(Nat))
  /\ NumWaves(s, grp) <= s.maxWaves
  /\ HasGs(s) => \A p \in DOMAIN grp.ops :
       /\ s.robust \/ Cardinality(Emits(grp.ops[p])) <= s.outputVertices
       /\ grp.inputs[p] \subseteq 0 .. grp.esVerts - 1
  /\ ~ HasGs(s) => \A p \in DOMAIN grp.prims :
       /\ Len(grp.prims[p]) = s.vertsPerPrim /\ Range(grp.prims[p]) \subseteq 0 .. grp.verts - 1
       /\ s.primitiveId => \A q \in DOMAIN grp.prims :
            p # q => Provoking(s, grp.prims[p]) # Provoking(s, grp.prims[q])

IsShader(s) ==
  /\ s.kind \in {"passthrough", "culling", "gs"} /\ s.gfx \in 10 .. 12
  /\ s.waveSize \in Nat \ {0} /\ s.maxWaves \in Nat /\ s.maxWaves < s.waveSize
  /\ MaxTransformFeedbackBuffers + MaxGsStreams <= s.waveSize
  /\ s.xfb => s.gfx >= 11 /\ s.buffers # << >>
  /\ ~ (s.xfb /\ s.stats)
  /\ s.kind = "culling" /\ ~ s.compact => s.gfx > 10
  /\ HasGs(s) => s.outputVertices \in Nat /\ s.rasterStream \in s.streams \cup {NoStream}
  /\ \A i \in DOMAIN s.groups : IsSubgroup(s, s.groups[i])

-----------------------------------------------------------------------------
(***************************************************************************)
(* The layout of LDS, in dwords: the start of every region.  Regions that  *)
(* live one after the other share their place.  One dword stands for a     *)
(* vertex's outputs and for its inputs.                                    *)
(***************************************************************************)

\* The fields of the cull info of a vertex, in order.
CullInfo(s) ==
  (IF s.xfb THEN <<"xfbOutputs">> ELSE << >>) \o
  (IF s.cullDistance THEN <<"cullDistanceSignMask">> ELSE << >>) \o <<"drawFlag">> \o
  (IF s.compact THEN <<"compactedVertexIndex", "inputs">> ELSE << >>) \o
  (IF s.compact /\ s.primitiveId THEN <<"primitiveId">> ELSE << >>)
CullInfoOffset(s, field) == CHOOSE i \in 0 .. Len(CullInfo(s)) - 1 : CullInfo(s)[i + 1] = field

StatsSize(s) == MaxTransformFeedbackBuffers + (IF HasGs(s) THEN MaxGsStreams ELSE 1)
CountsSize(s) == (s.maxWaves + 1) * (IF HasGs(s) THEN MaxGsStreams ELSE 1)

\* The regions of the layout with their sizes; one that the shader does not
\* need has none.
GsRegions(s) ==
  <<[name |-> "EsGsRing", size |-> MaxThreads(s)],
    [name |-> "PrimitiveData", size |-> MaxThreads(s) * MaxGsStreams],
    [name |-> "PrimitiveCounts", size |-> IF s.xfb \/ s.stats THEN CountsSize(s) ELSE 0],
    [name |-> "PrimitiveIndexMap", size |-> IF s.xfb THEN MaxThreads(s) * MaxGsStreams ELSE 0],
    [name |-> "VertexCounts", size |-> IF s.xfb \/ s.stats THEN 0 ELSE CountsSize(s)],
    [name |-> "VertexIndexMap",
     size |-> IF s.compact /\ ~ s.xfb THEN MaxThreads(s) * MaxGsStreams ELSE 0],
    [name |-> "XfbStats", size |-> IF s.xfb THEN StatsSize(s) ELSE 0],
    [name |-> "GsVsRing", size |-> MaxThreads(s) * MaxGsStreams]>>
PassthroughRegions(s) ==
  <<[name |-> "XfbOutput", size |-> IF s.xfb THEN MaxThreads(s) ELSE 0],
    [name |-> "XfbStats", size |-> IF s.xfb THEN StatsSize(s) ELSE 0]>>
CullingRegions(s) ==
  <<[name |-> "VertexPosition", size |-> 4 * MaxThreads(s)],
    [name |-> "VertexCullInfo", size |-> Len(CullInfo(s)) * MaxThreads(s)],
    [name |-> "XfbStats", size |-> IF s.xfb THEN StatsSize(s) ELSE 0],
    [name |-> "VertexCounts", size |-> CountsSize(s)],
    [name |-> "VertexIndexMap", size |-> IF s.compact THEN MaxThreads(s) ELSE 0]>>

Regions(s) ==
  CASE s.kind = "gs" -> GsRegions(s)
    [] s.kind = "passthrough" -> PassthroughRegions(s)
    [] s.kind = "culling" -> CullingRegions(s)

\* The region whose place a region takes.
Overlapped(s, region) ==
  CASE region = "VertexCounts" /\ HasGs(s) /\ (s.xfb \/ s.stats) -> "PrimitiveCounts"
    [] region = "VertexIndexMap" /\ HasGs(s) /\ s.xfb -> "PrimitiveIndexMap"
    [] OTHER -> region

AllRegions(s) == {r.name : r \in Range(Regions(s))} \cup {"DistributedPrimitiveId"}
                   \cup (IF HasGs(s) THEN {"VertexCounts", "VertexIndexMap"} ELSE {})

\* The ID of a primitive is distributed in the first dwords.
Start(s, region) ==
  IF region = "DistributedPrimitiveId" THEN 0
  ELSE LET all == Regions(s)
           i == CHOOSE j \in DOMAIN all : all[j].name = Overlapped(s, region)
       IN FoldLeft(LAMBDA n, r : n + r.size, 0, SubSeq(all, 1, i - 1))

-----------------------------------------------------------------------------
(***************************************************************************)
(* A geometry shader thread.  Before it emits a vertex it writes the       *)
(* vertex's outputs; what it emits after outputVertices vertices has no    *)
(* effect when emits are robust.                                           *)
(***************************************************************************)
GsStart == [emitVerts |-> [i \in Streams |-> 0], outVerts |-> [i \in Streams |-> 0],
            total |-> 0, prims |-> << >>, outputs |-> << >>]

\* The vertex emitted by the k-th operation of thread p of the subgroup.
Vertex(stream, p, k) == <<"vertex", stream, p, k>>

OutputWritten(s, stream) == s.xfb \/ s.rasterStream = stream

WriteGsOutput(s, st, stream, value) ==
  IF ~ OutputWritten(s, stream) \/ (s.robust /\ st.total >= s.outputVertices) THEN st.outputs
  ELSE (<<stream, st.emitVerts[stream]>> :> value) @@ st.outputs

GsEmit(s, st, stream) ==
  LET emitted == st.emitVerts[stream] + 1
      total == IF s.robust THEN st.total + 1 ELSE st.total
      out == IF s.robust /\ total > s.outputVertices THEN 0 ELSE st.outVerts[stream] + 1
  IN [st EXCEPT !.emitVerts[stream] = emitted, !.outVerts[stream] = out, !.total = total,
        !.prims = IF out < s.vertsPerPrim THEN @
                  ELSE (<<stream, emitted - s.vertsPerPrim>> :>
                          (IF s.vertsPerPrim = 3 THEN (out - 3) % 2 ELSE 0)) @@ @]

GsCut(st, stream) == [st EXCEPT !.outVerts[stream] = 0]

\* f(v), for a v that is evaluated once.
Apply(f(_), v) == CHOOSE r \in {f(w) : w \in {v}} : TRUE

\* A stream that is not active emits nothing.
GsStep(s, st, o, value) ==
  IF o.stream \notin s.streams THEN st
  ELSE IF IsEmit(o)
       THEN Apply(LAMBDA v : GsEmit(s, v, o.stream),
                  [st EXCEPT !.outputs = WriteGsOutput(s, st, o.stream, value)])
       ELSE GsCut(st, o.stream)

\* What thread p leaves in LDS; values[k] is what it computes for its k-th
\* operation.
RunThread(s, ops, values) ==
  FoldLeft(LAMBDA st, k : Apply(LAMBDA v : GsStep(s, v, ops[k], values[k]), st),
           GsStart, [k \in 1 .. Len(ops) |-> k])

\* The vertices of a primitive that starts at a vertex, given its winding.
Wound(s, winding) ==
  CASE s.vertsPerPrim = 1 -> <<0>>
    [] s.vertsPerPrim = 2 -> <<0, 1>>
    [] s.vertsPerPrim = 3 -> IF winding = 0 THEN <<0, 1, 2>>
                             ELSE IF s.provokingFirst THEN <<0, 2, 1>> ELSE <<1, 0, 2>>

-----------------------------------------------------------------------------
(***************************************************************************)
(* The reference: the primitives the API says a geometry shader thread     *)
(* outputs to a stream.  A vertex counts when it is among the first        *)
(* outputVertices emitted; a strip is a run of vertices without a cut; the *)
(* vertices of every second triangle of a strip change places so that all  *)
(* its triangles face the same way.                                        *)
(***************************************************************************)
ActiveEmits(s, ops) == {k \in Emits(ops) : ops[k].stream \in s.streams}
Counted(s, ops, stream) ==
  {k \in Emits(ops) : ops[k].stream = stream
                        /\ Cardinality({j \in ActiveEmits(s, ops) : j <= k}) <= s.outputVertices}
\* The vertices of k's strip up to k.
StripTo(s, ops, stream, k) ==
  {j \in Counted(s, ops, stream) :
     j <= k /\ ~ \E c \in j .. k : ops[c].op = "cut" /\ ops[c].stream = stream}

\* The primitive that the k-th operation completes.
Completed(s, ops, stream, p, k) ==
  LET strip == SetToSortSeq(StripTo(s, ops, stream, k), <)
      n == s.vertsPerPrim
      last == [i \in 1 .. n |-> Vertex(stream, p, strip[Len(strip) - n + i])]
      odd == n = 3 /\ (Len(strip) - n) % 2 = 1
  IN IF ~ odd THEN last
     ELSE IF s.provokingFirst THEN <<last[1], last[3], last[2]>> ELSE <<last[2], last[1], last[3]>>

\* The primitives of thread p in the order it outputs them.
Assembled(s, ops, stream, p) ==
  LET ends == {k \in Counted(s, ops, stream) : Cardinality(StripTo(s, ops, stream, k)) >= s.vertsPerPrim}
      inOrder == SetToSortSeq(ends, <)
  IN [i \in 1 .. Len(inOrder) |-> Completed(s, ops, stream, p, inOrder[i])]

\* The primitives of a subgroup, in order.
Primitives(s, grp, stream) ==
  IF HasGs(s)
  THEN FlattenSeq([p \in 1 .. Len(grp.ops) |-> Assembled(s, grp.ops[p], stream, p - 1)])
  ELSE [p \in 1 .. Len(grp.prims) |-> [i \in 1 .. s.vertsPerPrim |-> <<"vertex", grp.prims[p][i]>>]]
=============================================================================
