----------------------------- MODULE PrimShader -----------------------------
(***************************************************************************)
(* The code that lgc/lowering/NggPrimShader.cpp generates for a primitive  *)
(* shader, run by the waves of the subgroups of a draw: pass-through,      *)
(* culling of a vertex or tessellation evaluation shader, and a geometry   *)
(* shader, with software stream-out (transform feedback) or statistics.    *)
(*                                                                         *)
(* The generated code is a sequence of blocks that a wave executes for all *)
(* its threads; the waves of a subgroup share LDS and meet at barriers,    *)
(* the subgroups share the stream-out counters and buffers.  A step is one *)
(* block of one wave.  touched records who accessed LDS since the last     *)
(* barrier of a subgroup.                                                  *)
(***************************************************************************)
EXTENDS PrimShaderInput, Cullers

CONSTANTS
  Shaders   \* the shaders, with the subgroups they run

ASSUME ShadersAssumption == \A s \in Shaders : IsShader(s)

VARIABLES
  sh,        \* the shader that runs
  ldsStart,  \* where the regions of its LDS start
  todo,      \* for every wave, the blocks it still has to execute
  lds,       \* the LDS of every subgroup: what was written where
  touched,   \* accesses to the LDS of a subgroup since its last barrier
  reg,       \* for every wave, its registers
  control,   \* the stream-out counters, shared by the subgroups
  buffers,   \* the transform feedback buffers, shared by the subgroups
  requests,  \* GS_ALLOC_REQ messages of a subgroup
  prims,     \* exported primitives of a subgroup
  verts      \* exported vertices of a subgroup

vars == <<sh, ldsStart, todo, lds, touched, reg, control, buffers, requests, prims, verts>>
exports == <<requests, prims, verts>>
streamOut == <<control, buffers>>

Groups == DOMAIN sh.groups
\* A wave <<g, w>> is wave w of subgroup g.
Waves == UNION {{<<g, w>> : w \in 0 .. NumWaves(sh, sh.groups[g]) - 1} : g \in Groups}
\* threadIdInSubgroup of the threads of a wave; the threads of a wave below n.
Threads(x) == x[2] * sh.waveSize .. (x[2] + 1) * sh.waveSize - 1
Below(x, n) == {t \in Threads(x) : t < n}
NumVerts(g) == VertexCount(sh, sh.groups[g])
NumPrims(g) == PrimCount(sh, sh.groups[g])

Number(i) == <<"number", i>>
EsVertex(v) == <<"vertex", v>>
PrimitiveId(p) == <<"id", p>>
NullPrim == <<"null">>   \* in LDS
NoPrim == << >>          \* as it is exported
\* An exported vertex: what its attributes were computed from, its position
\* and its primitive ID.
Export(inputs, position, id) == [inputs |-> inputs, position |-> position, id |-> id]
Dummy == Export(<<"dummy">>, {}, Uninit)

\* The active buffers, in order.
Buffers == 1 .. Len(sh.buffers)
BufferStream(b) == IF HasGs(sh) THEN sh.buffers[b].stream ELSE 0
ActiveStreams == IF HasGs(sh) THEN sh.streams ELSE {0}
DwordsPerPrim(b) == sh.vertsPerPrim * sh.buffers[b].stride

-----------------------------------------------------------------------------
(***************************************************************************)
(* The program of a wave: the blocks it executes, in order.  Only the      *)
(* first wave executes the blocks guarded by the first thread of the       *)
(* subgroup or by the first wave.                                          *)
(***************************************************************************)
FirstWave(w, blocks) == IF w = 0 THEN blocks ELSE << >>

\* Mutant: no barrier before the LDS is used again.
DistributePrimitiveIdOnce ==
  IF ~ sh.primitiveId THEN << >> ELSE <<"DistribPrimitiveId", "Barrier", "ReadPrimitiveId">>

DistributePrimitiveId ==
  IF ~ sh.primitiveId THEN << >>
  ELSE <<"DistribPrimitiveId", "Barrier", "ReadPrimitiveId", "Barrier">>

PrepareSwXfb ==
  IF sh.gfx = 11 THEN <<"OrderedCount", "GdsCounters">>
  ELSE <<"InitPrimitivesToWrite", "WaveOrdering", "LimitPrimitives", "ReviseDwordsWritten",
         "UpdatePrimitiveCounters">>

SwXfb(w) ==
  (IF HasGs(sh)
   THEN <<"InitPrimitiveCounts", "Barrier", "CheckPrimitiveDrawFlag", "AccumPrimitiveCounts", "Barrier",
          "CompactPrimitiveIndex">>
   ELSE <<"WriteXfb">>)
  \o FirstWave(w, PrepareSwXfb) \o <<"Barrier", "ExportXfb">>

PrimitiveStats(w) ==
  (IF HasGs(sh)
   THEN <<"InitStreamCounts", "Barrier", "CheckPrimitiveDrawFlag", "CountPrimitives", "Barrier",
          "ReadStreamCounts">>
   ELSE << >>)
  \o FirstWave(w, <<"CollectPrimitiveStats">>)

StreamOut(w) == IF sh.xfb THEN SwXfb(w) ELSE IF sh.stats THEN PrimitiveStats(w) ELSE << >>

\* GFX11 needs no message in pass-through mode without stream-out.
PassthroughNoMsg == sh.kind = "passthrough" /\ sh.gfx >= 11 /\ ~ sh.xfb

PassthroughProgram(w) ==
  DistributePrimitiveId
  \o (IF sh.messageHazard /\ ~ sh.primitiveId THEN <<"Barrier">> ELSE << >>)
  \o (IF PassthroughNoMsg THEN << >> ELSE FirstWave(w, <<"SendGsAllocReq">>))
  \o <<"CollectVertexExport">> \o StreamOut(w) \o <<"ExportPrimitive", "ExportVertex">>

\* With a constant Z, or in a small subgroup, the shader does not cull.
RuntimePassthrough(g) == sh.constPositionZ \/ sh.groups[g].verts < sh.threshold

\* Mutant: the waves do not wait for the request.
AllocateFirstNoBarrier(w) == FirstWave(w, <<"SendGsAllocReq">>)

\* The first wave asks for space before any wave goes on.
AllocateFirst(w) == FirstWave(w, <<"SendGsAllocReq">>) \o <<"Barrier">>

CullingProgram(g, w) ==
  DistributePrimitiveId \o StreamOut(w)
  \o (IF RuntimePassthrough(g) THEN << >>
      ELSE <<"InitVertexDrawFlag", "InitVertexCounts", "WriteCullData", "Barrier",
             "CullPrimitive", "Barrier",
             "CheckVertexDrawFlag", "AccumVertexCounts", "Barrier",
             "CompactVertex">>)
  \o AllocateFirst(w)
  \o (IF sh.noEmptySubgroups THEN <<"EarlyExit">> ELSE << >>)
  \o <<"CollectVertexExport", "ExportPrimitive", "ExportVertex">>

GsProgram(w) ==
  <<"RunEs", "InitPrimitiveData", "Barrier", "RunGs">> \o StreamOut(w)
  \o IF sh.rasterStream = NoStream THEN FirstWave(w, <<"SendGsAllocReq">>)
     ELSE <<"InitVertexCounts", "Barrier">>
          \o (IF sh.cullingMode THEN <<"CullPrimitive", "Barrier">> ELSE << >>)
          \o <<"CheckVertexDrawFlag", "AccumVertexCounts", "Barrier">>
          \o (IF sh.compact THEN <<"CompactVertex", "Barrier">> ELSE << >>)
          \o FirstWave(w, <<"SendGsAllocReq">>)
          \o <<"CollectVertexExport", "ExportPrimitive", "ExportVertex">>

Program(x) ==
  CASE sh.kind = "passthrough" -> PassthroughProgram(x[2])
    [] sh.kind = "culling" -> CullingProgram(x[1], x[2])
    [] sh.kind = "gs" -> GsProgram(x[2])

Ended(x) == todo[x] = << >>
GroupEnded(g) == \A x \in Waves : x[1] = g => Ended(x)
AllEnded == \A x \in Waves : Ended(x)

-----------------------------------------------------------------------------
(***************************************************************************)
(* Steps and LDS accesses.                                                 *)
(***************************************************************************)
At(x, block) == ~ Ended(x) /\ Head(todo[x]) = block
Advance(x) == todo' = [todo EXCEPT ![x] = Tail(@)] /\ UNCHANGED <<sh, ldsStart>>

Read(x, cell) == IF cell \in DOMAIN lds[x[1]] THEN lds[x[1]][cell] ELSE Uninit
ReadNumber(x, cell) == LET v == Read(x, cell) IN IF v[1] = "number" THEN v[2] ELSE -1

\* A read without a guard is one of all the lanes: lane k reads the k-th cell
\* from a start, beyond the end of the region too.
Lanes(start) == start .. start + sh.waveSize - 1

\* A wave reads the cells of some lanes, of which it uses reads, and writes
\* others.
AccessLanes(x, lanes, reads, writes) ==
  /\ lds' = [lds EXCEPT ![x[1]] = writes @@ @]
  /\ touched' = [touched EXCEPT ![x[1]] = @
       \cup {[wave |-> x[2], cell |-> c, how |-> "unused", value |-> Uninit] : c \in lanes \ reads}
       \cup {[wave |-> x[2], cell |-> c, how |-> "read", value |-> Uninit] : c \in reads}
       \cup {[wave |-> x[2], cell |-> c, how |-> "write", value |-> writes[c]] : c \in DOMAIN writes}]
Access(x, reads, writes) == AccessLanes(x, {}, reads, writes)
Reads(x, reads) == Access(x, reads, << >>)
Writes(x, writes) == Access(x, {}, writes)
\* add[c] is added to every cell c atomically.
AtomicAdd(x, add) ==
  /\ lds' = [lds EXCEPT ![x[1]] = [c \in DOMAIN add |-> Number(ReadNumber(x, c) + add[c])] @@ @]
  /\ touched' = [touched EXCEPT ![x[1]] = @
       \cup {[wave |-> x[2], cell |-> c, how |-> "atomic", value |-> Uninit] : c \in DOMAIN add}]
NoAccess == UNCHANGED <<lds, touched>>

\* A function on cells: thread t of ts has value(t) at cell(t).
PerThread(ts, cell(_), value(_)) ==
  [c \in {cell(t) : t \in ts} |-> value(CHOOSE t \in ts : cell(t) = c)]
NoCells == [c \in {} |-> Uninit]

SetReg(x, fields) == reg' = [reg EXCEPT ![x] = fields @@ @]

\* The rank of a thread among the threads of a wave in a set: the ballot of
\* the set, masked below the thread, counted.
Rank(ts, t) == Cardinality({u \in ts : u < t})

\* Cells of the layout.
PositionCells(v) == LET start == ldsStart["VertexPosition"] IN start + 4 * v .. start + 4 * v + 3
InfoCell(v, field) == ldsStart["VertexCullInfo"] + Len(CullInfo(sh)) * v + CullInfoOffset(sh, field)
StreamCell(region, stream, t) == ldsStart[region] + MaxThreads(sh) * stream + t
CountCell(region, stream, slot) == ldsStart[region] + (sh.maxWaves + 1) * stream + slot
MapCell(t) == ldsStart["VertexIndexMap"] + t
XfbCell(v) == IF sh.kind = "culling" THEN InfoCell(v, "xfbOutputs") ELSE ldsStart["XfbOutput"] + v
DwordsCell(b) == ldsStart["XfbStats"] + b - 1
ToWriteCell(stream) == ldsStart["XfbStats"] + MaxTransformFeedbackBuffers + stream
\* Without a geometry shader there is one stream.
RasterStream == IF HasGs(sh) THEN sh.rasterStream ELSE 0

\* The vertices of primitive p of the subgroup, without a geometry shader.
Prim(x, p) == sh.groups[x[1]].prims[p + 1]

\* A barrier lets the waves of a subgroup go on once all that still run wait.
Barrier(g) ==
  LET running == {x \in Waves : x[1] = g /\ ~ Ended(x)}
  IN /\ running # {} /\ \A x \in running : At(x, "Barrier")
     /\ todo' = [x \in Waves |-> IF x \in running THEN Tail(todo[x]) ELSE todo[x]]
     /\ touched' = [touched EXCEPT ![g] = {}]
     /\ UNCHANGED <<sh, ldsStart, lds, reg, exports, streamOut>>

Registers(x) ==
  LET g == x[1]
      count == [i \in Streams |-> IF ~ HasGs(sh) /\ i = 0 THEN NumPrims(g) ELSE 0]
  IN [primCount |-> NumPrims(g), vertCount |-> NumVerts(g),   \* primCountInSubgroup, vertCountInSubgroup
      ids |-> NoCells,                                        \* m_distributedPrimitiveId
      culled |-> {}, fullyCulled |-> FALSE,
      drawn |-> Threads(x), vertCountInWave |-> Cardinality(Below(x, NumVerts(g))),
      compactVertex |-> FALSE, compacted |-> [t \in Threads(x) |-> t],
      vertex |-> NoCells,                                     \* what the vertex exports collect
      primDrawn |-> [i \in Streams |-> {}], count |-> count,  \* draw flags, primitives of each stream
      toWrite |-> count, written |-> << >>]                   \* numPrimsToWrite, dwordsWritten

Init ==
  /\ sh \in Shaders
  /\ ldsStart = [region \in AllRegions(sh) |-> Start(sh, region)]
  /\ todo = [x \in Waves |-> Program(x)]
  /\ lds = [g \in Groups |-> NoCells] /\ touched = [g \in Groups |-> {}]
  /\ reg = [x \in Waves |-> Registers(x)]
  /\ control = [turn |-> 1, ready |-> [b \in Buffers |-> 1], dwords |-> [b \in Buffers |-> 0],
                needed |-> [i \in Streams |-> 0], written |-> [i \in Streams |-> 0]]
  /\ buffers = [b \in Buffers |-> NoCells]
  /\ requests = [g \in Groups |-> << >>]
  /\ prims = [g \in Groups |-> NoCells] /\ verts = [g \in Groups |-> NoCells]

-----------------------------------------------------------------------------
(***************************************************************************)
(* The primitive ID, which the hardware gives to the thread of a primitive *)
(* and the shader needs in the thread of the provoking vertex.             *)
(***************************************************************************)
IdCell(v) == ldsStart["DistributedPrimitiveId"] + v

DistribPrimitiveId(x) ==
  /\ At(x, "DistribPrimitiveId") /\ Advance(x)
  /\ Writes(x, PerThread(Below(x, NumPrims(x[1])), LAMBDA t : IdCell(Provoking(sh, Prim(x, t))),
                         LAMBDA t : PrimitiveId(t)))
  /\ UNCHANGED <<reg, exports, streamOut>>

ReadPrimitiveId(x) ==
  LET ts == Below(x, NumVerts(x[1]))
  IN /\ At(x, "ReadPrimitiveId") /\ Advance(x)
     /\ Reads(x, {IdCell(t) : t \in ts})
     /\ SetReg(x, [ids |-> [t \in ts |-> Read(x, IdCell(t))]])
     /\ UNCHANGED <<exports, streamOut>>

-----------------------------------------------------------------------------
(***************************************************************************)
(* Culling and vertex compaction.                                          *)
(***************************************************************************)
InitVertexDrawFlag(x) ==
  /\ At(x, "InitVertexDrawFlag") /\ Advance(x)
  /\ Writes(x, PerThread(Below(x, NumVerts(x[1])), LAMBDA t : InfoCell(t, "drawFlag"), LAMBDA t : Number(0)))
  /\ UNCHANGED <<reg, exports, streamOut>>

InitVertexCounts(x) ==
  /\ At(x, "InitVertexCounts") /\ Advance(x)
  /\ Writes(x, PerThread(Below(x, sh.maxWaves + 1), LAMBDA t : CountCell("VertexCounts", RasterStream, t),
                         LAMBDA t : Number(0)))
  /\ UNCHANGED <<reg, exports, streamOut>>

\* What the cullers look at: the position, and the signs of the cull distances.
SignCells(v) == IF sh.cullDistance THEN {InfoCell(v, "cullDistanceSignMask")} ELSE {}
CullCells(v) == PositionCells(v) \cup SignCells(v)

WriteCullData(x) ==
  LET ts == Below(x, NumVerts(x[1]))
  IN /\ At(x, "WriteCullData") /\ Advance(x)
     /\ Writes(x, [c \in UNION {CullCells(t) : t \in ts} |-> EsVertex(CHOOSE t \in ts : c \in CullCells(t))])
     /\ UNCHANGED <<reg, exports, streamOut>>

\* Without a geometry shader: what the vertices of the primitive wrote
\* decides; a primitive that survives marks its vertices.
CullPrimitive(x) ==
  LET ts == Below(x, NumPrims(x[1]))
      right(t) == \A v \in Range(Prim(x, t)) : \A c \in CullCells(v) : Read(x, c) = EsVertex(v)
      survive == {t \in ts : right(t) # (t \in sh.groups[x[1]].culled)}
  IN /\ ~ HasGs(sh) /\ At(x, "CullPrimitive") /\ Advance(x)
     /\ Access(x, UNION {UNION {CullCells(v) : v \in Range(Prim(x, t))} : t \in ts},
               [c \in {InfoCell(v, "drawFlag") : v \in UNION {Range(Prim(x, t)) : t \in survive}} |-> Number(1)])
     /\ SetReg(x, [culled |-> Threads(x) \ survive])
     /\ UNCHANGED <<exports, streamOut>>

\* With one: threads with a primitive look at it, and nullify it.
CullPrimitiveWithGs(x) ==
  LET cell(t) == StreamCell("PrimitiveData", sh.rasterStream, t)
      ts == {t \in Below(x, NumPrims(x[1])) : Read(x, cell(t)) # NullPrim}
      vertices(t) == LET wound == Wound(sh, ReadNumber(x, cell(t)))
                     IN [i \in DOMAIN wound |-> StreamCell("GsVsRing", sh.rasterStream, t + wound[i])]
      assembled == Primitives(sh, sh.groups[x[1]], sh.rasterStream)
      rejected == {t \in ts : \E p \in sh.groups[x[1]].culled :
                     assembled[p + 1] = [i \in DOMAIN vertices(t) |-> Read(x, vertices(t)[i])]}
  IN /\ HasGs(sh) /\ At(x, "CullPrimitive") /\ Advance(x)
     /\ AccessLanes(x, {cell(t) : t \in Threads(x)},
               {cell(t) : t \in Below(x, NumPrims(x[1]))} \cup UNION {Range(vertices(t)) : t \in ts},
               PerThread(rejected, cell, LAMBDA t : NullPrim))
     /\ UNCHANGED <<reg, exports, streamOut>>

Drawn(drawn) == [drawn |-> drawn, vertCountInWave |-> Cardinality(drawn)]

CheckVertexDrawFlag(x) ==
  LET ts == Below(x, NumVerts(x[1]))
  IN /\ ~ HasGs(sh) /\ At(x, "CheckVertexDrawFlag") /\ Advance(x)
     /\ Reads(x, {InfoCell(t, "drawFlag") : t \in ts})
     /\ SetReg(x, Drawn({t \in ts : ReadNumber(x, InfoCell(t, "drawFlag")) # 0}))
     /\ UNCHANGED <<exports, streamOut>>

\* Mutant: only the first vertex of a primitive is drawn.
FormingVerticesFirst(t) == {t}

\* A vertex is drawn when one of the primitives it may be part of is.
FormingVertices(t) == {t - i : i \in 0 .. sh.vertsPerPrim - 1} \cap Nat

CheckVertexDrawFlagWithGs(x) ==
  LET cell(t) == StreamCell("PrimitiveData", sh.rasterStream, t)
      ts == Below(x, NumVerts(x[1]))
  IN /\ HasGs(sh) /\ At(x, "CheckVertexDrawFlag") /\ Advance(x)
     /\ Reads(x, UNION {{cell(u) : u \in FormingVertices(t)} : t \in ts})
     /\ SetReg(x, Drawn({t \in ts : \E u \in FormingVertices(t) : Read(x, cell(u)) # NullPrim}))
     /\ UNCHANGED <<exports, streamOut>>

\* The count of a wave is added for the later waves and the subgroup.
LaterSlots(x) == x[2] + 1 .. sh.maxWaves

AccumVertexCounts(x) ==
  /\ At(x, "AccumVertexCounts") /\ Advance(x)
  /\ AtomicAdd(x, [c \in {CountCell("VertexCounts", RasterStream, slot) : slot \in LaterSlots(x)} |->
                     reg[x].vertCountInWave])
  /\ UNCHANGED <<reg, exports, streamOut>>

\* The drawn vertices of the earlier waves come first.
CompactedIndex(x, t) ==
  ReadNumber(x, CountCell("VertexCounts", RasterStream, x[2])) + Rank(reg[x].drawn, t)

\* Mutant: an empty subgroup is always allowed.
DummyExportCountNone == 0

\* What the hardware is told when no vertex is drawn.
DummyExportCount == IF sh.noEmptySubgroups THEN 1 ELSE 0

\* The map from the compacted to the uncompacted index is set up, and what
\* the thread that will export the vertex needs is written to LDS.
CompactVertex(x) ==
  LET total == ReadNumber(x, CountCell("VertexCounts", 0, sh.maxWaves))
      hasCulledVertices == sh.compact /\ total < NumVerts(x[1])
      ts == IF hasCulledVertices THEN reg[x].drawn ELSE {}
      index(t) == CompactedIndex(x, t)
      info(field, value(_)) == PerThread(ts, LAMBDA t : InfoCell(t, field), value)
  IN /\ ~ HasGs(sh) /\ At(x, "CompactVertex") /\ Advance(x)
     /\ AccessLanes(x, Lanes(CountCell("VertexCounts", 0, 0)),
          {CountCell("VertexCounts", 0, slot) : slot \in {x[2], sh.maxWaves}},
          PerThread(ts, LAMBDA t : MapCell(index(t)), Number)
            @@ (IF sh.compact THEN info("compactedVertexIndex", LAMBDA t : Number(index(t)))
                                     @@ info("inputs", EsVertex) ELSE NoCells)
            @@ (IF sh.compact /\ sh.primitiveId THEN info("primitiveId", LAMBDA t : reg[x].ids[t]) ELSE NoCells))
     /\ SetReg(x, [fullyCulled |-> total = 0, compactVertex |-> hasCulledVertices,
                   primCount |-> IF total = 0 THEN DummyExportCount ELSE NumPrims(x[1]),
                   vertCount |-> IF total = 0 THEN DummyExportCount
                                 ELSE IF sh.compact THEN total ELSE NumVerts(x[1])])
     /\ UNCHANGED <<exports, streamOut>>

CompactVertexWithGs(x) ==
  LET total == ReadNumber(x, CountCell("VertexCounts", sh.rasterStream, sh.maxWaves))
      hasCulledVertices == total < NumVerts(x[1])
      ts == IF hasCulledVertices THEN reg[x].drawn ELSE {}
      index(t) == CompactedIndex(x, t)
  IN /\ HasGs(sh) /\ At(x, "CompactVertex") /\ Advance(x)
     /\ AccessLanes(x, Lanes(CountCell("VertexCounts", sh.rasterStream, 0)),
               {CountCell("VertexCounts", sh.rasterStream, slot) : slot \in {x[2], sh.maxWaves}},
               PerThread(ts, LAMBDA t : MapCell(index(t)), Number))
     /\ SetReg(x, [vertCount |-> total, compactVertex |-> hasCulledVertices,
                   compacted |-> [t \in Threads(x) |-> IF t \in ts THEN index(t) ELSE t]])
     /\ UNCHANGED <<exports, streamOut>>

-----------------------------------------------------------------------------
(***************************************************************************)
(* The geometry shader.                                                    *)
(***************************************************************************)
RunEs(x) ==
  /\ At(x, "RunEs") /\ Advance(x)
  /\ Writes(x, PerThread(Below(x, sh.groups[x[1]].esVerts), LAMBDA t : ldsStart["EsGsRing"] + t, EsVertex))
  /\ UNCHANGED <<reg, exports, streamOut>>

InitPrimitiveData(x) ==
  /\ At(x, "InitPrimitiveData") /\ Advance(x)
  /\ Writes(x, [c \in {StreamCell("PrimitiveData", i, t) : i \in sh.streams, t \in Below(x, NumPrims(x[1]))} |->
                  NullPrim])
  /\ UNCHANGED <<reg, exports, streamOut>>

\* A thread reads the vertices of its primitive from the ES-GS ring and
\* writes its own to the GS-VS ring, from its first vertex on.
RunGs(x) ==
  LET grp == sh.groups[x[1]]
      ts == Below(x, Len(grp.ops))
      esCell(v) == ldsStart["EsGsRing"] + v
      right(t) == \A v \in grp.inputs[t + 1] : Read(x, esCell(v)) = EsVertex(v)
      ran(t) == RunThread(sh, grp.ops[t + 1],
                  [k \in DOMAIN grp.ops[t + 1] |->
                     IF right(t) THEN Vertex(grp.ops[t + 1][k].stream, t, k) ELSE Uninit])
      at(region, t, key) == StreamCell(region, key[1], t * sh.outputVertices + key[2])
      laid(region, t, fn) == [c \in {at(region, t, key) : key \in DOMAIN fn} |->
                                fn[CHOOSE key \in DOMAIN fn : at(region, t, key) = c]]
      left(t) == Apply(LAMBDA st : laid("PrimitiveData", t, [key \in DOMAIN st.prims |-> Number(st.prims[key])])
                                     @@ laid("GsVsRing", t, st.outputs), ran(t))
  IN /\ At(x, "RunGs") /\ Advance(x)
     /\ Access(x, {esCell(v) : v \in UNION {grp.inputs[t + 1] : t \in ts}},
               FoldSet(LAMBDA t, cells : left(t) @@ cells, NoCells, ts))
     /\ UNCHANGED <<reg, exports, streamOut>>

-----------------------------------------------------------------------------
(***************************************************************************)
(* The exports.                                                            *)
(***************************************************************************)
SendGsAllocReq(x) ==
  LET none == HasGs(sh) /\ sh.rasterStream = NoStream
  IN /\ At(x, "SendGsAllocReq") /\ Advance(x)
     /\ requests' = [requests EXCEPT ![x[1]] = Append(@,
          [prims |-> IF none THEN 0 ELSE reg[x].primCount, verts |-> IF none THEN 0 ELSE reg[x].vertCount])]
     /\ NoAccess /\ UNCHANGED <<reg, prims, verts, streamOut>>

\* A subgroup without a vertex ends here; its first thread exports a dummy.
EarlyExit(x) ==
  /\ At(x, "EarlyExit") /\ UNCHANGED <<sh, ldsStart>>
  /\ todo' = [todo EXCEPT ![x] = IF reg[x].fullyCulled THEN << >> ELSE Tail(@)]
  /\ LET dummy(n, export) == IF reg[x].fullyCulled /\ x[2] = 0
                             THEN [n EXCEPT ![x[1]] = (0 :> export) @@ @] ELSE n
     IN prims' = dummy(prims, <<0, 0, 0>>) /\ verts' = dummy(verts, Dummy)
  /\ NoAccess /\ UNCHANGED <<reg, requests, streamOut>>

\* The threads that export a vertex: the drawn ones, or the first ones when
\* vertices are compacted.
ExportThreads(x) ==
  IF sh.compact \/ sh.kind = "passthrough" THEN Below(x, reg[x].vertCount)
  ELSE Below(x, reg[x].vertCount) \cap reg[x].drawn

\* What a thread runs the rest of the shader on: its own vertex, or the one
\* that the map gives it.
CollectVertexExport(x) ==
  LET ts == ExportThreads(x)
      own(t) == Export(EsVertex(t), {EsVertex(t)}, IF sh.primitiveId THEN reg[x].ids[t] ELSE Uninit)
      of(t) == ReadNumber(x, MapCell(t))
      other(t) == Export(Read(x, InfoCell(of(t), "inputs")), {Read(x, c) : c \in PositionCells(of(t))},
                         IF sh.primitiveId THEN Read(x, InfoCell(of(t), "primitiveId")) ELSE Uninit)
      infoCells(t) == {InfoCell(of(t), f) : f \in {"inputs"} \cup (IF sh.primitiveId THEN {"primitiveId"} ELSE {})}
  IN /\ ~ HasGs(sh) /\ At(x, "CollectVertexExport") /\ Advance(x)
     /\ Reads(x, IF reg[x].compactVertex
                 THEN UNION {{MapCell(t)} \cup PositionCells(of(t)) \cup infoCells(t) : t \in ts} ELSE {})
     /\ SetReg(x, [vertex |-> [t \in ts |-> IF reg[x].compactVertex THEN other(t) ELSE own(t)]])
     /\ UNCHANGED <<exports, streamOut>>

\* The copy shader reads the outputs of the geometry shader.
CollectVertexExportWithGs(x) ==
  LET ts == ExportThreads(x)
      of(t) == IF reg[x].compactVertex THEN ReadNumber(x, MapCell(t)) ELSE t
      cell(t) == StreamCell("GsVsRing", sh.rasterStream, of(t))
  IN /\ HasGs(sh) /\ At(x, "CollectVertexExport") /\ Advance(x)
     /\ Reads(x, {cell(t) : t \in ts} \cup (IF reg[x].compactVertex THEN {MapCell(t) : t \in ts} ELSE {}))
     /\ SetReg(x, [vertex |-> [t \in ts |-> Export(Read(x, cell(t)), {Read(x, cell(t))}, Uninit)]])
     /\ UNCHANGED <<exports, streamOut>>

ExportPrimitive(x) ==
  LET ts == Below(x, reg[x].primCount)
      cell(v) == InfoCell(v, "compactedVertexIndex")
      index(v) == IF reg[x].compactVertex THEN ReadNumber(x, cell(v)) ELSE v
  IN /\ ~ HasGs(sh) /\ At(x, "ExportPrimitive") /\ Advance(x)
     /\ Reads(x, IF reg[x].compactVertex THEN UNION {{cell(v) : v \in Range(Prim(x, t))} : t \in ts} ELSE {})
     /\ prims' = [prims EXCEPT ![x[1]] = @ @@ [t \in ts |->
          IF t \in reg[x].culled THEN NoPrim ELSE [i \in 1 .. sh.vertsPerPrim |-> index(Prim(x, t)[i])]]]
     /\ UNCHANGED <<reg, requests, verts, streamOut>>

ExportPrimitiveWithGs(x) ==
  LET ts == Below(x, reg[x].primCount)
      cell(t) == StreamCell("PrimitiveData", sh.rasterStream, t)
      data(t) == LET wound == Wound(sh, ReadNumber(x, cell(t)))
                 IN [i \in DOMAIN wound |-> reg[x].compacted[t] + wound[i]]
  IN /\ HasGs(sh) /\ At(x, "ExportPrimitive") /\ Advance(x)
     /\ Reads(x, {cell(t) : t \in ts})
     /\ prims' = [prims EXCEPT ![x[1]] = @ @@ [t \in ts |-> IF Read(x, cell(t)) = NullPrim THEN NoPrim ELSE data(t)]]
     /\ UNCHANGED <<reg, requests, verts, streamOut>>

\* An empty wave only tells the hardware that it exports nothing.
ExportVertex(x) ==
  /\ At(x, "ExportVertex") /\ Advance(x)
  /\ verts' = [verts EXCEPT ![x[1]] = reg[x].vertex @@ @]
  /\ NoAccess /\ UNCHANGED <<reg, requests, prims, streamOut>>
-----------------------------------------------------------------------------
(***************************************************************************)
(* Stream-out: the primitives of each stream are counted and compacted,    *)
(* the first wave reserves room in the buffers, in the order in which the  *)
(* subgroups were launched, and every thread stores a primitive.           *)
(***************************************************************************)
WriteXfb(x) ==
  /\ At(x, "WriteXfb") /\ Advance(x)
  /\ Writes(x, PerThread(Below(x, NumVerts(x[1])), XfbCell, EsVertex))
  /\ UNCHANGED <<reg, exports, streamOut>>

InitPrimitiveCounts(x) ==
  /\ At(x, "InitPrimitiveCounts") /\ Advance(x)
  /\ Writes(x, [c \in {CountCell("PrimitiveCounts", i, t) : i \in sh.streams, t \in Below(x, sh.maxWaves + 1)} |->
                  Number(0)])
  /\ UNCHANGED <<reg, exports, streamOut>>

\* Of the statistics alone: one count for every stream.
StatCell(stream) == ldsStart["PrimitiveCounts"] + stream

InitStreamCounts(x) ==
  /\ At(x, "InitStreamCounts") /\ Advance(x)
  /\ Writes(x, PerThread(Below(x, MaxGsStreams), StatCell, LAMBDA t : Number(0)))
  /\ UNCHANGED <<reg, exports, streamOut>>

CheckPrimitiveDrawFlag(x) ==
  LET ts == Below(x, NumPrims(x[1]))
      cell(i, t) == StreamCell("PrimitiveData", i, t)
  IN /\ At(x, "CheckPrimitiveDrawFlag") /\ Advance(x)
     /\ Reads(x, {cell(i, t) : i \in sh.streams, t \in ts})
     /\ SetReg(x, [primDrawn |-> [i \in Streams |->
          IF i \in sh.streams THEN {t \in ts : Read(x, cell(i, t)) # NullPrim} ELSE {}]])
     /\ UNCHANGED <<exports, streamOut>>

AccumPrimitiveCounts(x) ==
  /\ At(x, "AccumPrimitiveCounts") /\ Advance(x)
  /\ AtomicAdd(x, FoldSet(LAMBDA i, cells :
       [c \in {CountCell("PrimitiveCounts", i, slot) : slot \in LaterSlots(x)} |->
          Cardinality(reg[x].primDrawn[i])] @@ cells, NoCells, sh.streams))
  /\ UNCHANGED <<reg, exports, streamOut>>

CountPrimitives(x) ==
  /\ At(x, "CountPrimitives") /\ Advance(x)
  /\ AtomicAdd(x, [c \in {StatCell(i) : i \in sh.streams} |->
                     Cardinality(reg[x].primDrawn[c - ldsStart["PrimitiveCounts"]])])
  /\ UNCHANGED <<reg, exports, streamOut>>

\* All waves read the counts, the first one uses them.
ReadStreamCounts(x) ==
  /\ At(x, "ReadStreamCounts") /\ Advance(x)
  /\ AccessLanes(x, Lanes(StatCell(0)), IF x[2] = 0 THEN {StatCell(i) : i \in sh.streams} ELSE {}, NoCells)
  /\ SetReg(x, [count |-> [i \in Streams |-> IF i \in sh.streams THEN ReadNumber(x, StatCell(i)) ELSE 0]])
  /\ UNCHANGED <<exports, streamOut>>

\* The map from the t-th primitive of a stream to the thread that has it.
PrimitiveIndexMap(x) ==
  LET index(i, t) == ReadNumber(x, CountCell("PrimitiveCounts", i, x[2])) + Rank(reg[x].primDrawn[i], t)
      map(i) == PerThread(reg[x].primDrawn[i], LAMBDA t : StreamCell("PrimitiveIndexMap", i, index(i, t)), Number)
  IN FoldSet(LAMBDA i, cells : map(i) @@ cells, NoCells, sh.streams)

\* Threads without a primitive have read the counts too.
CompactPrimitiveIndex(x) ==
  LET slot(i, k) == CountCell("PrimitiveCounts", i, k)
      count == [i \in Streams |-> IF i \in sh.streams THEN ReadNumber(x, slot(i, sh.maxWaves)) ELSE 0]
  IN /\ At(x, "CompactPrimitiveIndex") /\ Advance(x)
     /\ AccessLanes(x, UNION {Lanes(slot(i, 0)) : i \in sh.streams},
                    {slot(i, k) : i \in sh.streams, k \in {x[2], sh.maxWaves}}, PrimitiveIndexMap(x))
     /\ SetReg(x, [count |-> count, toWrite |-> count])
     /\ UNCHANGED <<exports, streamOut>>

\* The primitives that still fit in a buffer after some dwords.
PrimsCanWrite(b, dwords) ==
  Max({0, sh.buffers[b].size - (sh.buffers[b].offset + dwords)}) \div DwordsPerPrim(b)

\* Mutant: the turn is not passed on.
TurnOverNot == control.turn

TurnOver == control.turn + 1

\* GFX11: the first thread waits for its turn, then for one buffer after the
\* other reads the counter, limits the primitives and adds to the counter;
\* the last addition ends its turn.  The instructions are apart, but in its
\* turn no other subgroup touches the counters.
GdsLimit(st, b) == [st EXCEPT ![BufferStream(b)] = Min({@, PrimsCanWrite(b, control.dwords[b])})]
OrderedCount(x) ==
  LET limited == [b \in Buffers |->
                    FoldLeft(GdsLimit, reg[x].toWrite, [k \in 1 .. b |-> k])]
  IN /\ At(x, "OrderedCount") /\ control.turn = x[1] /\ Advance(x)
     /\ SetReg(x, [toWrite |-> limited[Len(sh.buffers)], written |-> control.dwords])
     /\ control' = [control EXCEPT !.turn = TurnOver,
          !.dwords = [b \in Buffers |-> @[b] + limited[b][BufferStream(b)] * DwordsPerPrim(b)]]
     /\ NoAccess /\ UNCHANGED <<buffers, exports>>

\* The statistics go to the counters and to LDS.
GdsCounters(x) ==
  /\ At(x, "GdsCounters") /\ Advance(x)
  /\ control' = [control EXCEPT
       !.needed = [i \in Streams |-> @[i] + (IF i \in ActiveStreams THEN reg[x].count[i] ELSE 0)],
       !.written = [i \in Streams |-> @[i] + (IF i \in ActiveStreams THEN reg[x].toWrite[i] ELSE 0)]]
  /\ Writes(x, [c \in {DwordsCell(b) : b \in Buffers} |-> Number(reg[x].written[c - DwordsCell(1) + 1])]
               @@ PerThread(ActiveStreams, ToWriteCell, LAMBDA i : Number(reg[x].toWrite[i])))
  /\ UNCHANGED <<reg, buffers, exports>>

\* GFX12: a lane for every stream and one for every buffer.
InitPrimitivesToWrite(x) ==
  /\ At(x, "InitPrimitivesToWrite") /\ Advance(x)
  /\ Writes(x, PerThread(ActiveStreams, ToWriteCell, LAMBDA i : Number(reg[x].count[i])))
  /\ UNCHANGED <<reg, exports, streamOut>>

DwordsNeeded(x, b) == reg[x].count[BufferStream(b)] * DwordsPerPrim(b)

\* A lane tries until the counter's ordered ID is that of its wave; the
\* ordered add then takes what the subgroup needs and admits the next.  The
\* wave goes on when all lanes have succeeded.
WaveOrdering(x) ==
  \E b \in Buffers \ DOMAIN reg[x].written :
    LET written == (b :> control.dwords[b]) @@ reg[x].written
    IN /\ At(x, "WaveOrdering") /\ control.ready[b] = x[1]
       /\ todo' = [todo EXCEPT ![x] = IF DOMAIN written = Buffers THEN Tail(@) ELSE @]
       /\ UNCHANGED <<sh, ldsStart>>
       /\ SetReg(x, [written |-> written])
       /\ control' = [control EXCEPT !.ready[b] = @ + 1, !.dwords[b] = @ + DwordsNeeded(x, b)]
       /\ NoAccess /\ UNCHANGED <<buffers, exports>>

LimitPrimitives(x) ==
  LET limit(i) == Min({ReadNumber(x, ToWriteCell(i))}
                        \cup {PrimsCanWrite(b, reg[x].written[b]) : b \in {c \in Buffers : BufferStream(c) = i}})
  IN /\ At(x, "LimitPrimitives") /\ Advance(x)
     /\ Access(x, {ToWriteCell(i) : i \in ActiveStreams},
               PerThread(Buffers, DwordsCell, LAMBDA b : Number(reg[x].written[b]))
                 @@ PerThread(ActiveStreams, ToWriteCell, LAMBDA i : Number(limit(i))))
     /\ SetReg(x, [toWrite |-> [i \in Streams |-> IF i \in ActiveStreams THEN limit(i) ELSE 0]])
     /\ UNCHANGED <<exports, streamOut>>

\* What was taken too much is given back.
Excess(x, b) == DwordsNeeded(x, b) - reg[x].toWrite[BufferStream(b)] * DwordsPerPrim(b)
ReviseDwordsWritten(x) ==
  /\ At(x, "ReviseDwordsWritten") /\ Advance(x)
  /\ control' = [control EXCEPT !.dwords = [b \in Buffers |-> @[b] - Excess(x, b)]]
  /\ NoAccess /\ UNCHANGED <<reg, buffers, exports>>

UpdatePrimitiveCounters(x) ==
  /\ At(x, "UpdatePrimitiveCounters") /\ Advance(x)
  /\ Reads(x, {ToWriteCell(i) : i \in ActiveStreams})
  /\ control' = [control EXCEPT
       !.needed = [i \in Streams |-> @[i] + (IF i \in ActiveStreams THEN reg[x].count[i] ELSE 0)],
       !.written = [i \in Streams |-> @[i] + (IF i \in ActiveStreams THEN ReadNumber(x, ToWriteCell(i)) ELSE 0)]]
  /\ UNCHANGED <<reg, buffers, exports>>

\* Mutant: what earlier subgroups wrote is overwritten.
XfbAddressFromStart(x, b, t, j) == sh.buffers[b].offset + (t * sh.vertsPerPrim + j) * sh.buffers[b].stride

\* Where vertex j (from 0) of the t-th primitive of the subgroup goes.
XfbAddress(x, b, t, j) ==
  sh.buffers[b].offset + ReadNumber(x, DwordsCell(b)) + (t * sh.vertsPerPrim + j) * sh.buffers[b].stride

\* The cells of the vertices of the t-th primitive of a stream.
XfbSource(x, i, t) ==
  IF ~ HasGs(sh) THEN [j \in 1 .. sh.vertsPerPrim |-> XfbCell(Prim(x, t)[j])]
  ELSE LET u == ReadNumber(x, StreamCell("PrimitiveIndexMap", i, t))
           wound == Wound(sh, ReadNumber(x, StreamCell("PrimitiveData", i, u)))
       IN [j \in 1 .. sh.vertsPerPrim |-> StreamCell("GsVsRing", i, u + wound[j])]

ExportXfb(x) ==
  LET ts(i) == Below(x, ReadNumber(x, ToWriteCell(i)))
      mapCells(i, t) == IF HasGs(sh) THEN {StreamCell("PrimitiveIndexMap", i, t),
                          StreamCell("PrimitiveData", i, ReadNumber(x, StreamCell("PrimitiveIndexMap", i, t)))}
                        ELSE {}
      stores(b) == LET i == BufferStream(b)
                       from == {<<t, j>> : t \in ts(i), j \in 1 .. sh.vertsPerPrim}
                   IN PerThread(from, LAMBDA k : XfbAddress(x, b, k[1], k[2] - 1),
                                LAMBDA k : <<x[1], Read(x, XfbSource(x, i, k[1])[k[2]])>>)
  IN /\ At(x, "ExportXfb") /\ Advance(x)
     /\ AccessLanes(x, Lanes(DwordsCell(1)),
          {DwordsCell(b) : b \in Buffers} \cup {ToWriteCell(i) : i \in ActiveStreams}
            \cup UNION {UNION {Range(XfbSource(x, i, t)) \cup mapCells(i, t) : t \in ts(i)} : i \in ActiveStreams},
          NoCells)
     /\ buffers' = [b \in Buffers |-> stores(b) @@ buffers[b]]
     /\ UNCHANGED <<reg, control, exports>>

CollectPrimitiveStats(x) ==
  /\ At(x, "CollectPrimitiveStats") /\ Advance(x)
  /\ control' = [control EXCEPT
       !.needed = [i \in Streams |-> @[i] + (IF i \in ActiveStreams THEN reg[x].count[i] ELSE 0)]]
  /\ NoAccess /\ UNCHANGED <<reg, buffers, exports>>

-----------------------------------------------------------------------------
Step(x) ==
  \/ DistribPrimitiveId(x) \/ ReadPrimitiveId(x)
  \/ InitVertexDrawFlag(x) \/ InitVertexCounts(x) \/ WriteCullData(x)
  \/ CullPrimitive(x) \/ CullPrimitiveWithGs(x)
  \/ CheckVertexDrawFlag(x) \/ CheckVertexDrawFlagWithGs(x) \/ AccumVertexCounts(x)
  \/ CompactVertex(x) \/ CompactVertexWithGs(x)
  \/ RunEs(x) \/ InitPrimitiveData(x) \/ RunGs(x)
  \/ SendGsAllocReq(x) \/ EarlyExit(x)
  \/ CollectVertexExport(x) \/ CollectVertexExportWithGs(x)
  \/ ExportPrimitive(x) \/ ExportPrimitiveWithGs(x) \/ ExportVertex(x)
  \/ WriteXfb(x) \/ InitPrimitiveCounts(x) \/ InitStreamCounts(x)
  \/ CheckPrimitiveDrawFlag(x) \/ AccumPrimitiveCounts(x) \/ CountPrimitives(x)
  \/ ReadStreamCounts(x) \/ CompactPrimitiveIndex(x)
  \/ OrderedCount(x) \/ GdsCounters(x)
  \/ InitPrimitivesToWrite(x) \/ WaveOrdering(x) \/ LimitPrimitives(x)
  \/ ReviseDwordsWritten(x) \/ UpdatePrimitiveCounters(x)
  \/ ExportXfb(x) \/ CollectPrimitiveStats(x)

Next == (\E x \in Waves : Step(x)) \/ (\E g \in Groups : Barrier(g))

\* The hardware runs all the waves of a draw; a lane that spins holds up no
\* other wave.
Spec == Init /\ [][Next]_vars /\ WF_vars(Next)

-----------------------------------------------------------------------------
(***************************************************************************)
(* Properties.                                                             *)
(***************************************************************************)

\* The types of the state: a wave has left a suffix of its program, what a
\* subgroup exports does not exceed what it was launched with, a stored dword
\* has an address, and every subgroup takes one turn at the counters.
TypeOK ==
  /\ sh \in Shaders
  /\ ldsStart \in [AllRegions(sh) -> Nat]
  /\ DOMAIN todo = Waves /\ \A x \in Waves : IsSuffix(todo[x], Program(x))
  /\ \A g \in Groups : /\ DOMAIN lds[g] \subseteq Nat
                       /\ DOMAIN prims[g] \subseteq 0 .. NumPrims(g) - 1
                       /\ DOMAIN verts[g] \subseteq 0 .. MaxThreads(sh) - 1
  /\ \A b \in Buffers : DOMAIN buffers[b] \subseteq Nat /\ control.dwords[b] \in Nat
  /\ control.turn \in 1 .. Len(sh.groups) + 1

\* An exported primitive as its vertices.
Resolved(g, prim) == [i \in DOMAIN prim |-> IF prim[i] \in DOMAIN verts[g] THEN verts[g][prim[i]]
                                              ELSE Export(Uninit, {}, Uninit)]

\* The exports of a subgroup without a geometry shader: primitive p is
\* exported with its vertices, each with its own inputs and position, and with
\* its ID at the provoking vertex, unless it is culled.
ExportedAll(g) ==
  LET grp == sh.groups[g]
      culled == IF sh.kind = "passthrough" \/ RuntimePassthrough(g) THEN {} ELSE grp.culled
  IN \A p \in 0 .. NumPrims(g) - 1 :
       IF p \in culled
       THEN p \in DOMAIN prims[g] => prims[g][p] = NoPrim \/ Range(Resolved(g, prims[g][p])) = {Dummy}
       ELSE /\ p \in DOMAIN prims[g] /\ prims[g][p] # NoPrim
            /\ \A i \in 1 .. sh.vertsPerPrim :
                 LET v == grp.prims[p + 1][i]
                     out == Resolved(g, prims[g][p])[i]
                 IN /\ out.inputs = EsVertex(v) /\ out.position = {EsVertex(v)}
                    /\ sh.primitiveId /\ v = Provoking(sh, grp.prims[p + 1]) => out.id = PrimitiveId(p)

\* With a geometry shader: the primitives it assembles on the rasterized
\* stream, without the culled ones, in order.
ExportedAssembled(g) ==
  LET all == Primitives(sh, sh.groups[g], sh.rasterStream)
      visible == IF sh.cullingMode THEN {p \in DOMAIN all : p - 1 \notin sh.groups[g].culled} ELSE DOMAIN all
      numbers == SetToSortSeq(visible, <)
      exported == SetToSortSeq({t \in DOMAIN prims[g] : prims[g][t] # NoPrim}, <)
  IN /\ Len(exported) = Len(numbers)
     /\ \A i \in DOMAIN numbers : Resolved(g, prims[g][exported[i]]) =
                                  [j \in DOMAIN all[numbers[i]] |->
                                     Export(all[numbers[i]][j], {all[numbers[i]][j]}, Uninit)]

\* A subgroup exports just the primitives and at most the vertices that it
\* asked for.
AllocationRight ==
  \A g \in Groups :
    GroupEnded(g) /\ ~ PassthroughNoMsg =>
         /\ Len(requests[g]) = 1
         /\ DOMAIN prims[g] = 0 .. requests[g][1].prims - 1
         /\ DOMAIN verts[g] \subseteq 0 .. requests[g][1].verts - 1
         /\ sh.compact /\ HasGs(sh) => DOMAIN verts[g] = 0 .. requests[g][1].verts - 1

\* A subgroup exports exactly the visible primitives, with the right data in
\* every vertex, in just the space that it asked for, however its waves
\* interleave: distribution of the primitive ID, culling, compaction across
\* waves, winding and overlaid LDS regions.
ExportsRight ==
  /\ AllocationRight
  /\ \A g \in Groups : GroupEnded(g) =>
       IF ~ HasGs(sh) THEN ExportedAll(g)
       ELSE sh.rasterStream # NoStream => ExportedAssembled(g)

\* A subgroup asks the hardware for space exactly once, whichever way it ends,
\* and a culling shader exports nothing before it has asked: the first wave
\* asks, and no other wave overtakes it to the exports.
RequestFirst ==
  \A g \in Groups :
    /\ Len(requests[g]) <= 1
    /\ GroupEnded(g) => (requests[g] = << >>) = PassthroughNoMsg
    /\ sh.kind = "culling" /\ (DOMAIN prims[g] # {} \/ DOMAIN verts[g] # {}) => requests[g] # << >>

\* Two accesses of a cell by different waves between two barriers conflict,
\* unless both read, both add atomically or both write the same value.
Conflict(a, b) ==
  /\ a.cell = b.cell /\ a.wave # b.wave
  /\ ~ ({a.how, b.how} \subseteq {"read", "unused"} \/ (a.how = b.how /\ a.value = b.value))

\* No wave reads, between two barriers, what another wave writes (the comment
\* at createFenceAndBarrier).  Reads without a guard break it: those of lanes
\* beyond the end of a region, and those of the counts of the streams by
\* waves that are overtaken by the first.
NoRace == \A g \in Groups : \A a, b \in touched[g] : ~ Conflict(a, b)

\* Whatever a wave reads from LDS and goes on to use, no other wave writes
\* between the same two barriers, and no two waves write differently: the
\* regions that share their place are never alive together, and where a wave
\* reads beyond a region or too late, it makes no use of what it has read.
UsedNotRaced ==
  \A g \in Groups : \A a, b \in {c \in touched[g] : c.how # "unused"} : ~ Conflict(a, b)

\* The primitives of a draw on a stream, in order; how many of them all the
\* buffers of the stream have room for.
DrawPrimitives(i) ==
  FlattenSeq([g \in Groups |-> LET ps == Primitives(sh, sh.groups[g], i)
                               IN [p \in DOMAIN ps |-> [j \in DOMAIN ps[p] |-> <<g, ps[p][j]>>]]])
Room(i) ==
  Min({Len(DrawPrimitives(i))}
        \cup {(sh.buffers[b].size - sh.buffers[b].offset) \div DwordsPerPrim(b) :
                b \in {c \in Buffers : BufferStream(c) = i}})

\* Whatever the order in which subgroups reach the counters, the buffers end
\* up with the first primitives of the draw that fit, one after the other,
\* nothing is stored past the end of a buffer, and the statistics count what
\* was generated and what was written; on GFX12, where a subgroup takes what it
\* needs and gives back what does not fit, so do the counters of the buffers.
StreamOutRight ==
  /\ \A b \in Buffers : \A a \in DOMAIN buffers[b] :
       a >= sh.buffers[b].offset /\ a + sh.buffers[b].stride <= sh.buffers[b].size
  /\ AllEnded /\ (sh.xfb \/ sh.stats) =>
       \A i \in ActiveStreams :
         LET all == DrawPrimitives(i)
             room == IF sh.xfb THEN Room(i) ELSE 0
         IN /\ control.needed[i] = Len(all) /\ control.written[i] = room
            /\ \A b \in {c \in Buffers : BufferStream(c) = i} :
                 LET buf == sh.buffers[b]
                     at(k) == buf.offset + k * buf.stride
                     vertices == FlattenSeq(SubSeq(all, 1, room))
                 IN /\ buffers[b] = [a \in {at(k - 1) : k \in DOMAIN vertices} |->
                                       vertices[(a - buf.offset) \div buf.stride + 1]]
                    /\ sh.gfx >= 12 => control.dwords[b] = room * DwordsPerPrim(b)

\* The counter of a buffer, from which a later draw goes on and which gives
\* its size to a draw of what was captured, counts the dwords that were
\* written to it.
DwordsCounted ==
  AllEnded /\ sh.xfb => \A b \in Buffers : control.dwords[b] = Room(BufferStream(b)) * DwordsPerPrim(b)

\* A culler never takes a triangle away that would show: a triangle that may
\* touch the centre of a pixel of the viewport, between the near and the far
\* plane, with a face that is not culled, is exported.
VisibleExported ==
  \A g \in Groups : GroupEnded(g) /\ sh.kind = "culling" /\ "positions" \in DOMAIN sh.groups[g] =>
    LET grp == sh.groups[g]
    IN \A p \in 0 .. NumPrims(g) - 1 :
         Visible(grp.registers, [i \in 1 .. 3 |-> grp.positions[grp.prims[p + 1][i]]])
           => p \in DOMAIN prims[g] /\ prims[g][p] # NoPrim

\* Every wave ends: all waves meet at the barriers, and the turn in the order
\* of the subgroups is passed on.
WavesEnd == <>AllEnded
=============================================================================
