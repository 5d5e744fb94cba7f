----------------------------- MODULE MeshShader -----------------------------
(***************************************************************************)
(* The code that lgc/lowering/MeshTaskShader.cpp generates around an API   *)
(* mesh shader, run by the waves of one workgroup.  The hardware runs a    *)
(* mesh shader as a geometry shader: a workgroup needs a thread for every  *)
(* primitive and vertex it exports, so it may have more waves than the API *)
(* shader asked for.  Those extra waves must take part in every hardware   *)
(* barrier the API shader executes, whose number may be known only at run  *)
(* time, and then all waves export together.                               *)
(*                                                                         *)
(* A shader is given by the parameters of its compilation and the trace of *)
(* operations its threads execute.  A wave executes an operation for all   *)
(* its threads at once; the waves interleave.  Memory is LDS, or, when the *)
(* shader only writes outputs of its own invocation index, private to the  *)
(* thread.                                                                 *)
(***************************************************************************)
EXTENDS Integers, FiniteSets, Sequences, SequencesExt, FiniteSetsExt

CONSTANTS
  Shaders   \* the shaders: records with the fields of IsShader

\* The kinds of export, and the vertex outputs: the position and the elements
\* of an array of generic outputs.  An element of 64-bit vec3 or vec4 occupies
\* two locations ("wide").
Kinds == {"primitive", "position", "vertexAttribute", "primitiveAttribute"}
Position == -1
NoSlot == -2
Slots == {Position, 0, 1}

\* A cell nothing was written to.
Unset == <<-1, -1>>
ZeroIndices == <<0, 0>>
InvalidValue == -1
Garbage == -2

AlignTo(n, m) == ((n + m - 1) \div m) * m

\* Whether two operations of the trace may run concurrently and write one
\* output: the API leaves the result of such a shader undefined.
Races(ops) ==
  \E i, j \in DOMAIN ops :
    /\ i <= j /\ ops[i].op = ops[j].op /\ ops[i].op \in {"indices", "culled", "write"}
    /\ ops[i].region = ops[j].region /\ ops[i].slot = ops[j].slot
    /\ \E t \in DOMAIN ops[i].at, u \in DOMAIN ops[j].at :
         t # u /\ ops[i].at[t] = ops[j].at[u]
    /\ ~ \E k \in i .. j : ops[k].op = "barrier"

NumBarriers(ops) == Cardinality({i \in DOMAIN ops : ops[i].op = "barrier"})

\* An operation: the counts are within the declared maxima, and the threads
\* that write are invocations of the workgroup.  A write is direct when its
\* index is written as LocalInvocationIndex in the code of the shader and its
\* location offset as the constant 0.
IsOp(s, o) ==
  /\ o.op = "outputs" => o.vertices \in 0 .. s.vertices /\ o.primitives \in 0 .. s.primitives
  /\ o.op \in {"indices", "culled", "write"} => DOMAIN o.at \subseteq 0 .. s.threads - 1
  /\ o.op \in {"indices", "culled"} => o.region = "none" /\ o.slot = NoSlot
  /\ o.op = "culled" => o.isCulled \in BOOLEAN
  /\ o.op \in {"indices", "culled", "write"} /\ o.direct =>
       (\A t \in DOMAIN o.at : o.at[t] = t) /\ o.slot \in {NoSlot, Position, 0}

\* What SPIR-V asks of a shader, and what the compiler knows of it: its trace
\* sets the output counts at most once, two invocations write one output only
\* with a barrier in between, and the barriers executed are the static ones
\* unless one of them is conditional.
IsShader(s) ==
  /\ s.waveSize \in Nat \ {0} /\ s.threads \in Nat \ {0}
  /\ s.vertices \in Nat \ {0} /\ s.primitives \in Nat \ {0}
  /\ s.staticBarriers \in Nat
  /\ {s.enableRowExport, s.attributes, s.flatWorkgroupId, s.wide,
      s.atmPrecedesPos, s.conditionalBarrier} \subseteq BOOLEAN
  /\ ~ Races(s.ops)
  /\ s.conditionalBarrier \/ NumBarriers(s.ops) = s.staticBarriers
  /\ s.staticBarriers = 0 => NumBarriers(s.ops) = 0
  /\ s.ops \in Seq(ToSet(s.ops))
  /\ \A i, j \in DOMAIN s.ops :
       s.ops[i].op = "outputs" /\ s.ops[j].op = "outputs" => i = j
  /\ \A i \in DOMAIN s.ops : IsOp(s, s.ops[i])

ASSUME ShadersAssumption == \A s \in Shaders : IsShader(s)

VARIABLES
  sh,         \* the shader that runs
  pc,         \* what each wave does next
  at,         \* the operation of the trace, or the barrier of an extra wave
  toggle,     \* barrierToggle of each wave
  phase,      \* which of the four exports a wave is at
  loopIndex,  \* the row of that export
  counts,     \* MeshOutputCounts in LDS
  flag,       \* BarrierCompletion in LDS
  prims,      \* primitive connectivity data: indices and null primitive flag
  outs,       \* vertex and primitive outputs
  requests,   \* GS_ALLOC_REQ messages sent
  exports     \* for every kind and index, what was exported

memory == <<counts, flag, prims, outs>>
control == <<pc, at, toggle, phase, loopIndex>>
vars == <<sh, pc, at, toggle, phase, loopIndex, counts, flag, prims, outs, requests, exports>>

-----------------------------------------------------------------------------
(* The parameters of the generated code. *)

NumExportThreads(s) == Max({s.primitives, s.vertices})

UsesRowExport(s) ==
  /\ s.enableRowExport
  /\ AlignTo(NumExportThreads(s), s.waveSize) > AlignTo(s.threads, s.waveSize)

PrimAmpFactor(s) == Max({s.threads, NumExportThreads(s)})

FlatWorkgroupSize(s) ==
  AlignTo(IF UsesRowExport(s) THEN s.threads ELSE PrimAmpFactor(s), s.waveSize)

NumWaves(s) == FlatWorkgroupSize(s) \div s.waveSize
NumMeshWaves(s) == AlignTo(s.threads, s.waveSize) \div s.waveSize

\* checkNeedBarrierFlag: the number of API barriers has to be found at run time.
NeedBarrierFlag(s) ==
  /\ ~ UsesRowExport(s)
  /\ NumWaves(s) # NumMeshWaves(s)
  /\ s.staticBarriers > 0
  /\ s.conditionalBarrier

\* meshOutputsToAllocas: every output written is visibly the one of the
\* invocation's index, and no output array is indexed.
OutputsToAllocas(s) ==
  \A i \in DOMAIN s.ops : s.ops[i].op \in {"indices", "culled", "write"} => s.ops[i].direct

\* The shaders whose exports are right.  The code goes wrong on an indexed array
\* of wide elements; and with outputs in registers a thread has one of its own
\* for all its rows, so the counts must not go beyond the threads.
IsRegular(s) ==
  /\ ~ s.wide
  /\ UsesRowExport(s) /\ OutputsToAllocas(s) =>
       \A i \in DOMAIN s.ops :
         s.ops[i].op = "outputs" => /\ s.ops[i].vertices <= FlatWorkgroupSize(s)
                                    /\ s.ops[i].primitives <= FlatWorkgroupSize(s)

Waves == 0 .. NumWaves(sh) - 1
MeshWave(w) == w < NumMeshWaves(sh) \/ NumMeshWaves(sh) = NumWaves(sh)
Threads(w) == w * sh.waveSize .. (w + 1) * sh.waveSize - 1
ApiThreads(w) == {t \in Threads(w) : t < sh.threads}

\* The cell of an output: private to the thread, or that of the index in LDS.
Cell(t, i) == IF OutputsToAllocas(sh) THEN t ELSE i

\* The LDS slot of an element of an output array: the location offset of a
\* wide element counts two locations, and the code shifts it right by two.
SlotOf(slot) ==
  IF sh.wide /\ slot # Position THEN (2 * slot) \div 4 ELSE slot

\* The cells a shader may touch.
Cells(s) == 0 .. Max({FlatWorkgroupSize(s), s.primitives, s.vertices}) - 1

-----------------------------------------------------------------------------
(* Entry: the first barrier and what is written before it.  LDS holds       *)
(* anything; an alloca that is read before it is written is undefined, and *)
(* the passes that follow promote it to a value of which the masked bits   *)
(* fold to zero.                                                           *)

Init ==
  /\ sh \in Shaders
  /\ pc = [w \in Waves |-> "init"]
  /\ at = [w \in Waves |-> 1]
  /\ toggle = [w \in Waves |-> FALSE]
  /\ phase = [w \in Waves |-> 1]
  /\ loopIndex = [w \in Waves |-> 0]
  /\ counts = <<Garbage, Garbage>>
  /\ flag = InvalidValue
  /\ prims = [c \in Cells(sh) |->
               IF OutputsToAllocas(sh) THEN [indices |-> ZeroIndices, null |-> FALSE]
                                       ELSE [indices |-> Unset, null |-> TRUE]]
  /\ outs = [r \in {"vertex", "primitive"} |-> [c \in Cells(sh) |-> [e \in Slots |-> Unset]]]
  /\ requests = << >>
  /\ exports = [k \in Kinds |-> [i \in Cells(sh) |-> << >>]]

Goto(w, label) == pc' = [pc EXCEPT ![w] = label]

\* The indices a wave's threads stand for: their own, and with row export those
\* of every NumWaves-th row after it.
Rows(w, limit) ==
  {t + l * sh.waveSize : t \in Threads(w),
                         l \in IF UsesRowExport(sh)
                                 THEN {l \in 0 .. limit : l % NumWaves(sh) = 0} ELSE {0}}
    \cap 0 .. limit - 1

\* .initPrimitiveIndices: primitives the API shader does not set are degenerate.
InitIndices(w) ==
  /\ pc[w] = "init"
  /\ prims' = IF OutputsToAllocas(sh) THEN prims
              ELSE [c \in DOMAIN prims |->
                     IF c \in Rows(w, sh.primitives)
                       THEN [indices |-> ZeroIndices, null |-> FALSE] ELSE prims[c]]
  /\ Goto(w, "special")
  /\ UNCHANGED <<sh, at, toggle, phase, loopIndex, counts, flag, outs, requests, exports>>

\* Where a wave goes after the first barrier, if there is one.
Body(w) == IF MeshWave(w) THEN "api" ELSE "extra"

FirstBarrier == ~ OutputsToAllocas(sh) \/ NeedBarrierFlag(sh) \/ sh.flatWorkgroupId

\* .writeSpecialValue, by the first thread of the workgroup.
WriteSpecialValue(w) ==
  /\ pc[w] = "special"
  /\ counts' = IF w = 0 THEN <<InvalidValue, counts[2]>> ELSE counts
  /\ flag' = IF w = 0 /\ NeedBarrierFlag(sh) THEN 0 ELSE flag
  /\ Goto(w, IF FirstBarrier THEN "barrier.begin" ELSE Body(w))
  /\ UNCHANGED <<sh, at, toggle, phase, loopIndex, prims, outs, requests, exports>>

-----------------------------------------------------------------------------
(* The API shader. *)

Op(w) == sh.ops[at[w]]
HasOp(w, ops) == pc[w] = "api" /\ at[w] <= Len(sh.ops) /\ Op(w).op \in ops
Advance(w) == at' = [at EXCEPT ![w] = @ + 1]

\* The threads of a wave that execute its operation, and the cells they write.
Active(w) == ApiThreads(w) \cap DOMAIN Op(w).at
Targets(w) == {Cell(t, Op(w).at[t]) : t \in Active(w)}
Writer(w, c) == CHOOSE t \in Active(w) : Cell(t, Op(w).at[t]) = c
Value(w, c) == <<at[w], Writer(w, c)>>

\* An API barrier; with dynamic handling the toggle is flipped first.
ApiBarrier(w) ==
  /\ HasOp(w, {"barrier"})
  /\ toggle' = IF NeedBarrierFlag(sh) THEN [toggle EXCEPT ![w] = ~ @] ELSE toggle
  /\ Advance(w)
  /\ Goto(w, "barrier.api")
  /\ UNCHANGED <<sh, phase, loopIndex, memory, requests, exports>>

\* lowerSetMeshOutputs: the first thread stores the counts and asks the
\* hardware for export space.
SetMeshOutputs(w) ==
  LET zero == Op(w).vertices * Op(w).primitives = 0
      new  == IF zero THEN <<0, 0>> ELSE <<Op(w).vertices, Op(w).primitives>>
  IN  /\ HasOp(w, {"outputs"})
      /\ counts' = IF w = 0 THEN new ELSE counts
      /\ requests' = IF w = 0 THEN Append(requests, new) ELSE requests
      /\ Advance(w)
      /\ UNCHANGED <<sh, pc, toggle, phase, loopIndex, flag, prims, outs, exports>>

\* Mutant: all bits of the primitive are cleared.
ClearBitsAll(w) ==
  /\ HasOp(w, {"indices", "culled"})
  /\ prims' = [c \in DOMAIN prims |->
                 IF c \in Targets(w) THEN [indices |-> ZeroIndices, null |-> FALSE] ELSE prims[c]]
  /\ Goto(w, "or")
  /\ UNCHANGED <<sh, at, toggle, phase, loopIndex, counts, flag, outs, requests, exports>>

\* The first half of lowerSetMeshPrimitiveIndices and lowerSetMeshPrimitiveCulled:
\* an atomic AND clears the bits the operation is about and keeps the others.
ClearBits(w) ==
  /\ HasOp(w, {"indices", "culled"})
  /\ prims' = [c \in DOMAIN prims |->
                 IF c \notin Targets(w) THEN prims[c]
                 ELSE IF Op(w).op = "indices" THEN [prims[c] EXCEPT !.indices = ZeroIndices]
                 ELSE [prims[c] EXCEPT !.null = FALSE]]
  /\ Goto(w, "or")
  /\ UNCHANGED <<sh, at, toggle, phase, loopIndex, counts, flag, outs, requests, exports>>

\* The second half: an atomic OR sets them.
SetBits(w) ==
  /\ pc[w] = "or"
  /\ prims' = [c \in DOMAIN prims |->
                 IF c \notin Targets(w) THEN prims[c]
                 ELSE IF Op(w).op = "indices" THEN [prims[c] EXCEPT !.indices = Value(w, c)]
                 ELSE [prims[c] EXCEPT !.null = @ \/ Op(w).isCulled]]
  /\ Advance(w)
  /\ Goto(w, "api")
  /\ UNCHANGED <<sh, toggle, phase, loopIndex, counts, flag, outs, requests, exports>>

\* lowerWriteMeshOutput.
WriteMeshOutput(w) ==
  /\ HasOp(w, {"write"})
  /\ outs' = [outs EXCEPT ![Op(w).region] =
                [c \in DOMAIN @ |->
                  IF c \in Targets(w) THEN [@[c] EXCEPT ![SlotOf(Op(w).slot)] = Value(w, c)]
                                      ELSE @[c]]]
  /\ Advance(w)
  /\ UNCHANGED <<sh, pc, toggle, phase, loopIndex, counts, flag, prims, requests, exports>>

\* Mutant: the barrier that ends the API shader is left out.
EndApiUnsynchronised(w) ==
  /\ pc[w] = "api" /\ at[w] > Len(sh.ops)
  /\ flag' = IF ~ NeedBarrierFlag(sh) THEN flag ELSE IF toggle[w] THEN 3 ELSE 2
  /\ Goto(w, "barrier.post")
  /\ UNCHANGED <<sh, at, toggle, phase, loopIndex, counts, prims, outs, requests, exports>>

\* The end of the API shader: the completion flag, and the barrier that
\* synchronises the completion of the API waves.
EndApi(w) ==
  /\ pc[w] = "api" /\ at[w] > Len(sh.ops)
  /\ flag' = IF ~ NeedBarrierFlag(sh) THEN flag ELSE IF toggle[w] THEN 3 ELSE 2
  /\ Goto(w, IF NeedBarrierFlag(sh) THEN "barrier.end" ELSE "barrier.post")
  /\ UNCHANGED <<sh, at, toggle, phase, loopIndex, counts, prims, outs, requests, exports>>

-----------------------------------------------------------------------------
(* Extra waves. *)

\* Dynamic handling: flip the toggle, wait.  Static handling: one barrier per
\* API barrier.
ExtraBarrier(w) ==
  /\ pc[w] = "extra"
  /\ IF NeedBarrierFlag(sh)
       THEN /\ toggle' = [toggle EXCEPT ![w] = ~ @]
            /\ Goto(w, "barrier.extra")
            /\ at' = at
       ELSE /\ toggle' = toggle
            /\ Goto(w, IF at[w] <= sh.staticBarriers THEN "barrier.extra" ELSE "barrier.post")
            /\ Advance(w)
  /\ UNCHANGED <<sh, phase, loopIndex, memory, requests, exports>>

\* Whether an extra wave has another barrier to join, from the completion flag.
MoreBarriers(w) == flag = 0 \/ (flag % 2 = 1) = toggle[w]

ReadFlag(w) ==
  /\ pc[w] = "flag"
  /\ Goto(w, IF MoreBarriers(w) THEN "extra" ELSE "barrier.post")
  /\ UNCHANGED <<sh, at, toggle, phase, loopIndex, memory, requests, exports>>

-----------------------------------------------------------------------------
(* Barriers and exports. *)

Barriers == {"barrier.begin", "barrier.api", "barrier.end", "barrier.extra", "barrier.post"}

\* The hardware barrier: it opens when every wave that has not ended waits.
AfterBarrier(w) ==
  CASE pc[w] = "barrier.begin" -> Body(w)
    [] pc[w] = "barrier.api" -> "api"
    [] pc[w] = "barrier.end" -> "barrier.post"
    [] pc[w] = "barrier.extra" -> IF NeedBarrierFlag(sh) THEN "flag" ELSE "extra"
    [] OTHER -> "counts"

Release ==
  /\ \E w \in Waves : pc[w] # "done"
  /\ \A w \in Waves : pc[w] \in Barriers \cup {"done"}
  /\ pc' = [w \in Waves |-> IF pc[w] = "done" THEN "done" ELSE AfterBarrier(w)]
  /\ UNCHANGED <<sh, at, toggle, phase, loopIndex, memory, requests, exports>>

\* Mutant: no request makes up for the missing one.
CheckCountsNoDummy(w) ==
  /\ pc[w] = "counts"
  /\ Goto(w, IF counts[1] \in {InvalidValue, 0} THEN "done" ELSE "export")
  /\ UNCHANGED <<sh, at, toggle, phase, loopIndex, memory, requests, exports>>

\* .checkMeshOutputCount to .skipExport: SetMeshOutputs that was never executed
\* is made up for with an empty request.
CheckCounts(w) ==
  /\ pc[w] = "counts"
  /\ requests' = IF counts[1] = InvalidValue /\ w = 0 THEN Append(requests, <<0, 0>>) ELSE requests
  /\ Goto(w, IF counts[1] \in {InvalidValue, 0} THEN "done" ELSE "export")
  /\ UNCHANGED <<sh, at, toggle, phase, loopIndex, memory, exports>>

\* The order of the exports; positions come last where attributes must be in
\* memory before them.
Phases ==
  LET attributes == IF sh.attributes THEN <<"vertexAttribute", "primitiveAttribute">> ELSE << >>
  IN  <<"primitive">> \o (IF sh.atmPrecedesPos THEN attributes \o <<"position">>
                                               ELSE <<"position">> \o attributes)

Count(kind) == IF kind \in {"primitive", "primitiveAttribute"} THEN counts[2] ELSE counts[1]

\* What is read back for an index and exported.  A vertex export of a generic
\* output, or a primitive one, is one slot of the array.
PrimitiveData(c) == prims[c]
Positions(c) == outs["vertex"][c][Position]
VertexAttributes(c) == [e \in Slots \ {Position} |-> outs["vertex"][c][e]]
PrimitiveAttributes(c) == [e \in Slots \ {Position} |-> outs["primitive"][c][e]]

Data(kind, c) ==
  CASE kind = "primitive" -> PrimitiveData(c)
    [] kind = "position" -> Positions(c)
    [] kind = "vertexAttribute" -> VertexAttributes(c)
    [] OTHER -> PrimitiveAttributes(c)

\* The threads of a wave with an index to export in this row.
Exporters(w) ==
  {t \in Threads(w) : t + loopIndex[w] * sh.waveSize < Count(Phases[phase[w]])}

\* One row of one export.
Export(w) ==
  LET kind == Phases[phase[w]]
      row  == w + loopIndex[w]
      from == {<<t + loopIndex[w] * sh.waveSize, t>> : t \in Exporters(w)}
  IN  /\ pc[w] = "export" /\ phase[w] <= Len(Phases)
      /\ Exporters(w) # {}
      /\ exports' = [exports EXCEPT ![kind] = [i \in DOMAIN @ |->
             IF \E p \in from : p[1] = i
               THEN Append(@[i], [row  |-> row,
                                  data |-> Data(kind, Cell((CHOOSE p \in from : p[1] = i)[2], i))])
               ELSE @[i]]]
      /\ IF UsesRowExport(sh)
           THEN loopIndex' = [loopIndex EXCEPT ![w] = @ + NumWaves(sh)] /\ phase' = phase
           ELSE loopIndex' = loopIndex /\ phase' = [phase EXCEPT ![w] = @ + 1]
      /\ UNCHANGED <<sh, pc, at, toggle, memory, requests>>

\* Mutant: only the row export loop ends an export.
ExportDoneInLoop(w) ==
  /\ pc[w] = "export" /\ phase[w] <= Len(Phases)
  /\ Exporters(w) = {} /\ UsesRowExport(sh)
  /\ phase' = [phase EXCEPT ![w] = @ + 1]
  /\ loopIndex' = [loopIndex EXCEPT ![w] = 0]
  /\ UNCHANGED <<sh, pc, at, toggle, memory, requests, exports>>

\* No thread of the wave has an index left: the next export, from row 0.
ExportDone(w) ==
  /\ pc[w] = "export" /\ phase[w] <= Len(Phases)
  /\ Exporters(w) = {}
  /\ phase' = [phase EXCEPT ![w] = @ + 1]
  /\ loopIndex' = [loopIndex EXCEPT ![w] = 0]
  /\ UNCHANGED <<sh, pc, at, toggle, memory, requests, exports>>

Exit(w) ==
  /\ pc[w] = "export" /\ phase[w] > Len(Phases)
  /\ Goto(w, "done")
  /\ UNCHANGED <<sh, at, toggle, phase, loopIndex, memory, requests, exports>>

WaveStep(w) ==
  \/ InitIndices(w)
  \/ WriteSpecialValue(w)
  \/ ApiBarrier(w)
  \/ SetMeshOutputs(w)
  \/ ClearBits(w)
  \/ SetBits(w)
  \/ WriteMeshOutput(w)
  \/ EndApi(w)
  \/ ExtraBarrier(w)
  \/ ReadFlag(w)
  \/ CheckCounts(w)
  \/ Export(w)
  \/ ExportDone(w)
  \/ Exit(w)

Next == (\E w \in Waves : WaveStep(w)) \/ Release

MaxWaves == 4

\* The hardware schedules every wave that can run, and opens a full barrier.
Spec ==
  /\ Init /\ [][Next]_vars
  /\ \A w \in 0 .. MaxWaves - 1 : WF_vars(w \in Waves /\ WaveStep(w))
  /\ WF_vars(Release)

-----------------------------------------------------------------------------
(* Properties. *)

Labels == Barriers \cup {"init", "special", "api", "or", "extra", "flag", "counts", "export", "done"}

\* The state is of its type: a wave counts no further than the operations of
\* the trace, the barriers of its code and the four exports.
TypeOK ==
  /\ sh \in Shaders
  /\ pc \in [Waves -> Labels]
  /\ \A w \in Waves : at[w] \in 1 .. Max({Len(sh.ops), sh.staticBarriers + 1}) + 1
  /\ toggle \in [Waves -> BOOLEAN]
  /\ \A w \in Waves : phase[w] \in 1 .. 5 /\ loopIndex[w] \in Nat
  /\ flag \in {InvalidValue, 0, 2, 3}
  /\ DOMAIN prims = Cells(sh)
  /\ \A c \in Cells(sh) : prims[c].null \in BOOLEAN
  /\ \A i \in 1 .. Len(requests) : requests[i] \in Nat \X Nat

\* The waves meet at corresponding barriers: when the barrier opens, all wait
\* for the first one, or all for the one after the API shader, or the API waves
\* wait at one of theirs - the completion barrier only together - and the extra
\* waves stand in for the waves the API does not know.
InStep ==
  (\A w \in Waves : pc[w] \in Barriers) =>
    \/ \A w \in Waves : pc[w] = "barrier.begin"
    \/ \A w \in Waves : pc[w] = "barrier.post"
    \/ \A w \in Waves : pc[w] = IF MeshWave(w) THEN "barrier.api" ELSE "barrier.extra"
    \/ \A w \in Waves : pc[w] = IF MeshWave(w) THEN "barrier.end" ELSE "barrier.extra"

\* The value the API shader leaves in an output: that of its last operation on
\* it, by the thread that executed it; Unset if there is none.
LastWrite(op, region, slot, i) ==
  LET writes == {k \in DOMAIN sh.ops : /\ sh.ops[k].op = op
                                       /\ sh.ops[k].region = region /\ sh.ops[k].slot = slot
                                       /\ \E t \in DOMAIN sh.ops[k].at : sh.ops[k].at[t] = i}
      last   == Max(writes)
  IN  IF writes = {} THEN Unset
      ELSE <<last, CHOOSE t \in DOMAIN sh.ops[last].at : sh.ops[last].at[t] = i>>

\* What an export of an index has to hold.
Intended(kind, i, data) ==
  CASE kind = "primitive" ->
         LET indices == LastWrite("indices", "none", NoSlot, i)
             culled  == LastWrite("culled", "none", NoSlot, i)
         IN  /\ data.indices = IF indices = Unset THEN ZeroIndices ELSE indices
             /\ data.null = IF culled = Unset THEN FALSE ELSE sh.ops[culled[1]].isCulled
    [] kind = "position" ->
         LastWrite("write", "vertex", Position, i) \in {Unset, data}
    [] OTHER ->
         \A e \in Slots \ {Position} :
           LastWrite("write", IF kind = "vertexAttribute" THEN "vertex" ELSE "primitive", e, i)
             \in {Unset, data[e]}

\* Whatever the interleaving, every primitive and vertex below the counts is
\* exported once, from the row that holds its index, and with what the API
\* shader last wrote to it; a wave that ends has left none of its rows out.
ExportsRight ==
  /\ \A k \in Kinds : \A i \in Cells(sh) : \A n \in 1 .. Len(exports[k][i]) :
       /\ n = 1 /\ i < Count(k)
       /\ exports[k][i][n].row = i \div sh.waveSize
       /\ Intended(k, i, exports[k][i][n].data)
  /\ (\A w \in Waves : pc[w] = "done") /\ counts[1] # InvalidValue =>
       \A k \in ToSet(Phases) : \A i \in 0 .. Count(k) - 1 : Len(exports[k][i]) = 1

\* Export space is requested once, with the counts of the exports, and before
\* anything is exported; a shader that never sets its counts requests none.
OneRequest ==
  /\ Len(requests) <= 1
  /\ (\E k \in Kinds, i \in Cells(sh) : exports[k][i] # << >>) =>
       requests = <<counts>> /\ counts # <<0, 0>>
  /\ (\A w \in Waves : pc[w] = "done") =>
       requests = <<IF counts[1] = InvalidValue THEN <<0, 0>> ELSE counts>>

\* Every wave ends: no wave waits for a barrier the others do not execute.
WavesEnd == <>(\A w \in Waves : pc[w] = "done")
=============================================================================
