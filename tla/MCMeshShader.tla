---------------------------- MODULE MCMeshShader ----------------------------
(* Mesh shaders of one to four waves of two threads. *)
EXTENDS MeshShader

Barrier == [op |-> "barrier"]
Outputs(v, p) == [op |-> "outputs", vertices |-> v, primitives |-> p]
IsOwn(f) == \A t \in DOMAIN f : f[t] = t
Indices(f) == [op |-> "indices", at |-> f, region |-> "none", slot |-> NoSlot, direct |-> IsOwn(f)]
Culled(f, c) ==
  [op |-> "culled", at |-> f, region |-> "none", slot |-> NoSlot, isCulled |-> c, direct |-> IsOwn(f)]
WriteTo(r, s, f) == [op |-> "write", at |-> f, region |-> r, slot |-> s, direct |-> IsOwn(f) /\ s # 1]

Own(n) == [t \in 0 .. n - 1 |-> t]
Shifted(n, m) == [t \in 0 .. n - 1 |-> (t + 1) % m]

Base == [waveSize |-> 2, threads |-> 2, vertices |-> 2, primitives |-> 2,
         staticBarriers |-> 0, enableRowExport |-> FALSE, attributes |-> FALSE,
         flatWorkgroupId |-> FALSE, wide |-> FALSE, atmPrecedesPos |-> FALSE,
         conditionalBarrier |-> FALSE, ops |-> << >>]

\* One API wave and one or two extra waves, with k barriers executed.
Dynamic(k, vertices) ==
  [Base EXCEPT !.vertices = vertices, !.staticBarriers = 1, !.conditionalBarrier = TRUE,
     !.ops = <<Outputs(vertices, 2)>> \o [i \in 1 .. k |-> Barrier] \o <<Indices(Shifted(2, 2))>>]

Static(k) ==
  [Base EXCEPT !.vertices = 4, !.staticBarriers = k,
     !.ops = [i \in 1 .. k |-> Barrier] \o <<Outputs(4, 1), WriteTo("vertex", Position, Shifted(2, 4))>>]

\* Two API waves set the indices and the culling of each other's primitives.
Crossed ==
  [Base EXCEPT !.threads = 4, !.vertices = 4, !.primitives = 4,
     !.ops = <<Indices(Own(4)), Outputs(4, 4), Culled([t \in 0 .. 3 |-> (t + 2) % 4], TRUE)>>]

\* The same output is written again after a barrier, by the other wave.
Rewritten ==
  [Base EXCEPT !.threads = 4, !.vertices = 4, !.primitives = 3, !.staticBarriers = 1,
     !.ops = <<Outputs(4, 3), Culled(Own(3), TRUE), Indices(Shifted(3, 3)), Barrier,
               Culled([t \in 0 .. 3 |-> (t + 2) % 4], FALSE)>>]

\* Two API waves, one extra wave, a barrier in a loop.
TwoAndOne(k) ==
  [Base EXCEPT !.threads = 3, !.vertices = 5, !.primitives = 1, !.staticBarriers = 1,
     !.conditionalBarrier = TRUE,
     !.ops = [i \in 1 .. k |-> Barrier] \o <<Outputs(5, 1), WriteTo("vertex", Position, [t \in 0 .. 2 |-> t + 2])>>]

\* Two API waves and two extra ones; three API waves and one extra one.
TwoAndTwo(k) ==
  [Base EXCEPT !.threads = 4, !.vertices = 7, !.primitives = 3, !.staticBarriers = 1,
     !.conditionalBarrier = TRUE,
     !.ops = <<Outputs(7, 2)>> \o [i \in 1 .. k |-> Barrier] \o <<Indices([t \in {0, 3} |-> t \div 2]), Culled([t \in {1, 2} |-> t - 1], TRUE)>>]
ThreeAndOne(k) ==
  [Base EXCEPT !.threads = 5, !.vertices = 8, !.primitives = 2, !.staticBarriers = 2,
     !.conditionalBarrier = TRUE,
     !.ops = <<Indices([t \in {0, 4} |-> t \div 4])>> \o [i \in 1 .. k |-> Barrier] \o <<Outputs(8, 2)>>]

\* Row export: two waves, five vertices, three primitives.
RowExport(atm) ==
  [Base EXCEPT !.threads = 4, !.vertices = 5, !.primitives = 5, !.enableRowExport = TRUE,
     !.attributes = TRUE, !.atmPrecedesPos = atm,
     !.ops = <<Outputs(5, 3), Indices(Own(4)), WriteTo("vertex", 0, Shifted(4, 5)),
               WriteTo("vertex", Position, Shifted(4, 5)), WriteTo("primitive", 1, Own(4))>>]

\* One wave exports three rows.
RowExportAlone ==
  [Base EXCEPT !.vertices = 5, !.primitives = 3, !.enableRowExport = TRUE, !.attributes = TRUE,
     !.ops = <<Outputs(5, 3), Indices(Shifted(2, 2)), WriteTo("vertex", 1, Own(2))>>]

\* Row export of outputs kept in allocas: no more of them than threads.
RowAllocas ==
  [Base EXCEPT !.threads = 4, !.vertices = 5, !.primitives = 5, !.enableRowExport = TRUE,
     !.attributes = TRUE,
     !.ops = <<Outputs(4, 3), Indices(Own(4)), WriteTo("vertex", Position, Own(4)),
               WriteTo("vertex", 0, Own(4)), Culled(Own(2), TRUE)>>]

\* Outputs kept in allocas, with and without the first barrier.
Allocas(flat, k) ==
  [Base EXCEPT !.threads = 3, !.vertices = 4, !.primitives = 3, !.attributes = TRUE,
     !.flatWorkgroupId = flat, !.staticBarriers = k,
     !.ops = <<Outputs(3, 3), Indices(Own(3))>> \o [i \in 1 .. k |-> Barrier] \o
             <<WriteTo("vertex", Position, Own(3)), WriteTo("vertex", 0, Own(3)), Culled(Own(3), TRUE)>>]

\* Own outputs whose index is computed: they stay in LDS.
Computed ==
  [RowAllocas EXCEPT !.ops = <<@[1]>> \o [i \in 1 .. 4 |-> [@[i + 1] EXCEPT !.direct = FALSE]]]

\* Counts never set, or set to none.
NoOutputs == [Base EXCEPT !.threads = 2, !.vertices = 3, !.ops = <<Indices(Shifted(2, 2))>>]
NoVertices == [Base EXCEPT !.threads = 3, !.ops = <<Outputs(0, 2), Indices(Shifted(2, 2))>>]
NoPrimitives == [Base EXCEPT !.vertices = 3, !.ops = <<Outputs(3, 0)>>]

\* An output array of 64-bit vec3 elements.
WideArray ==
  [Base EXCEPT !.attributes = TRUE, !.wide = TRUE,
     !.ops = <<Outputs(2, 1), WriteTo("vertex", 0, Own(2)), WriteTo("vertex", 1, Own(2))>>]

MCShaders ==
  {Dynamic(k, v) : k \in 0 .. 3, v \in {3, 5}} \cup {Static(k) : k \in 0 .. 2}
    \cup {Crossed, Rewritten} \cup {TwoAndOne(k) : k \in 0 .. 3}
    \cup {TwoAndTwo(k) : k \in 0 .. 2} \cup {ThreeAndOne(k) : k \in 0 .. 2}
    \cup {RowExport(FALSE), RowExport(TRUE), RowExportAlone, RowAllocas, Computed}
    \cup {Allocas(f, k) : f \in BOOLEAN, k \in 0 .. 1}
    \cup {NoOutputs, NoVertices, NoPrimitives}

MCWideArray == {WideArray}

\* The shaders of the passing run are of the kind the theorem on exports is about.
ASSUME MCRegular == \A s \in MCShaders : IsRegular(s)
=============================================================================
