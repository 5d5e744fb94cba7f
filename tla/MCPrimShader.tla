---------------------------- MODULE MCPrimShader ----------------------------
(***************************************************************************)
(* Primitive shaders for TLC: waves of 4 threads, 2 or 3 waves to a        *)
(* subgroup, 2 streams and 2 buffers.  The draws are chosen so that a      *)
(* primitive spans waves, a wave loses all its vertices, a strip is cut    *)
(* and restarted, and a buffer is full within a subgroup.                  *)
(***************************************************************************)
EXTENDS PrimShader

Common ==
  [waveSize |-> 4, maxWaves |-> 2, primitiveId |-> FALSE, provokingFirst |-> TRUE, compact |-> FALSE,
   noEmptySubgroups |-> FALSE, threshold |-> 0, constPositionZ |-> FALSE, messageHazard |-> FALSE,
   cullDistance |-> FALSE,
   xfb |-> FALSE, stats |-> FALSE, buffers |-> << >>, vertsPerPrim |-> 3, gfx |-> 11]

OneBuffer(size) == <<[stream |-> 0, stride |-> 1, size |-> size, offset |-> 0]>>
TwoBuffers(size) == <<[stream |-> 0, stride |-> 1, size |-> size + 1, offset |-> 1],
                      [stream |-> 0, stride |-> 2, size |-> 2 * size, offset |-> 0]>>
Unequal == <<[stream |-> 0, stride |-> 1, size |-> 9, offset |-> 0],
             [stream |-> 0, stride |-> 1, size |-> 3, offset |-> 0]>>
TwoStreams == <<[stream |-> 0, stride |-> 1, size |-> 4, offset |-> 0],
                [stream |-> 1, stride |-> 1, size |-> 6, offset |-> 0]>>

-----------------------------------------------------------------------------
\* Vertex shaders: a strip of triangles over both waves, and single triangles.
Fan(culled) == [verts |-> 6, prims |-> <<<<0, 1, 2>>, <<2, 1, 3>>, <<5, 3, 4>>>>, culled |-> culled]
Triangle(culled) == [verts |-> 3, prims |-> <<<<0, 1, 2>>>>, culled |-> culled]

\* Triangles over three waves.
Wide(culled) == [verts |-> 10, prims |-> <<<<0, 1, 9>>, <<1, 4, 5>>, <<8, 9, 6>>, <<2, 3, 0>>, <<4, 2, 8>>>>,
                 culled |-> culled]

Passthrough == Common @@ [kind |-> "passthrough", groups |-> <<Fan({})>>]
Culling(culled) == Common @@ [kind |-> "culling", groups |-> <<Fan(culled)>>]

With(shader, fields) == fields @@ shader

PassthroughShaders ==
  { Passthrough,
    With(Passthrough, [gfx |-> 10, messageHazard |-> TRUE]),
    With(Passthrough, [gfx |-> 10, primitiveId |-> TRUE, provokingFirst |-> FALSE]),
    With(Passthrough, [stats |-> TRUE]),
    With(Passthrough, [xfb |-> TRUE, buffers |-> OneBuffer(7), primitiveId |-> TRUE]) }

CullingShaders ==
  UNION {
    { With(Culling(c), [compact |-> TRUE, primitiveId |-> TRUE]),
      With(Culling(c), [compact |-> TRUE, gfx |-> 10, noEmptySubgroups |-> TRUE, cullDistance |-> TRUE]),
      Culling(c) } : c \in {{}, {0}, {2}, {0, 1}, {0, 1, 2}} }
  \cup
  UNION {
    { With(Culling({}), [compact |-> TRUE, primitiveId |-> i, maxWaves |-> 3, groups |-> <<Wide(c)>>]) :
        i \in BOOLEAN } : c \in {{1}, {0, 1}, {1, 4}, {2, 4}, {0, 2, 3}} }
  \cup
  { With(Culling({0}), [compact |-> TRUE, threshold |-> 7]),
    With(Culling({0}), [compact |-> FALSE, constPositionZ |-> TRUE, stats |-> TRUE, gfx |-> 12]),
    With(Culling({1}), [compact |-> TRUE, primitiveId |-> TRUE, xfb |-> TRUE, buffers |-> OneBuffer(9)]) }

-----------------------------------------------------------------------------
\* Geometry shaders.
Emit(i) == [op |-> "emit", stream |-> i]
Cut(i) == [op |-> "cut", stream |-> i]

Strip == <<Emit(0), Emit(0), Emit(0), Emit(0)>>
CutStrip == <<Emit(0), Emit(0), Cut(0), Emit(0), Emit(0), Emit(0), Emit(0)>>
Mixed == <<Emit(0), Emit(1), Emit(0), Cut(0), Emit(1), Emit(0), Emit(1)>>

Gs(n, ops, culled) ==
  Common @@ [kind |-> "gs", outputVertices |-> n, robust |-> TRUE, rasterStream |-> 0, streams |-> {0},
             cullingMode |-> FALSE,
             groups |-> <<[esVerts |-> 4, inputs |-> [p \in DOMAIN ops |-> {p - 1, p, p + 1}], ops |-> ops,
                           culled |-> culled]>>]

GsShaders ==
  UNION {
    { With(Gs(4, <<Strip, CutStrip>>, {1}), [compact |-> c, provokingFirst |-> f, cullingMode |-> TRUE]),
      With(Gs(4, <<Mixed, Strip>>, {}), [compact |-> c, provokingFirst |-> f, vertsPerPrim |-> 2,
                                         streams |-> {0, 1}, stats |-> TRUE]) } : c, f \in BOOLEAN }
  \cup
  { With(Gs(4, <<<<Emit(0)>>, <<Emit(0), Emit(0)>>>>, {}), [compact |-> TRUE, vertsPerPrim |-> 1, gfx |-> 10]),
    With(Gs(4, <<CutStrip, Strip>>, {}), [compact |-> TRUE, xfb |-> TRUE, buffers |-> OneBuffer(6), gfx |-> 12]),
    With(Gs(2, << >>, {}), [compact |-> TRUE, xfb |-> TRUE, buffers |-> OneBuffer(5), gfx |-> 12, vertsPerPrim |-> 1,
      groups |-> [g \in 1 .. 2 |->
        [esVerts |-> 2, inputs |-> <<{0}, {1}, {0, 1}>>, culled |-> {},
         ops |-> <<<<Emit(0)>>, <<Emit(0), Emit(0), Emit(0)>>, <<Cut(0), Emit(0)>>>>]]]),
    With(Gs(4, <<Mixed, Mixed>>, {}), [rasterStream |-> NoStream, vertsPerPrim |-> 1, streams |-> {0, 1},
                                       xfb |-> TRUE, buffers |-> TwoStreams]),
    With(Gs(4, <<Mixed, Mixed>>, {}), [rasterStream |-> 1, vertsPerPrim |-> 1, streams |-> {0, 1},
                                       compact |-> TRUE, xfb |-> TRUE, buffers |-> TwoStreams, gfx |-> 12]) }

-----------------------------------------------------------------------------
\* Stream-out of three subgroups.
Draws(gfx, bufs) ==
  With(Passthrough, [gfx |-> gfx, xfb |-> TRUE, buffers |-> bufs, waveSize |-> 4, maxWaves |-> 1,
                     groups |-> <<Triangle({}), [Triangle({}) EXCEPT !.prims = <<<<0, 1, 2>>, <<2, 1, 0>>>>],
                                  Triangle({})>>])
DrawShaders ==
  UNION {{Draws(11, TwoBuffers(n)), Draws(12, TwoBuffers(n)), Draws(12, Unequal)} : n \in {5, 9}}

-----------------------------------------------------------------------------
(***************************************************************************)
(* Triangles with positions, in one wave of 32 threads: all triangles of a *)
(* set of points, in both directions.  The viewport has 4 pixels in each   *)
(* direction and starts at the origin or at half a pixel.                  *)
(***************************************************************************)
Point(x, y, z, w) == [x |-> x, y |-> y, z |-> z, w |-> w, signs |-> IF x > y THEN {1} ELSE {2}]
\* Points in front of the eye: close to each other, on pixel centres and
\* edges; outside the viewport to the right, below and beyond the far plane.
Close == [v \in 0 .. 6 |-> <<Point(2, 2, 4, 8), Point(3, 1, 4, 8), Point(1, 3, 0, 8), Point(3, 5, 8, 8),
                             Point(-6, 2, 9, 8), Point(6, 7, 5, 8), Point(5, -13, 16, 16)>>[v + 1]]
Outside == [v \in 0 .. 6 |-> <<Point(10, 2, 4, 8), Point(12, -6, 9, 8), Point(22, 10, 17, 16), Point(7, 1, 10, 8),
                               Point(-2, -9, 9, 8), Point(3, -10, 12, 8), Point(-4, 4, -9, 8)>>[v + 1]]
\* Some behind it.
Around == [Close EXCEPT ![1] = Point(3, 1, 4, -8), ![4] = Point(-10, -3, -4, -8), ![5] = Point(-12, 2, 9, -8),
                        ![6] = Point(17, -13, 16, 16)]

\* The triangles of 7 points in both directions, in slices that fit in a wave.
Triples == SelectSeq([k \in 1 .. 343 |-> <<(k - 1) \div 49, ((k - 1) \div 7) % 7, (k - 1) % 7>>],
                     LAMBDA t : t[1] < t[2] /\ t[1] < t[3] /\ t[2] # t[3])
Slices == {SelectSeq(Triples, LAMBDA t : t[1] = 0), SelectSeq(Triples, LAMBDA t : t[1] = 1),
           SelectSeq(Triples, LAMBDA t : t[1] > 1)}

CullingControl ==
  [face |-> "CCW", cullFront |-> FALSE, cullBack |-> FALSE, wireframe |-> FALSE, backfaceExponent |-> 0,
   dxClipSpace |-> TRUE, xDiscAdj |-> 1, yDiscAdj |-> 1, xScale |-> 4, yScale |-> 4, xOffset |-> 4, yOffset |-> 4,
   conservativeRaster |-> FALSE, enabled |-> {}]

FrontRegisters ==
  UNION {{ With(CullingControl, [enabled |-> {"backface"}, face |-> f, cullFront |-> c = "front", cullBack |-> c = "back",
                            xScale |-> x, yScale |-> y]) : f \in {"CCW", "CW"}, c \in {"front", "back"} }
           : x, y \in {-4, 4}}
  \cup
  { With(CullingControl, [enabled |-> {"backface"}, cullBack |-> TRUE, wireframe |-> TRUE]),
    With(CullingControl, [enabled |-> {"backface"}, cullBack |-> TRUE, backfaceExponent |-> 1]),
    With(CullingControl, [enabled |-> {"boxFilter"}]),
    With(CullingControl, [enabled |-> {"boxFilter"}, xDiscAdj |-> 2]),
    With(CullingControl, [enabled |-> {"backface", "frustum", "boxFilter", "smallPrim", "cullDistance"},
                     cullBack |-> TRUE]) }
AroundRegisters ==
  UNION {{ With(CullingControl, [enabled |-> {"smallPrim"}, xScale |-> x, yScale |-> y]),
           With(CullingControl, [enabled |-> {"smallPrim"}, xScale |-> x, xOffset |-> 5]),
           With(CullingControl, [enabled |-> {"smallPrim", "frustum"}, yScale |-> y, yOffset |-> 3]) }
           : x, y \in {-4, 4}}
  \cup
  { With(CullingControl, [enabled |-> {"frustum"}]), With(CullingControl, [enabled |-> {"frustum"}, yDiscAdj |-> 2]),
    With(CullingControl, [enabled |-> {"cullDistance"}]),
    With(CullingControl, [enabled |-> {"smallPrim"}, conservativeRaster |-> TRUE]) }

Positioned(points, triples, registers) ==
  With(Culling({}), [waveSize |-> 32, maxWaves |-> 1, compact |-> TRUE, cullDistance |-> "cullDistance" \in registers.enabled,
    groups |-> <<[verts |-> 7, prims |-> triples, positions |-> points, registers |-> registers,
                  culled |-> {p \in 0 .. Len(triples) - 1 :
                                RunCullers(registers, [i \in 1 .. 3 |-> points[triples[p + 1][i]]])}]>>])
PositionedShaders ==
  {Positioned(ps, ts, r) : ps \in {Close, Outside}, ts \in Slices, r \in FrontRegisters \cup AroundRegisters}
  \cup {Positioned(Around, ts, r) : ts \in Slices, r \in AroundRegisters}

AllShaders == PositionedShaders \cup PassthroughShaders \cup CullingShaders \cup GsShaders \cup DrawShaders
\* Statistics of two streams, in two waves, one of which is rasterized.
RacingShaders == {With(Gs(4, <<Mixed, Strip>>, {}), [vertsPerPrim |-> 2, streams |-> {0, 1}, stats |-> TRUE])}
\* GFX11 with a second buffer that is smaller than the first.
UnequalShaders == {Draws(11, Unequal)}
=============================================================================
