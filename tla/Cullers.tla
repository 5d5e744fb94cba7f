------------------------------- MODULE Cullers -------------------------------
(***************************************************************************)
(* The cullers that lgc/lowering/NggPrimShader.cpp generates code for, on  *)
(* the position of a triangle's vertices in clip space, and what a         *)
(* rasterizer would show of the triangle, to compare with.                 *)
(*                                                                         *)
(* Coordinates are small integers and w is a power of two, so that float   *)
(* arithmetic on them is exact.  The viewport is in half pixels.  A vertex *)
(* is [x, y, z, w, signs]; signs are its negative cull distances.  r are   *)
(* the culling-control registers.  VTX_XY_FMT and VTX_Z_FMT are 0: the     *)
(* coordinates are divided by w.                                           *)
(***************************************************************************)
EXTENDS Integers, FiniteSets, FiniteSetsExt, Sequences

LOCAL Abs(n) == IF n < 0 THEN -n ELSE n
LOCAL Sign(n) == IF n < 0 THEN -1 ELSE IF n > 0 THEN 1 ELSE 0

\* The determinant of three rows or columns.
Det(a, b, c) ==
  a[1] * (b[2] * c[3] - c[2] * b[3]) - b[1] * (a[2] * c[3] - c[2] * a[3]) + c[1] * (a[2] * b[3] - b[2] * a[3])
Row(v) == <<v.x, v.y, v.w>>
Area(t) == Det(Row(t[1]), Row(t[2]), Row(t[3]))

-----------------------------------------------------------------------------
\* A viewport that is flipped once turns the faces around.
FrontFace(r, t) ==
  IF (r.face = "CW") # ((r.xScale < 0) # (r.yScale < 0)) THEN Area(t) > 0 ELSE Area(t) < 0

\* With an exponent, triangles of a small area are kept.
BackfaceCuller(r, t) ==
  /\ IF FrontFace(r, t) THEN r.cullFront ELSE r.cullBack
  /\ r.backfaceExponent # 0 =>
       Abs(Area(t)) * 10 ^ r.backfaceExponent * Abs(t[1].w * t[2].w * t[3].w) >= 1
  /\ ~ r.wireframe

\* zNear of the frustum, box and sphere cullers.
ZNear(r) == IF r.dxClipSpace THEN -1 ELSE 0

\* The planes a vertex is outside of.
ClipMask(r, v) ==
  {i \in 1 .. 6 : CASE i = 1 -> v.x < - r.xDiscAdj * v.w
                    [] i = 2 -> v.x > r.xDiscAdj * v.w
                    [] i = 3 -> v.y < - r.yDiscAdj * v.w
                    [] i = 4 -> v.y > r.yDiscAdj * v.w
                    [] i = 5 -> v.z < ZNear(r) * v.w
                    [] i = 6 -> v.z > v.w}
FrustumCuller(r, t) == ClipMask(r, t[1]) \cap ClipMask(r, t[2]) \cap ClipMask(r, t[3]) # {}

\* The divided coordinate c of every vertex is above upper, or of every one
\* below lower.
Beyond(t, c, lower, upper) ==
  LET above(v, bound) == IF v.w > 0 THEN v[c] > bound * v.w ELSE v[c] < bound * v.w
      below(v, bound) == IF v.w > 0 THEN v[c] < bound * v.w ELSE v[c] > bound * v.w
  IN \/ \A i \in 1 .. 3 : above(t[i], upper)
     \/ \A i \in 1 .. 3 : below(t[i], lower)
BoxFilterCuller(r, t) ==
  \/ Beyond(t, "x", - r.xDiscAdj, r.xDiscAdj)
  \/ Beyond(t, "y", - r.yDiscAdj, r.yDiscAdj)
  \/ Beyond(t, "z", ZNear(r), 1)

-----------------------------------------------------------------------------
\* Screen coordinates, in 1/256 pixels.
Pixel == 256
Screen(a, w, scale, offset) == (Sign(w) * a * scale * Pixel) \div (2 * Abs(w)) + (offset * Pixel) \div 2

\* rint: to the nearest integer, halves to the even one.
RoundEven(n) ==
  LET q == n \div Pixel
      rest == 2 * (n % Pixel)
  IN IF rest < Pixel THEN q ELSE IF rest > Pixel THEN q + 1 ELSE q + (q % 2)

Clamp(n, bounds) == Max({Min(bounds), Min({n, Max(bounds)})})

\* Mutant: triangles are not widened before rounding.
SpanNotWidened(coords, bounds) ==
  <<RoundEven(Clamp(Min(coords), bounds)), RoundEven(Clamp(Max(coords), bounds))>>

\* The rounded extent of a triangle along an axis, within the bounds.
Span(coords, bounds) ==
  <<RoundEven(Clamp(Min(coords), bounds) - 1), RoundEven(Clamp(Max(coords), bounds) + 1)>>

\* The viewport and 3/4 of a pixel around it; the frustum culler makes the
\* clamping needless.
Bounds(r, scale, offset, coords) ==
  IF "frustum" \in r.enabled THEN coords
  ELSE LET border == IF scale < 0 THEN -192 ELSE 192
       IN {((offset - scale) * Pixel) \div 2 - border, ((offset + scale) * Pixel) \div 2 + border}

SmallPrimFilterCuller(r, t) ==
  LET xs == {Screen(t[i].x, t[i].w, r.xScale, r.xOffset) : i \in 1 .. 3}
      ys == {Screen(t[i].y, t[i].w, r.yScale, r.yOffset) : i \in 1 .. 3}
      empty(span) == span[1] = span[2]
  IN /\ ~ r.conservativeRaster
     /\ \/ empty(Span(xs, Bounds(r, r.xScale, r.xOffset, xs)))
        \/ empty(Span(ys, Bounds(r, r.yScale, r.yOffset, ys)))
     /\ Cardinality({Sign(t[i].w) : i \in 1 .. 3}) = 1

CullDistanceCuller(t) == t[1].signs \cap t[2].signs \cap t[3].signs # {}

\* cullPrimitive: the enabled cullers one after the other, without the sphere
\* culler.
RunCullers(r, t) ==
  \/ "backface" \in r.enabled /\ BackfaceCuller(r, t)
  \/ "frustum" \in r.enabled /\ FrustumCuller(r, t)
  \/ "boxFilter" \in r.enabled /\ BoxFilterCuller(r, t)
  \/ "smallPrim" \in r.enabled /\ SmallPrimFilterCuller(r, t)
  \/ "cullDistance" \in r.enabled /\ CullDistanceCuller(t)

-----------------------------------------------------------------------------
(***************************************************************************)
(* The reference.  A triangle may show at the centre of a pixel of the     *)
(* viewport when a point of it, its edges included, with positive w        *)
(* projects there, between the near and the far plane.  The weights of the *)
(* vertices at that point are quotients of determinants.  The facing of a  *)
(* triangle is the sign of its area on the screen; it is defined when all  *)
(* its vertices are in front of the eye.                                   *)
(***************************************************************************)
Centres(scale, offset) == {c \in offset - Abs(scale) .. offset + Abs(scale) : c % 2 = 1}

ShowsAt(r, t, cx, cy) ==
  LET s == Sign(r.xScale * r.yScale)
      point == <<s * (cx - r.xOffset) * r.yScale, s * (cy - r.yOffset) * r.xScale, s * r.xScale * r.yScale>>
      orient == Sign(Area(t))
      weight == <<orient * Det(point, Row(t[2]), Row(t[3])),
                  orient * Det(Row(t[1]), point, Row(t[3])),
                  orient * Det(Row(t[1]), Row(t[2]), point)>>
      sum(c) == weight[1] * t[1][c] + weight[2] * t[2][c] + weight[3] * t[3][c]
      z == sum("z")
      w == sum("w")
  IN /\ orient # 0 /\ \A i \in 1 .. 3 : weight[i] >= 0
     /\ z <= w /\ z >= (IF r.dxClipSpace THEN 0 ELSE - w)

\* Twice the area on the screen, as the API defines it, up to a positive factor.
ScreenArea(r, t) ==
  LET p(i) == <<Screen(t[i].x, t[i].w, r.xScale, r.xOffset), Screen(t[i].y, t[i].w, r.yScale, r.yOffset)>>
      cross(i, j) == p(i)[1] * p(j)[2] - p(j)[1] * p(i)[2]
  IN - (cross(1, 2) + cross(2, 3) + cross(3, 1))

FaceShown(r, t) ==
  \/ r.wireframe
  \/ ~ r.cullFront /\ ~ r.cullBack
  \/ /\ \A i \in 1 .. 3 : t[i].w > 0
     /\ LET front == IF r.face = "CCW" THEN ScreenArea(r, t) > 0 ELSE ScreenArea(r, t) < 0
        IN IF front THEN ~ r.cullFront ELSE ~ r.cullBack

\* A negative cull distance at all vertices removes the triangle.
Visible(r, t) ==
  /\ \E cx \in Centres(r.xScale, r.xOffset), cy \in Centres(r.yScale, r.yOffset) : ShowsAt(r, t, cx, cy)
  /\ FaceShown(r, t)
  /\ "cullDistance" \in r.enabled => \A d \in t[1].signs : \E i \in {2, 3} : d \notin t[i].signs
=============================================================================
