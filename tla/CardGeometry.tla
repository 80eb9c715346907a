----------------------------- MODULE CardGeometry -----------------------------
(***************************************************************************)
(* The geometry of the card (client/src/app.tsx): the outline of a rounded *)
(* rectangle, the texture coordinates of its faces, and the loop that      *)
(* breaks the extruded mesh into groups, one for each face, so that each   *)
(* gets a material of its own.  A group is a range of vertices: the loop   *)
(* takes the first vertex of each face and counts its vertices.            *)
(***************************************************************************)
EXTENDS Integers

CONSTANTS
  HalfWidth, HalfHeight, Corner,  \* of the card, in some small unit
  Lid,        \* vertices of each of the two faces (three to a triangle)
  Wall,       \* vertices of the sides
  Undefined   \* JavaScript's

ASSUME GeometryAssumption ==
  /\ HalfWidth \in Nat \ {0} /\ HalfHeight \in Nat \ {0}
  /\ Corner \in 0 .. HalfWidth /\ Corner <= HalfHeight
  /\ Lid \in Nat \ {0} /\ Wall \in Nat \ {0}
  /\ Undefined \notin Nat

VARIABLES
  vertex,      \* vIndex: vertices looked at
  groupCount,
  groupStart

geometryVars == <<vertex, groupCount, groupStart>>

-----------------------------------------------------------------------------
\* The outline and its texture coordinates.

\* roundedRectFromDimensions: the points where its curves start; the first one
\* is a line from the origin, where a shape starts.
Outline ==
  LET w == HalfWidth
      h == HalfHeight
      c == Corner IN
  { <<0, 0>>, <<-w, h - c>>, <<c - w, h>>, <<w - c, h>>, <<w, h - c>>,
    <<w, c - h>>, <<w - c, -h>>, <<c - w, -h>>, <<-w, c - h>> }

Abs(n) == IF n < 0 THEN -n ELSE n
Least(S) == CHOOSE n \in S : \A m \in S : n <= m
Most(S) == CHOOSE n \in S : \A m \in S : m <= n

\* Mutant: the end of the range is taken for its length.
Spread_Most(S) == Most(S \cup {0})

\* One axis of getDimensions: a range that starts as [0, 0] and grows.
Spread(S) == Abs(Least(S \cup {0})) + Abs(Most(S \cup {0}))

Across == Spread({p[1] : p \in Outline})
Upright == Spread({p[2] : p \in Outline})

\* generateTopUV of a point, twice and times Across or Upright, so that it is a
\* whole number: in 0 .. 2 * Across if the coordinate is in [0, 1].
TopU(p) == 2 * p[1] + Across
TopV(p) == 2 * p[2] + Upright

-----------------------------------------------------------------------------
\* The groups.

Faces == {-1, 0, 1}   \* by the z of their normals: back, side, front

Vertices == 0 .. 2 * Lid + Wall - 1

\* three.js: the mesh of an extrusion without bevels, first the back, then the
\* front, then the sides.
NormalZ(v) == IF v < Lid THEN -1 ELSE IF v < 2 * Lid THEN 1 ELSE 0

GeometryInit ==
  /\ vertex = 0
  /\ groupCount = [f \in Faces |-> 0]
  /\ groupStart = [f \in Faces |-> Undefined]

Grouped == vertex = 2 * Lid + Wall

\* Mutant: the start of a group moves along with its vertices.
Started_Last(f) == vertex

Started(f) == IF groupStart[f] = Undefined THEN vertex ELSE groupStart[f]

\* One turn of the loop.
GroupVertex ==
  /\ ~Grouped
  /\ LET f == NormalZ(vertex) IN
     /\ groupCount' = [groupCount EXCEPT ![f] = @ + 1]
     /\ groupStart' = [groupStart EXCEPT ![f] = Started(f)]
  /\ vertex' = vertex + 1

GeometrySpec == GeometryInit /\ [][GroupVertex]_geometryVars

-----------------------------------------------------------------------------
\* Properties.

\* The group of a face, as addGroup is told it.
InGroup(v, f) ==
  groupStart[f] # Undefined /\ groupStart[f] <= v
                            /\ v < groupStart[f] + groupCount[f]

\* A first vertex and a count are enough: when the loop is done each vertex is in
\* the group of the face it belongs to and in no other, so the art is on the
\* front, the stock on the back and the ink on the edge.
GroupsAreTheFaces ==
  Grouped => \A v \in Vertices, f \in Faces : InGroup(v, f) <=> NormalZ(v) = f

\* getDimensions looks at the start of each curve only, and yet the texture
\* covers the card: no point of the outline is beyond its edges, and it is not
\* cut or stretched, since the outline reaches all four.
ArtFillsTheCard ==
  Grouped =>
    /\ \A p \in Outline : TopU(p) \in 0 .. 2 * Across
                          /\ TopV(p) \in 0 .. 2 * Upright
    /\ \E p, q \in Outline : TopU(p) = 0 /\ TopU(q) = 2 * Across
    /\ \E p, q \in Outline : TopV(p) = 0 /\ TopV(q) = 2 * Upright
=============================================================================
