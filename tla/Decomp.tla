------------------------------- MODULE Decomp -------------------------------
(***************************************************************************)
(* Index ranges, carts and decompositions of core/Range, core/Cart and     *)
(* core/Decomp, and the maps of core/Halo, in two dimensions (the third    *)
(* has extent one).  A range is a box of points [begin, end); a cart is    *)
(* the global range of a grid with its periodic dimensions; a              *)
(* decomposition gives each rank a local range.  Carts are records         *)
(* [range, periodic, storage].                                             *)
(***************************************************************************)
EXTENDS Integers, Sequences, FiniteSets, FiniteSetsExt

Dims == 1..2
NoPoint == <<>>

\* The member of a set of one: Once({f(x) : x \in {e}}) is f(e), with e evaluated once.
Once(S) == CHOOSE v \in S : TRUE

----------------------------------------------------------------------------
\* Ranges

Box(b, e) == [begin |-> b, end |-> e]
Points(R) == {<<x, y>> : x \in R.begin[1] .. R.end[1] - 1, y \in R.begin[2] .. R.end[2] - 1}
Empty(R) == \E d \in Dims : R.end[d] <= R.begin[d]
HasPoint(R, p) == \A d \in Dims : R.begin[d] <= p[d] /\ p[d] < R.end[d]
Includes(R, S) ==
  Empty(S) \/ \A d \in Dims : R.begin[d] <= S.begin[d] /\ S.end[d] <= R.end[d]
RangesOverlap(R, S) ==
  /\ ~Empty(R) /\ ~Empty(S)
  /\ \A d \in Dims : S.end[d] > R.begin[d] /\ R.end[d] > S.begin[d]
IntersectRanges(R, S) ==
  Box([d \in Dims |-> Max({R.begin[d], S.begin[d]})],
      [d \in Dims |-> Min({R.end[d], S.end[d]})])
ClampToRange(R, p) ==
  [d \in Dims |-> Max({R.begin[d], Min({p[d], R.end[d] - 1})})]

\* The points next to p, and p itself.
Neighbors(p) == {<<x, y>> : x \in p[1] - 1 .. p[1] + 1, y \in p[2] - 1 .. p[2] + 1}

\* The order in which loops visit the points of a range.
VisitedBefore(p, q) == p[2] < q[2] \/ (p[2] = q[2] /\ p[1] < q[1])
InVisitOrder(S) ==
  [k \in 1..Cardinality(S) |->
     CHOOSE p \in S : Cardinality({q \in S : VisitedBefore(q, p)}) = k - 1]

----------------------------------------------------------------------------
\* Carts

PeriodSize(C, d) ==
  C.range.end[d] - C.range.begin[d]
    - (IF C.periodic[d] /\ C.storage = "DUPLICATED" THEN 1 ELSE 0)

PeriodicAdjust(C, p) ==
  [d \in Dims |-> IF C.periodic[d]
                  THEN C.range.begin[d] + ((p[d] - C.range.begin[d]) % PeriodSize(C, d))
                  ELSE p[d]]

Period(C, p) ==
  [d \in Dims |-> IF C.periodic[d]
                  THEN (p[d] - C.range.begin[d]) \div PeriodSize(C, d) ELSE 0]

\* The image of p in the range, NoPoint if there is none.
MapToRange(C, R, p) ==
  LET BeginPeriod == Period(C, R.begin)
      TuplePeriod == Period(C, p)
      InBeginPeriod == [d \in Dims |-> p[d] + PeriodSize(C, d) * (BeginPeriod[d] - TuplePeriod[d])]
      Mapped == [d \in Dims |-> IF InBeginPeriod[d] < R.begin[d]
                                THEN InBeginPeriod[d] + PeriodSize(C, d) ELSE InBeginPeriod[d]]
  IN IF HasPoint(R, Mapped) THEN Mapped ELSE NoPoint

\* The image of a range that meets R: as it is, with its first point in R, or a period to
\* the left.
NoRange == Box(<<0, 0>>, <<0, 0>>)
Shifted(S, by) == Box([d \in Dims |-> S.begin[d] + by[d]], [d \in Dims |-> S.end[d] + by[d]])
From(S, b) == Shifted(S, [d \in Dims |-> b[d] - S.begin[d]])
RangeInRange(C, R, S) ==
  LET lower == MapToRange(C, R, S.begin)
      Own == From(R, MapToRange(C, C.range, R.begin))
      Other == From(S, MapToRange(C, C.range, S.begin))
      shifts == {[d \in Dims |-> k[d] * PeriodSize(C, d)] : k \in {-1, 0} \X {-1, 0}}
      Meeting == {by \in shifts : RangesOverlap(Own, Shifted(Other, by))}
  IN IF RangesOverlap(R, S) THEN S
     ELSE IF lower # NoPoint THEN From(S, lower)
     ELSE IF Meeting = {} THEN NoRange
     ELSE Shifted(Other, CHOOSE by \in Meeting :
            \A other \in Meeting : other[2] < by[2] \/ (other[2] = by[2] /\ other[1] <= by[1]))

CartPointToCell(C) ==
  [C EXCEPT !.range = Box(C.range.begin,
                          [d \in Dims |-> IF C.periodic[d] /\ C.storage = "UNIQUE"
                                          THEN C.range.end[d] ELSE C.range.end[d] - 1]),
            !.storage = "UNIQUE"]

RangePointToCell(C, R) ==
  Box(R.begin, [d \in Dims |->
    IF R.end[d] # C.range.end[d] \/ (C.periodic[d] /\ C.storage = "UNIQUE")
    THEN R.end[d] ELSE R.end[d] - 1])

RangeCellToPointAll(C, R) == Box(R.begin, [d \in Dims |-> R.end[d] + 1])

CartIncludeExteriorPoint(C) ==
  [C EXCEPT !.range =
     Box([d \in Dims |-> IF C.periodic[d] THEN C.range.begin[d] ELSE C.range.begin[d] - 1],
         [d \in Dims |-> IF C.periodic[d] THEN C.range.end[d] ELSE C.range.end[d] + 1])]

RangeIncludeExteriorPoint(C, R) ==
  Box([d \in Dims |-> IF ~C.periodic[d] /\ R.begin[d] = C.range.begin[d]
                      THEN R.begin[d] - 1 ELSE R.begin[d]],
      [d \in Dims |-> IF ~C.periodic[d] /\ R.end[d] = C.range.end[d]
                      THEN R.end[d] + 1 ELSE R.end[d]])

----------------------------------------------------------------------------
\* Decompositions.  Local maps ranks to ranges.

ExtendLocalRange(C, L, n) ==
  Box([d \in Dims |-> IF L.begin[d] # C.range.begin[d] \/ C.periodic[d]
                      THEN L.begin[d] - n ELSE L.begin[d]],
      [d \in Dims |-> IF L.end[d] # C.range.end[d] \/ C.periodic[d]
                      THEN L.end[d] + n ELSE L.end[d]])

\* A grid extends its cells by two layers, and its points to the corners of these cells.
CellExtendedRange(C, L) == ExtendLocalRange(CartPointToCell(C), RangePointToCell(C, L), 2)
GridExtendedRange(C, L) == RangeCellToPointAll(C, CellExtendedRange(C, L))

\* The ranks that hold a point next to the local range.
DetectNeighbors(C, Local, r) ==
  LET Extended == Points(ExtendLocalRange(C, Local[r], 1)) \ Points(Local[r])
  IN {s \in DOMAIN Local \ {r} :
        \E p \in Extended : HasPoint(Local[s], PeriodicAdjust(C, p))}

----------------------------------------------------------------------------
\* Halo maps

Wrapped(C, p) == IF HasPoint(C.range, p) THEN p ELSE PeriodicAdjust(C, p)

\* The points of the range with this extended range that its rank gets from
\* the rank with that local range, in the order of the buffer.
HaloPoints(C, Own, Extended, Other) ==
  InVisitOrder(
    IF Includes(C.range, Extended)
    THEN Points(IntersectRanges(Extended, Other))
    ELSE {p \in Points(Extended) \ Points(Own) : HasPoint(Other, Wrapped(C, p))})

\* Where the sender finds the values, and where the receiver puts them.
SendIndices(C, Own, Neighbor, NeighborExtended) ==
  LET Theirs == HaloPoints(C, Neighbor, NeighborExtended, Own)
  IN [k \in DOMAIN Theirs |-> Wrapped(C, Theirs[k])]
RecvIndices(C, Own, Extended, Neighbor) == HaloPoints(C, Own, Extended, Neighbor)

\* With nothing copied.
LocalToNothing(C, Own, Extended) == [p \in {} |-> p]

\* Points that wrap onto the local range are copied, and from where.
LocalToLocal(C, Own, Extended) ==
  LET Inside == {p \in Points(Extended) \ Points(Own) : HasPoint(Own, PeriodicAdjust(C, p))}
  IN IF Includes(C.range, Extended) THEN [p \in {} |-> p]
     ELSE [p \in Inside |-> PeriodicAdjust(C, p)]

----------------------------------------------------------------------------
\* Collect maps.  A rank has cells, which need not be in its range as a whole.

IndexedBefore(p, q) == p[1] < q[1] \/ (p[1] = q[1] /\ p[2] < q[2])
InIndexOrder(S) ==
  [k \in 1..Cardinality(S) |->
     CHOOSE p \in S : Cardinality({q \in S : IndexedBefore(q, p)}) = k - 1]

\* Without wrapping.
VertexAsIs(C, cell, p) == p

Vertex(C, cell, p) == IF Includes(C.range, cell) THEN p ELSE PeriodicAdjust(C, p)
Vertices(C, cell) == {Vertex(C, cell, p) : p \in Points(cell)}

\* The vertices that a rank sends to another are those of its cells that the other has a
\* part in; it expects those that the other has of any of its cells.
CollectSends(C, Own, Neighbor, cells) ==
  InIndexOrder({p \in Points(Own) : \E c \in cells :
    p \in Vertices(C, c) /\ \E q \in Vertices(C, c) : HasPoint(Neighbor, q)})
CollectRecvs(C, Neighbor, cells) ==
  InIndexOrder({p \in Points(Neighbor) : \E c \in cells : p \in Vertices(C, c)})

\* The ranges under which rank r has the cell of a donor: the rank in whose part of the
\* cells it begins tells its neighbors, and moves it to their ranges.
KnownRanges(C, local, r, cell) ==
  LET owner == CHOOSE s \in DOMAIN local : HasPoint(RangePointToCell(C, local[s]), cell.begin)
  IN IF r = owner THEN {cell}
     ELSE IF r \in DetectNeighbors(C, local, owner)
          THEN {RangeInRange(C, local[r], cell)} \ {NoRange} ELSE {}
=============================================================================
