------------------------------ MODULE GridData ------------------------------
(***************************************************************************)
(* The geometry and the state of a grid, core/Geometry and core/State:     *)
(* what the ranks do when an edit of the coordinates or of the flags ends. *)
(* Coordinates are exchanged, those beyond the global range moved by the   *)
(* periodic length, and the volumes of cells and of points computed and    *)
(* exchanged in turn.  The grid is rectilinear and coordinates integer;    *)
(* the three coordinate fields, exchanged together, travel as one.         *)
(***************************************************************************)
EXTENDS Fields

VARIABLE geometry \* geometry[r]: r's coordinates, cell volumes, volumes and periodic length

gridVars == <<vars, geometry>>

Over(over, r, v) == [p \in Points(FieldExtended(here.grid, over, r)) |-> v]

\* Coordinates are indices and volumes are one until somebody sets the coordinates.
GridInit ==
  /\ Init
  /\ geometry = [r \in Ranks |->
       [coords |-> [p \in Points(Extended(r)) |-> p],
        cells |-> Over("cells", r, 1),
        volumes |-> Over("points", r, 1),
        length |-> here.length]]

\* What a user who wants this coordinate system sets at a point.
UserCoords(op, p) == <<op.stretch * p[1] * p[1] + op.by, 3 * p[2]>>

\* No effect on the coordinates until they are edited again.
SetPeriodicLength(r) ==
  /\ Running(r) /\ stage[r] = "idle" /\ Operation(r).kind = "length"
  /\ geometry' = [geometry EXCEPT ![r].length = Operation(r).length]
  /\ FinishOperation(r)
  /\ UNCHANGED <<here, halos, collects, expected, barrier, mask, work, wait, mail, unions, floods>>

\* The rank has set the points of its own; the edit ends.
EditCoords(r) ==
  /\ Running(r) /\ stage[r] = "idle" /\ Operation(r).kind = "coords"
  /\ PostExchange("points", r,
       [p \in Points(Extended(r)) |->
          IF HasPoint(Local(r), p) THEN UserCoords(Operation(r), p) ELSE geometry[r].coords[p]])
  /\ stage' = [stage EXCEPT ![r] = "coords"]
  /\ UNCHANGED <<here, halos, collects, expected, barrier, done, mask, unions, floods, geometry>>

\* The point lies in another period.
InOtherPeriod(p) == Period(Cart, p) # <<0, 0>>
Beyond(p) == ~HasPoint(Cart.range, p)

Moved(r, p) ==
  LET x == work[r][p]
  IN IF Beyond(p) THEN [d \in Dims |-> x[d] + Period(Cart, p)[d] * geometry[r].length[d]] ELSE x

CellVolume(X, c) ==
  LET upper == X[<<c[1] + 1, c[2] + 1>>]
  IN (upper[1] - X[c][1]) * (upper[2] - X[c][2])

ComputeCellVolumes(r) ==
  /\ stage[r] = "coords" /\ ExchangeDone(r)
  /\ \E X \in {[p \in DOMAIN work[r] |-> Moved(r, p)]} :
       /\ geometry' = [geometry EXCEPT ![r].coords = X]
       /\ PostExchange("cells", r,
            [c \in DOMAIN geometry[r].cells |->
               IF HasPoint(FieldLocal(here.grid, "cells", r), c)
               THEN CellVolume(X, c) ELSE geometry[r].cells[c]])
  /\ stage' = [stage EXCEPT ![r] = "cells"]
  /\ UNCHANGED <<here, halos, collects, expected, barrier, done, mask, unions, floods>>

\* The average over the cells at a point, here as their sum and number.
CellsAt(r, p) ==
  Points(IntersectRanges(CellExtendedRange(Cart, Local(r)),
                         Box([d \in Dims |-> p[d] - 1], [d \in Dims |-> p[d] + 1])))
Average(V, cells) == <<MapThenSumSet(LAMBDA c : V[c], cells), Cardinality(cells)>>

AverageVolumes(r) ==
  /\ stage[r] = "cells" /\ ExchangeDone(r)
  /\ geometry' = [geometry EXCEPT ![r].cells = work[r]]
  /\ PostExchange("points", r,
       [p \in DOMAIN geometry[r].volumes |->
          IF HasPoint(Local(r), p) THEN Average(work[r], CellsAt(r, p)) ELSE geometry[r].volumes[p]])
  /\ stage' = [stage EXCEPT ![r] = "volumes"]
  /\ UNCHANGED <<here, halos, collects, expected, barrier, done, mask, unions, floods>>

FinishGeometry(r) ==
  /\ stage[r] = "volumes" /\ ExchangeDone(r)
  /\ geometry' = [geometry EXCEPT ![r].volumes = work[r]]
  /\ FinishOperation(r)
  /\ UNCHANGED <<here, halos, collects, expected, barrier, mask, work, wait, mail, unions, floods>>

\* The rank has set the flags of its own points; the edit ends.
EditFlags(r) ==
  /\ Running(r) /\ stage[r] = "idle" /\ Operation(r).kind = "flags"
  /\ PostExchange("points", r,
       [p \in Points(Extended(r)) |->
          IF HasPoint(Local(r), p) THEN p \in Operation(r).mask ELSE p \in mask[r]])
  /\ stage' = [stage EXCEPT ![r] = "flags"]
  /\ UNCHANGED <<here, halos, collects, expected, barrier, done, mask, unions, floods, geometry>>

FinishFlags(r) ==
  /\ stage[r] = "flags" /\ ExchangeDone(r)
  /\ mask' = [mask EXCEPT ![r] = {p \in DOMAIN work[r] : work[r][p]}]
  /\ FinishOperation(r)
  /\ UNCHANGED <<here, halos, collects, expected, barrier, work, wait, mail, unions, floods, geometry>>

\* All ranks have run their program.
Finished ==
  /\ \A r \in Ranks : ~Running(r)
  /\ UNCHANGED gridVars

Next ==
  \/ \E r \in Ranks :
       \/ FieldStep(r) /\ UNCHANGED geometry
       \/ SetPeriodicLength(r) \/ EditCoords(r)
       \/ ComputeCellVolumes(r) \/ AverageVolumes(r) \/ FinishGeometry(r)
       \/ EditFlags(r) \/ FinishFlags(r)
  \/ Finished

Spec == GridInit /\ [][Next]_gridVars

----------------------------------------------------------------------------
\* The grid in one place: coordinates and volumes of any point or cell, in whatever period.

LengthAt(n) ==
  LET sets == {k \in 1..n : here.program[k].kind = "length"}
  IN IF sets = {} THEN here.length ELSE here.program[Max(sets)].length

CoordsInOnePlace(n, p) ==
  LET x == UserCoords(here.program[n], Wrapped(Cart, p))
  IN IF HasPoint(Cart.range, p) THEN x
     ELSE [d \in Dims |-> x[d] + Period(Cart, p)[d] * LengthAt(n)[d]]

CellCart == CartPointToCell(Cart)
CellVolumeInOnePlace(n, c) ==
  LET own == PeriodicAdjust(CellCart, c)
      upper == CoordsInOnePlace(n, <<own[1] + 1, own[2] + 1>>)
      lower == CoordsInOnePlace(n, own)
  IN (upper[1] - lower[1]) * (upper[2] - lower[2])

VolumeInOnePlace(n, p) ==
  LET own == Wrapped(Cart, p)
      cells == {c \in {<<own[1] - i, own[2] - j>> : i \in 0..1, j \in 0..1} :
                  HasPoint(CellCart.range, PeriodicAdjust(CellCart, c))}
  IN Average([c \in cells |-> CellVolumeInOnePlace(n, c)], cells)

(* After an edit of the coordinates every rank has, halos included, the    *)
(* coordinates, cell volumes and volumes of the grid in one place: a point *)
(* of another period lies a periodic length away however often coordinates *)
(* or length have been set before, a duplicated point stays where it was   *)
(* put, and volumes are averaged over cells of neighbors that are of the   *)
(* new coordinates (geometry::OnCoordsEndEdit_).                           *)
GeometryAsInOnePlace ==
  \A r \in Ranks :
    stage[r] = "idle" /\ done[r] > 0 /\ here.program[done[r]].kind = "coords" =>
      LET g == geometry[r]
          n == done[r]
      IN /\ \A p \in DOMAIN g.coords : g.coords[p] = CoordsInOnePlace(n, p)
         /\ \A c \in DOMAIN g.cells : g.cells[c] = CellVolumeInOnePlace(n, c)
         /\ \A p \in DOMAIN g.volumes : g.volumes[p] = VolumeInOnePlace(n, p)
=============================================================================
