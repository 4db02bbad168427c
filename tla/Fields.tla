------------------------------- MODULE Fields -------------------------------
(***************************************************************************)
(* Distributed masks: DetectEdge, DilateMask, ErodeMask,                   *)
(* ConnectedComponents and FloodMask of core/DistributedFieldOps over the  *)
(* halo exchange of core/Halo, and the collects of core/Collect, which     *)
(* reduce a mask over the vertices of cells.  Each rank runs the same      *)
(* program of operations on its extended range.  An exchange posts to all  *)
(* neighbours, copies what wraps onto the own range, and unpacks messages  *)
(* as they come; a rank may be an exchange ahead of its neighbours.  MPI   *)
(* keeps the order of the messages between two ranks.  Collective calls    *)
(* (MPI_Scan, MPI_Allgather, MPI_Allreduce) are steps that wait for those  *)
(* who contribute.                                                         *)
(***************************************************************************)
EXTENDS Masks, UnionFind

\* Each case is a grid (a cart and the local ranges by rank), a program and two masks.
CONSTANT Cases

VARIABLES
  here,     \* the case
  halos,    \* halos[over][r]: the halo map of r's partition, see Partitions
  collects, \* collects[n][r]: the collect map of r for operation n
  expected, \* what the case should give, in one place
  done,     \* done[r]: operations that r has finished
  stage,    \* stage[r]: where it is in the next
  mask,     \* mask[r]: the points of its extended range where the mask is set
  barrier,  \* barrier[r]: the same of the barrier
  work,     \* work[r]: the edge mask, labels or vertex values being exchanged, cells' values
  wait,     \* wait[r]: neighbours whose message r has not unpacked
  mail,     \* mail[s][r]: messages from s to r, in order
  unions,   \* unions[r]: the pairs of labels that r contributes to the gather
  floods    \* floods[r]: the labels that r contributes to the reduction

vars == <<here, halos, collects, expected, done, stage, mask, barrier, work, wait, mail, unions, floods>>

Cart == here.grid.cart
Ranks == DOMAIN here.grid.local
Local(r) == here.grid.local[r]

\* A field is over the grid's points, over these and its exterior points, or over its cells.
Partitions == {"points", "exterior", "cells"}
FieldCart(G, over) ==
  CASE over = "points" -> G.cart
    [] over = "exterior" -> CartIncludeExteriorPoint(G.cart)
    [] over = "cells" -> CartPointToCell(G.cart)
FieldLocal(G, over, r) ==
  CASE over = "points" -> G.local[r]
    [] over = "exterior" -> RangeIncludeExteriorPoint(G.cart, G.local[r])
    [] over = "cells" -> RangePointToCell(G.cart, G.local[r])
FieldExtended(G, over, r) ==
  CASE over = "points" -> GridExtendedRange(G.cart, G.local[r])
    [] over = "exterior" -> RangeIncludeExteriorPoint(G.cart, GridExtendedRange(G.cart, G.local[r]))
    [] over = "cells" -> CellExtendedRange(G.cart, G.local[r])

\* The halo map that rank r builds with a partition.
HaloMap(G, over, r) ==
  LET C == FieldCart(G, over)
      Own == FieldLocal(G, over, r)
      Extended == FieldExtended(G, over, r)
      ranks == DetectNeighbors(G.cart, G.local, r)
  IN [neighbors |-> ranks, extended |-> Extended,
      send |-> [s \in ranks |-> SendIndices(C, Own, FieldLocal(G, over, s),
                                            FieldExtended(G, over, s))],
      recv |-> [s \in ranks |-> RecvIndices(C, Own, Extended, FieldLocal(G, over, s))],
      copy |-> LocalToLocal(C, Own, Extended)]

HaloMaps(G) ==
  [over \in Partitions |-> [r \in DOMAIN G.local |-> HaloMap(G, over, r)]]

\* The collect map that rank r builds of the cells it has been told of.
CollectMap(G, cells, r) ==
  LET knownto(s) == UNION {KnownRanges(G.cart, G.local, s, c) : c \in cells}
      ranks == DetectNeighbors(G.cart, G.local, r)
  IN Once({[cells |-> [c \in cells |-> KnownRanges(G.cart, G.local, r, c)],
            send |-> [s \in ranks |-> CollectSends(G.cart, G.local[r], G.local[s], known)],
            recv |-> [s \in ranks |-> CollectRecvs(G.cart, G.local[s], known)]] :
           known \in {knownto(r)}})

CollectMaps(c) ==
  [n \in {i \in DOMAIN c.program : c.program[i].kind = "collect"} |->
     [r \in DOMAIN c.grid.local |-> CollectMap(c.grid, c.program[n].cells, r)]]

Halo(over, r) == halos[over][r]
Extended(r) == Halo("points", r).extended
NeighborRanks(r) == Halo("points", r).neighbors

Stages == <<"idle", "edges", "collect", "labels", "gather", "roots", "reduce">>
StageNumber(s) == CHOOSE n \in 1..Len(Stages) : Stages[n] = s

\* A rank has come to this stage of the operation that r is in.
HasReached(s, r, where) ==
  \/ done[s] > done[r]
  \/ done[s] = done[r] /\ StageNumber(stage[s]) >= StageNumber(where)

Running(r) == done[r] < Len(here.program)
Operation(r) == here.program[done[r] + 1]

AfterOperation(C, M, B, op) ==
  CASE op.kind = "edge" -> M
    [] op.kind = "dilate" -> Dilate(C, M, 1, op.bc)
    [] op.kind = "erode" -> Erode(C, M, 1, op.bc)
    [] op.kind = "flood" -> Flood(C, M, B)
    [] op.kind = "flags" -> op.mask
    [] OTHER -> M

\* What the values of a cell's vertices are reduced to.
CollectAll(values) == values = {TRUE}
CollectAny(values) == TRUE \in values
CollectNone(values) == values = {FALSE}
CollectNotAll(values) == FALSE \in values
Reduction(values, reduce) ==
  CASE reduce = "ALL" -> CollectAll(values)
    [] reduce = "ANY" -> CollectAny(values)
    [] reduce = "NONE" -> CollectNone(values)
    [] reduce = "NOT_ALL" -> CollectNotAll(values)

\* What a case should give: the mask after each operation, the edge each finds, the value
\* of each cell, and the connected part of each point on its side of the barrier.
Expected(c) ==
  LET C == c.grid.cart
      After[n \in 0..Len(c.program)] ==
        IF n = 0 THEN c.mask
        ELSE UNION {AfterOperation(C, M, c.barrier, c.program[n]) : M \in {After[n - 1]}}
      Kinds == {c.program[n].kind : n \in DOMAIN c.program}
  IN [masks |-> After,
      edges |-> [n \in {i \in DOMAIN c.program : c.program[i].kind = "edge"} |->
                   LET op == c.program[n]
                   IN EdgeOf(C, After[n], op.type, op.bc, op.exterior)],
      collects |-> [n \in {i \in DOMAIN c.program : c.program[i].kind = "collect"} |->
                      [cell \in c.program[n].cells |->
                         Reduction({(PeriodicAdjust(C, p) \in After[n]) : p \in Points(cell)},
                                   c.program[n].reduce)]],
      parts |-> [p \in IF "flood" \in Kinds THEN Points(C.range) ELSE {} |->
                   Reachable(C, {p}, {q \in Points(C.range) : (q \in c.barrier) = (p \in c.barrier)})]]

\* What a rank's field holds when it agrees with a mask in one place.
PartOf(r, M) == {p \in Points(Extended(r)) : PeriodicAdjust(Cart, p) \in M}

Init ==
  /\ here \in Cases
  /\ halos = HaloMaps(here.grid)
  /\ collects = CollectMaps(here)
  /\ expected = Expected(here)
  /\ done = [r \in Ranks |-> 0]
  /\ stage = [r \in Ranks |-> "idle"]
  /\ mask = [r \in Ranks |-> PartOf(r, here.mask)]
  /\ barrier = [r \in Ranks |-> PartOf(r, here.barrier)]
  /\ work = [r \in Ranks |-> <<>>]
  /\ wait = [r \in Ranks |-> {}]
  /\ mail = [r \in Ranks |-> [s \in Ranks |-> <<>>]]
  /\ unions = [r \in Ranks |-> {}]
  /\ floods = [r \in Ranks |-> {}]

----------------------------------------------------------------------------
\* The halo exchange of field F.

Message(over, r, s, F) ==
  LET indices == Halo(over, r).send[s] IN [k \in DOMAIN indices |-> F[indices[k]]]

CopiedLocally(over, r, F) ==
  LET source == Halo(over, r).copy
  IN [p \in DOMAIN F |-> IF p \in DOMAIN source THEN F[source[p]] ELSE F[p]]

\* Receives are posted, messages packed and sent, and local copies made.
PostExchange(over, r, F) ==
  /\ mail' = [mail EXCEPT ![r] =
       [s \in Ranks |-> IF s \in NeighborRanks(r)
                        THEN Append(@[s], Message(over, r, s, F)) ELSE @[s]]]
  /\ work' = [work EXCEPT ![r] = CopiedLocally(over, r, F)]
  /\ wait' = [wait EXCEPT ![r] = NeighborRanks(r)]

\* What the field that r works on in this stage is over.
EdgeOver(op) == IF op.kind = "edge" /\ op.exterior THEN "exterior" ELSE "points"
WorkOver(r) ==
  CASE stage[r] = "edges" -> EdgeOver(Operation(r))
    [] stage[r] = "cells" -> "cells"
    [] OTHER -> "points"

\* The collect map of the operation that r is in.
Map(r) == collects[done[r] + 1][r]
KnownCells(r) == UNION {Map(r).cells[c] : c \in DOMAIN Map(r).cells}

\* One of the receives completes.
Unpack(r, s) ==
  /\ s \in wait[r]
  /\ mail[s][r] # <<>>
  /\ LET indices == IF stage[r] = "collect" THEN Map(r).recv[s]
                    ELSE Halo(WorkOver(r), r).recv[s]
         values == Head(mail[s][r])
     IN work' = [work EXCEPT ![r] =
          [p \in DOMAIN @ |-> IF \E k \in DOMAIN indices : indices[k] = p
                              THEN values[CHOOSE k \in DOMAIN indices : indices[k] = p]
                              ELSE @[p]]]
  /\ mail' = [mail EXCEPT ![s][r] = Tail(@)]
  /\ wait' = [wait EXCEPT ![r] = @ \ {s}]
  /\ UNCHANGED <<here, halos, collects, expected, barrier, done, stage, mask, unions, floods>>

ExchangeDone(r) == wait[r] = {}

----------------------------------------------------------------------------
\* DetectEdge and what DilateErode does with the edge

\* Seeing what is not there as beyond any boundary.
SeenAsBeyond(r, bc, p) == IF HasPoint(Extended(r), p) THEN p \in mask[r] ELSE bc = "TRUE"

\* The value of the mask as rank r sees it.
SeenValue(r, bc, p) ==
  IF HasPoint(Extended(r), p) THEN p \in mask[r]
  ELSE \/ bc = "TRUE"
       \/ bc = "MIRROR" /\ ClampToRange(Cart.range, p) \in mask[r]

LocalEdge(r, type, bc, over) ==
  {p \in Points(FieldLocal(here.grid, over, r)) :
     LET v == SeenValue(r, bc, p)
     IN v = (type = "INNER") /\ \E q \in Neighbors(p) : SeenValue(r, bc, q) # v}

EdgeType(op) ==
  CASE op.kind = "edge" -> op.type
    [] op.kind = "dilate" -> "OUTER"
    [] op.kind = "erode" -> "INNER"

DetectEdge(r) ==
  /\ Running(r) /\ stage[r] = "idle" /\ Operation(r).kind \in {"edge", "dilate", "erode"}
  /\ LET op == Operation(r)
         over == EdgeOver(op)
         Edge == LocalEdge(r, EdgeType(op), op.bc, over)
     IN PostExchange(over, r, [p \in Points(Halo(over, r).extended) |-> p \in Edge])
  /\ stage' = [stage EXCEPT ![r] = "edges"]
  /\ UNCHANGED <<here, halos, collects, expected, barrier, done, mask, unions, floods>>

FinishOperation(r) ==
  /\ done' = [done EXCEPT ![r] = @ + 1]
  /\ stage' = [stage EXCEPT ![r] = "idle"]

UseEdge(r) ==
  /\ stage[r] = "edges" /\ ExchangeDone(r)
  /\ LET Edge == {p \in DOMAIN work[r] : work[r][p]}
     IN mask' = [mask EXCEPT ![r] =
          CASE Operation(r).kind = "edge" -> @
            [] Operation(r).kind = "dilate" -> @ \union Edge
            [] Operation(r).kind = "erode" -> @ \ Edge]
  /\ FinishOperation(r)
  /\ UNCHANGED <<here, halos, collects, expected, barrier, work, wait, mail, unions, floods>>

----------------------------------------------------------------------------
\* Collect: the values of vertices on other ranks are retrieved, those of each cell reduced.

\* Vertices that nobody sends keep what the buffer held.
PostCollect(r) ==
  /\ Running(r) /\ stage[r] = "idle" /\ Operation(r).kind = "collect"
  /\ mail' = [mail EXCEPT ![r] = [s \in Ranks |->
       IF s \in NeighborRanks(r) /\ Map(r).send[s] # <<>>
       THEN Append(@[s], [k \in DOMAIN Map(r).send[s] |-> Map(r).send[s][k] \in mask[r]])
       ELSE @[s]]]
  /\ wait' = [wait EXCEPT ![r] = {s \in NeighborRanks(r) : Map(r).recv[s] # <<>>}]
  /\ \E stale \in BOOLEAN :
       work' = [work EXCEPT ![r] =
         [p \in UNION {Vertices(Cart, c) : c \in KnownCells(r)} |->
            IF HasPoint(Local(r), p) THEN p \in mask[r]
            ELSE stale /\ ~\E s \in NeighborRanks(r) : HasPoint(Local(s), p)]]
  /\ stage' = [stage EXCEPT ![r] = "collect"]
  /\ UNCHANGED <<here, halos, collects, expected, barrier, done, mask, unions, floods>>

\* All requests have completed (MPI_Waitall).
Collect(r) ==
  /\ stage[r] = "collect" /\ ExchangeDone(r)
  /\ work' = [work EXCEPT ![r] = [c \in KnownCells(r) |->
       Reduction({@[p] : p \in Vertices(Cart, c)}, Operation(r).reduce)]]
  /\ FinishOperation(r)
  /\ UNCHANGED <<here, halos, collects, expected, barrier, mask, wait, mail, unions, floods>>

----------------------------------------------------------------------------
\* FloodMask, by ConnectedComponents of the barrier

SameSide(r, p, q) == (p \in barrier[r]) = (q \in barrier[r])

\* The connected part of p within the local range.
LocalPart(r, p) ==
  LET Inside == Points(Local(r))
      Grown(S) == {q \in Inside : q \in S \/ (SameSide(r, p, q) /\ Neighbors(q) \intersect S # {})}
      Reached[n \in 0..Cardinality(Inside)] ==
        IF n = 0 THEN {p} ELSE UNION {Grown(S) : S \in {Reached[n - 1]}}
  IN Reached[Cardinality(Inside)]

LocalParts(r) == {LocalPart(r, p) : p \in Points(Local(r))}
FirstOf(S) == CHOOSE p \in S : \A q \in S \ {p} : VisitedBefore(p, q)

\* Counting from zero on every rank.
LabelsFromZero(r) ==
  LET parts == LocalParts(r)
      firsts == {FirstOf(S) : S \in parts}
      Label(S) == Cardinality({p \in firsts : VisitedBefore(p, FirstOf(S))})
  IN [p \in Points(Extended(r)) |->
        IF HasPoint(Local(r), p) THEN Label(CHOOSE S \in parts : p \in S) ELSE -1]

\* Labels given out before parts that meet later are united: every point that has no
\* labelled neighbor on its side gets a new one.
NumLocalComponents(r) ==
  Cardinality({p \in Points(Local(r)) :
    ~\E q \in Neighbors(p) \intersect Points(Local(r)) : VisitedBefore(q, p) /\ SameSide(r, p, q)})

\* The parts of this rank are numbered after the labels of all lower ranks (MPI_Scan), here
\* in the order of their first points; what number a part has does not matter.
LocalLabels(r) ==
  LET Offset == MapThenSumSet(NumLocalComponents, {q \in Ranks : q < r})
      parts == LocalParts(r)
      firsts == {FirstOf(S) : S \in parts}
      Label(S) == Offset + Cardinality({p \in firsts : VisitedBefore(p, FirstOf(S))})
  IN [p \in Points(Extended(r)) |->
        IF HasPoint(Local(r), p) THEN Label(CHOOSE S \in parts : p \in S) ELSE -1]

LabelComponents(r) ==
  /\ Running(r) /\ stage[r] = "idle" /\ Operation(r).kind = "flood"
  /\ \A s \in Ranks : s < r => HasReached(s, r, "idle")
  /\ PostExchange("points", r, LocalLabels(r))
  /\ stage' = [stage EXCEPT ![r] = "labels"]
  /\ UNCHANGED <<here, halos, collects, expected, barrier, done, mask, unions, floods>>

\* Labels of adjacent points on the same side, one of them beyond the local range.
GatherUnions(r) ==
  /\ stage[r] = "labels" /\ ExchangeDone(r)
  /\ unions' = [unions EXCEPT ![r] =
       {<<work[r][p], work[r][q]>> :
          <<p, q>> \in {pq \in Points(Local(r)) \X (Points(Extended(r)) \ Points(Local(r))) :
                          pq[2] \in Neighbors(pq[1]) /\ SameSide(r, pq[1], pq[2])}}]
  /\ stage' = [stage EXCEPT ![r] = "gather"]
  /\ UNCHANGED <<here, halos, collects, expected, barrier, done, mask, work, wait, mail, floods>>

PairBefore(a, b) == a[1] < b[1] \/ (a[1] = b[1] /\ a[2] < b[2])
InPairOrder(S) ==
  [k \in 1..Cardinality(S) |->
     CHOOSE a \in S : Cardinality({b \in S : PairBefore(b, a)}) = k - 1]

\* The unions of all ranks, one rank after the other (MPI_Allgatherv).
GlobalUnions ==
  LET UpTo[n \in 0..Cardinality(Ranks)] ==
        IF n = 0 THEN <<>> ELSE UpTo[n - 1] \o InPairOrder(unions[n - 1])
  IN UpTo[Cardinality(Ranks)]

FindRoots(r) ==
  /\ stage[r] = "gather"
  /\ \A s \in Ranks : HasReached(s, r, "gather")
  /\ LET own == {work[r][p] : p \in Points(Local(r))}
         sets == Relabel(UniteAll(Singletons(own), GlobalUnions))
     IN PostExchange("points", r, [p \in DOMAIN work[r] |->
          IF p \in Points(Local(r)) THEN Find(sets, work[r][p]) ELSE work[r][p]])
  /\ stage' = [stage EXCEPT ![r] = "roots"]
  /\ UNCHANGED <<here, halos, collects, expected, barrier, done, mask, unions, floods>>

\* Labels that flood points have, to be reduced over the ranks.
FloodLabels(r, labels) == {labels[p] : p \in mask[r] \ barrier[r]}

\* Labels are looked up in GlobalRootToContiguous.  A point that nobody sends still has -1:
\* what is read in front of the array may be the label of any part, or of none.
LookedUp(r) ==
  {[p \in DOMAIN work[r] |-> IF work[r][p] = -1 THEN x ELSE work[r][p]] :
     x \in IF -1 \in Range(work[r]) THEN UNION {Range(work[s]) : s \in Ranks} ELSE {-1}}

ReduceLabels(r) ==
  /\ stage[r] = "roots" /\ ExchangeDone(r)
  /\ \E labels \in LookedUp(r) :
       /\ work' = [work EXCEPT ![r] = labels]
       /\ floods' = [floods EXCEPT ![r] = FloodLabels(r, labels)]
  /\ stage' = [stage EXCEPT ![r] = "reduce"]
  /\ UNCHANGED <<here, halos, collects, expected, barrier, done, mask, wait, mail, unions>>

FloodMask(r) ==
  /\ stage[r] = "reduce"
  /\ \A s \in Ranks : HasReached(s, r, "reduce")
  /\ LET flooded == UNION {floods[s] : s \in Ranks}
     IN mask' = [mask EXCEPT ![r] =
          @ \union {p \in Points(Extended(r)) \ barrier[r] : work[r][p] \in flooded}]
  /\ FinishOperation(r)
  /\ UNCHANGED <<here, halos, collects, expected, barrier, work, wait, mail, unions, floods>>

\* A step of rank r.
FieldStep(r) ==
  \/ DetectEdge(r) \/ UseEdge(r)
  \/ PostCollect(r) \/ Collect(r)
  \/ LabelComponents(r) \/ GatherUnions(r) \/ FindRoots(r) \/ ReduceLabels(r)
  \/ FloodMask(r)
  \/ \E s \in Ranks : Unpack(r, s)

----------------------------------------------------------------------------
(* Neighbors are the ranks that hold points next to the local range; the   *)
(* halo is up to three points deep.  On ranks less than three points wide  *)
(* it has points of ranks that are no neighbors, and nobody sends those.   *)
Width(R, d) == R.end[d] - R.begin[d]
RanksAreWide ==
  \A r \in Ranks, d \in Dims : Width(Local(r), d) >= Min({3, Width(Cart.range, d)})
HeldNearby(r) ==
  {p \in Points(Extended(r)) :
     \E s \in NeighborRanks(r) \union {r} : HasPoint(Local(s), PeriodicAdjust(Cart, p))}
Covered(r) == IF RanksAreWide THEN Points(Extended(r)) ELSE HeldNearby(r)

(* After each operation every rank's mask, halos included, is the part of  *)
(* the mask that the same operations give in one place: halo maps of sender *)
(* and receiver match, no value of another exchange is used, and corners,  *)
(* wrapped points and boundary conditions count the same on all ranks.     *)
(* Where ranks are less than three points wide, it is so of the points     *)
(* that a neighbor holds, and until a mask is flooded.                     *)
HasFlooded(r) == \E n \in 1..done[r] : here.program[n].kind = "flood"
MasksAsInOnePlace ==
  \A r \in Ranks :
    stage[r] = "idle" /\ (RanksAreWide \/ ~HasFlooded(r)) =>
      mask[r] \intersect Covered(r) = PartOf(r, expected.masks[done[r]]) \intersect Covered(r)

(* The edge that DetectEdge leaves on a rank, exterior points and halos    *)
(* included, is its part of the edge in one place, where ranks are three   *)
(* points wide.                                                            *)
EdgesAsInOnePlace ==
  \A r \in Ranks :
    RanksAreWide /\ stage[r] = "idle" /\ done[r] \in DOMAIN expected.edges =>
      LET over == EdgeOver(here.program[done[r]])
          Edge == expected.edges[done[r]]
      IN \A p \in DOMAIN work[r] :
           work[r][p] = (PeriodicAdjust(FieldCart(here.grid, over), p) \in Edge)

(* Every rank that knows a cell, be it under another period's indices,     *)
(* reduces it to the value it has in one place: the vertices that ranks    *)
(* send and expect match in number and order.                              *)
CollectsAsInOnePlace ==
  \A r \in Ranks :
    stage[r] = "idle" /\ done[r] \in DOMAIN expected.collects =>
      \A cell \in here.program[done[r]].cells :
        \A known \in collects[done[r]][r].cells[cell] :
          work[r][known] = expected.collects[done[r]][cell]

(* Ranks name connected parts of the barrier and its complement alike:     *)
(* points on any ranks have one label exactly when they are connected, so  *)
(* all ranks have found the same root for the labels they gathered; in the *)
(* halo, of points that a neighbor holds if ranks are not three wide.      *)
LabelsNameParts ==
  \A r, s \in Ranks :
    stage[r] = "reduce" /\ stage[s] = "reduce" =>
      \A p \in Covered(r) :
        LET part == expected.parts[Wrapped(Cart, p)]
        IN \A q \in Covered(s) :
             (work[r][p] = work[s][q]) = (Wrapped(Cart, q) \in part)

(* A label is an index into an array of components                         *)
(* (GlobalRootToContiguous(Label)): after the exchange none is still the   *)
(* initial -1 if all ranks are at least three points wide.  If they are    *)
(* not, there may be some that are read with -1: then none is that of a    *)
(* point a neighbor holds, among them all that are next to the rank's own. *)
LabelsKnown ==
  \A r \in Ranks : stage[r] \in {"gather", "reduce"} =>
    \A p \in Covered(r) : work[r][p] >= 0

(* Labels in the halos are as good as those of points of the rank's own,   *)
(* wherever ranks are three points wide or a neighbor holds the point.     *)
LabelsAsInOnePlace == LabelsKnown /\ LabelsNameParts
=============================================================================
