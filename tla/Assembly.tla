------------------------------ MODULE Assembly ------------------------------
(***************************************************************************)
(* The stages of assembler::Assemble (core/AssemblerAssembly.cpp), from    *)
(* the user's state flags to receivers and donors.  Masks are in one place *)
(* here: Fields shows that the ranks of a grid agree with that.  What      *)
(* overlaps what geometrically is given: OverlapSearch shows how it is     *)
(* found.  A grid is a cart, the local ranges of its ranks and the volume  *)
(* of its cells, which is uniform.                                         *)
(***************************************************************************)
EXTENDS Masks

\* A case is the grids (numbered from 1), the user's flags, the geometry meets[<<m, n>>]
\* (a function from points of n to the cells of m that hold them), and the options of
\* each assembly that the program runs.
CONSTANT Cases

\* What a grid takes for its cart.
CartOK(C) ==
  /\ C \in [range : [begin : [Dims -> Int], end : [Dims -> Int]],
            periodic : [Dims -> BOOLEAN], storage : {"UNIQUE"}]
  /\ \A d \in Dims : C.range.begin[d] < C.range.end[d]

\* What the ranks of a grid take for their local ranges: each point is on one rank.
LocalOK(C, Local) ==
  /\ \A r \in DOMAIN Local :
       /\ Local[r] \in [begin : [Dims -> Int], end : [Dims -> Int]]
       /\ ~Empty(Local[r]) /\ Includes(C.range, Local[r])
  /\ \A p \in Points(C.range) : \E r \in DOMAIN Local : HasPoint(Local[r], p)
  /\ \A r, s \in DOMAIN Local : r # s => ~RangesOverlap(Local[r], Local[s])

\* Flags are of points of their grid, and options have values of their types.
ASSUME CasesAssumption ==
  \A c \in Cases :
    /\ IsFiniteSet(DOMAIN c.grids) /\ DOMAIN c.grids = 1 .. Cardinality(DOMAIN c.grids)
    /\ c.options \in Seq({c.options[t] : t \in DOMAIN c.options}) /\ Len(c.options) > 0
    /\ \A g \in DOMAIN c.grids :
         /\ CartOK(c.grids[g].cart) /\ LocalOK(c.grids[g].cart, c.grids[g].local)
         /\ \A f \in {"ACTIVE", "DOMAIN_BOUNDARY", "INTERNAL_BOUNDARY"} :
              c.flags[g][f] \subseteq Points(c.grids[g].cart.range)
         /\ \A t \in DOMAIN c.options :
              /\ c.options[t].fringeSize[g] \in Nat
              /\ \A h \in DOMAIN c.grids \ {g} :
                   c.options[t].occludes[<<g, h>>] \in {"NONE", "ALL", "COARSE"}

VARIABLES
  here,        \* the case
  turn,        \* the assembly that runs
  stage,       \* what it does next
  flags,       \* flags[g][f]: points of g with flag f
  aux,         \* local_grid_aux_data of each grid: masks made of the flags
  overlap,     \* overlap[<<m, n>>]: the overlap object, points to cells
  overlapMask, \* local_overlap_n_aux_data: points of n that m may serve
  pairwise,    \* assembly_data.PairwiseOcclusionMasks
  fringe,      \* assembly_data: OuterFringeMasks, InnerFringeMasks by grid
  occlusion,   \* assembly_data.OcclusionMasks
  donors,      \* connectivity M: donors[<<m, n>>][rank], by destination
  receivers    \* connectivity N: receivers[<<m, n>>]: points to lower corners of donors

stageVars == <<here, turn, stage, flags, aux, overlap, overlapMask, pairwise, fringe, occlusion,
          donors, receivers>>
geometry == <<here, turn>>

Grids == DOMAIN here.grids
Cart(g) == here.grids[g].cart
All(g) == Points(Cart(g).range)
Volume(g) == here.grids[g].volume
Pairs == {id \in Grids \X Grids : id[1] # id[2]}
Option == here.options[turn]

UserFlags == {"ACTIVE", "DOMAIN_BOUNDARY", "INTERNAL_BOUNDARY"}
AllAssemblyFlags ==
  {"OVERLAPPED", "INFERRED_DOMAIN_BOUNDARY", "BOUNDARY_HOLE", "OCCLUDED", "FRINGE",
   "OUTER_FRINGE", "INNER_FRINGE", "OVERLAP_MINIMIZED", "RECEIVER", "ORPHAN"}

\* The corners of a cell, mapped into the range.
Corners(C, c) == {Wrapped(C, <<x, y>>) : x \in {c[1], c[1] + 1}, y \in {c[2], c[2] + 1}}
Cells(C) == Points(CartPointToCell(C).range)

Activity(C, f) ==
  [active |-> f["ACTIVE"],
   cellActive |-> {c \in Cells(C) : Corners(C, c) \subseteq f["ACTIVE"]},
   domainBoundary |-> f["ACTIVE"] \intersect f["DOMAIN_BOUNDARY"],
   internalBoundary |-> f["ACTIVE"] \intersect f["INTERNAL_BOUNDARY"]]

\* Sets and clears flags of points of a grid.
SetFlags(f, names, S) == [x \in DOMAIN f |-> IF x \in names THEN f[x] \union S ELSE f[x]]
ResetFlags(f, names, S) == [x \in DOMAIN f |-> IF x \in names THEN f[x] \ S ELSE f[x]]

Started(f) ==
  [x \in UserFlags \union AllAssemblyFlags |-> IF x \in UserFlags THEN f[x] ELSE {}]

Nothing == [id \in {} |-> {}]

StagesInit ==
  /\ here \in Cases
  /\ turn = 1
  /\ stage = "InitializeAssembly"
  /\ flags = [g \in Grids |-> Started(here.flags[g])]
  /\ aux = <<>>
  /\ overlap = Nothing /\ overlapMask = Nothing
  /\ pairwise = Nothing
  /\ fringe = [outer |-> Nothing, inner |-> Nothing]
  /\ occlusion = Nothing
  /\ donors = Nothing /\ receivers = Nothing

----------------------------------------------------------------------------
InitializeAssemblyWithout ==
  /\ stage = "InitializeAssembly"
  /\ flags' = [g \in Grids |-> Started(ResetFlags(flags[g], {"DOMAIN_BOUNDARY"},
                                                 flags[g]["INFERRED_DOMAIN_BOUNDARY"]))]
  /\ aux' = [g \in Grids |-> Activity(Cart(g), flags'[g])]
  /\ stage' = "DetectOverlap"
  /\ UNCHANGED <<geometry, overlap, overlapMask, pairwise, fringe, occlusion, donors, receivers>>

\* Earlier results are taken back: points that an assembly removed are active again,
\* boundaries it inferred are none.
InitializeAssembly ==
  /\ stage = "InitializeAssembly"
  /\ LET Restored(f) ==
           LET Back == SetFlags(f, {"ACTIVE"}, f["BOUNDARY_HOLE"] \union f["OVERLAP_MINIMIZED"])
           IN Started(ResetFlags(Back, {"DOMAIN_BOUNDARY"}, f["INFERRED_DOMAIN_BOUNDARY"]))
     IN /\ flags' = [g \in Grids |-> Restored(flags[g])]
        /\ aux' = [g \in Grids |-> Activity(Cart(g), flags'[g])]
  /\ stage' = "DetectOverlap"
  /\ UNCHANGED <<geometry, overlap, overlapMask, pairwise, fringe, occlusion, donors, receivers>>

----------------------------------------------------------------------------
\* Active points in active cells of grids that may overlap theirs.  Overlaps that an
\* earlier assembly left are replaced.
FoundOverlap(m, n) ==
  LET cell == here.meets[<<m, n>>]
  IN [p \in {q \in DOMAIN cell : q \in aux[n].active /\ cell[q] \in aux[m].cellActive}
        |-> cell[p]]

DetectOverlap ==
  /\ stage = "DetectOverlap"
  /\ LET Exists == {id \in Pairs : Option.overlappable[id] /\ DOMAIN FoundOverlap(id[1], id[2]) # {}}
     IN /\ overlap' = [id \in Exists |-> FoundOverlap(id[1], id[2])]
        /\ overlapMask' = [id \in Exists |-> DOMAIN overlap'[id]]
        /\ flags' = [n \in Grids |-> SetFlags(flags[n], {"OVERLAPPED"},
                       UNION {DOMAIN overlap'[id] : id \in {i \in Exists : i[2] = n}})]
  /\ stage' = "InferBoundaries"
  /\ UNCHANGED <<geometry, aux, pairwise, fringe, occlusion, donors, receivers>>

Overlaps == DOMAIN overlap

----------------------------------------------------------------------------
\* Edges of the active part that no grid overlaps are domain boundaries.
Inferred(n) ==
  IF ~Option.inferBoundaries[n] THEN {}
  ELSE (EdgeOf(Cart(n), aux[n].active, "INNER", "FALSE", FALSE) \ aux[n].domainBoundary)
         \ UNION {DOMAIN overlap[id] : id \in {i \in Overlaps : i[2] = n}}

InferBoundaries ==
  /\ stage = "InferBoundaries"
  /\ flags' = [n \in Grids |->
       SetFlags(flags[n], {"DOMAIN_BOUNDARY", "INFERRED_DOMAIN_BOUNDARY"}, Inferred(n))]
  /\ aux' = [n \in Grids |-> [aux[n] EXCEPT !.domainBoundary = @ \union Inferred(n)]]
  /\ stage' = "CutBoundaryHoles"
  /\ UNCHANGED <<geometry, overlap, overlapMask, pairwise, fringe, occlusion, donors, receivers>>

----------------------------------------------------------------------------
\* CutBoundaryHoles: the grid n is cut by the boundary of the grid m.

CutPairs ==
  {id \in Overlaps : Option.cutBoundaryHoles[id] /\ <<id[2], id[1]>> \in Overlaps}

\* Points of n at the corners of its cells that hold points S of m (a reverse exchange).
CoverMask(m, n, S) ==
  LET cell == overlap[<<n, m>>]
  IN UNION {Corners(Cart(n), cell[p]) : p \in S \intersect DOMAIN cell}

\* How often the cover of the edge of the overlap is dilated until it covers the edge of
\* what m overlaps.  (The loop ends: a cover that is not empty grows to the whole grid.)
NumDilates(m, n) ==
  LET Edge == EdgeOf(Cart(m), overlapMask[<<n, m>>], "INNER", "FALSE", FALSE)
      Uncovered == EdgeOf(Cart(n), overlapMask[<<m, n>>], "OUTER", "MIRROR", FALSE)
      Cover == CoverMask(m, n, Edge)
  IN CHOOSE d \in 0..Cardinality(All(n)) :
       /\ Uncovered \subseteq Dilate(Cart(n), Cover, d, "FALSE")
       /\ d > 0 => ~(Uncovered \subseteq Dilate(Cart(n), Cover, d - 1, "FALSE"))

\* Points of the overlap next to what the boundary of m covers beyond it.
ProjectedBoundary(m, n) ==
  LET Cover == Dilate(Cart(n), CoverMask(m, n, aux[m].domainBoundary), NumDilates(m, n), "FALSE")
                 \ overlapMask[<<m, n>>]
  IN EdgeOf(Cart(n), Cover, "OUTER", "FALSE", FALSE) \intersect overlapMask[<<m, n>>]

\* The points to remove from n, given the boundaries projected onto it by those who cut it.
BoundaryHole(n, projected) ==
  LET C == Cart(n)
      cutters == {id \in DOMAIN projected : id[2] = n}
      Boundary == aux[n].domainBoundary \union UNION {projected[id] : id \in cutters}
      Seeds == UNION {EdgeOf(C, projected[id], "OUTER", "FALSE", FALSE)
                        \intersect overlapMask[id] : id \in cutters}
      Interior == Flood(C, Seeds, Boundary)
      Stray == (aux[n].domainBoundary \intersect EdgeOf(C, aux[n].active, "INNER", "FALSE", FALSE))
                 \ EdgeOf(C, Interior, "OUTER", "FALSE", FALSE)
  IN IF Seeds = {} THEN {} ELSE (aux[n].active \ Interior) \ (Boundary \ Stray)

OverlapAsFound(activity) == [id \in Overlaps |-> DOMAIN overlap[id]]

\* After points were removed: donors must be active (CollectAll over the corners of the
\* cell, written over what the mask was at overlapped points).
UpdatedOverlap(activity) ==
  [id \in Overlaps |->
     {p \in DOMAIN overlap[id] :
        Corners(Cart(id[1]), overlap[id][p]) \subseteq activity[id[1]].active}]

Cuts(n) == \E id \in CutPairs : id[2] = n
BoundaryHoles(projected) ==
  [n \in Grids |-> IF Cuts(n) THEN BoundaryHole(n, projected) ELSE {}]

CutBoundaryHoles ==
  /\ stage = "CutBoundaryHoles"
  /\ \E Hole \in {BoundaryHoles(projected) :
                   projected \in {[id \in CutPairs |-> ProjectedBoundary(id[1], id[2])]}} :
       /\ flags' = [n \in Grids |->
            SetFlags(ResetFlags(flags[n], {"ACTIVE"}, Hole[n]), {"BOUNDARY_HOLE"}, Hole[n])]
       /\ aux' = [n \in Grids |-> IF Hole[n] = {} THEN aux[n] ELSE Activity(Cart(n), flags'[n])]
  /\ overlapMask' = UpdatedOverlap(aux')
  /\ stage' = "LocateOuterFringe"
  /\ UNCHANGED <<geometry, overlap, pairwise, fringe, occlusion, donors, receivers>>

----------------------------------------------------------------------------
OneLayerOfFringe(g) ==
  IF Option.fringeSize[g] = 0 THEN {}
  ELSE EdgeOf(Cart(g), aux[g].active \ aux[g].domainBoundary, "INNER", "FALSE", FALSE)

\* Active points within FringeSize of where the active part ends without a boundary.
OuterFringe(g) ==
  LET C == Cart(g)
      Outer(S) == EdgeOf(C, S, "OUTER", "FALSE", TRUE)
      Boundary == aux[g].domainBoundary \union aux[g].internalBoundary
      NonBoundaryEdge == Outer(aux[g].active \ Boundary)
      BoundaryEdge == Outer(Boundary)
      Cover == {p \in Outer(aux[g].active) : p \in NonBoundaryEdge \/ p \notin BoundaryEdge}
  IN IF Option.fringeSize[g] = 0 THEN {}
     ELSE aux[g].active \intersect
            Dilate(CartIncludeExteriorPoint(C), Cover, Option.fringeSize[g], "FALSE")

LocateOuterFringe ==
  /\ stage = "LocateOuterFringe"
  /\ fringe' = [fringe EXCEPT !.outer = [g \in Grids |-> OuterFringe(g)]]
  /\ flags' = [g \in Grids |-> SetFlags(flags[g], {"FRINGE", "OUTER_FRINGE"}, OuterFringe(g))]
  /\ stage' = "DetectOccluded"
  /\ UNCHANGED <<geometry, aux, overlap, overlapMask, pairwise, occlusion, donors, receivers>>

----------------------------------------------------------------------------
\* DetectOccluded

Occluders == {id \in Overlaps : Option.occludes[id] # "NONE"}

ByResolution(id) ==
  CASE Option.occludes[id] = "COARSE" ->
         IF Volume(id[2]) > Volume(id[1]) THEN overlapMask[id] ELSE {}
    [] Option.occludes[id] = "ALL" -> overlapMask[id]
    [] Option.occludes[id] = "NONE" -> {}

\* Points of n over cells of m of which no corner is in S (CollectNone).
ClearOf(id, S) ==
  {p \in DOMAIN overlap[id] : Corners(Cart(id[1]), overlap[id][p]) \intersect S = {}}

MutuallyOccludes(id) ==
  /\ Option.occludes[id] = "COARSE"
  /\ Option.occludes[<<id[2], id[1]>>] = "COARSE"

\* Of two grids that occlude one another, first the later is occluded where the earlier
\* is not, then the earlier where the later is not.
OccludedBefore(o, K) ==
  [id \in DOMAIN o |-> IF id \in K /\ MutuallyOccludes(id)
                       THEN ClearOf(id, o[<<id[2], id[1]>>]) ELSE o[id]]
PairwiseOcclusion ==
  LET First == [id \in Overlaps \union DOMAIN pairwise |->
                  IF id \in Overlaps THEN ByResolution(id) ELSE pairwise[id]]
  IN Once({OccludedBefore(o, {id \in Overlaps : id[1] > id[2]}) :
             o \in {OccludedBefore(f, {id \in Overlaps : id[1] < id[2]}) : f \in {First}}})

\* Points of m whose cells should not serve those of n.
Disallowed(id, o) ==
  LET m == id[1]
      back == <<id[2], m>>
  IN Dilate(Cart(m),
       flags[m]["OUTER_FRINGE"]
         \union (IF Option.occludes[back] = "NONE" THEN {} ELSE o[back] \union (All(m) \ aux[m].active)),
       Option.edgePadding[id], "MIRROR")

Smoothed(g, S, Base) ==
  LET C == Cart(g)
      n == Option.edgeSmoothing[g]
  IN IF n = 0 THEN S ELSE Erode(C, Dilate(C, S, n, "MIRROR"), n, "MIRROR") \intersect Base

\* Occlusion that is too near the edge of the occluding grid is dropped, unless that
\* would leave the rest ragged.
OccludersOf(g) == {id \in Occluders : id[2] = g}
Kept(g, o, Padding) ==
  Smoothed(g, UNION {o[id] \ Padding[id] : id \in OccludersOf(g)},
              UNION {o[id] : id \in OccludersOf(g)})
WithoutPadding(o, Padding) ==
  Once({[id \in DOMAIN o |-> IF id \in Occluders THEN o[id] \ (Padding[id] \ kept[id[2]]) ELSE o[id]] :
          kept \in {[g \in Grids |-> Kept(g, o, Padding)]}})
Padded(o) ==
  Once({WithoutPadding(o, Padding) :
          Padding \in {[id \in Occluders |-> o[id] \ ClearOf(id, Disallowed(id, o))]}})

\* The masks of the opposite pair that are looked up.  The map of masks is never cleared:
\* it holds those of all pairs that some assembly found to overlap.
SoughtMasks ==
  {<<id[2], id[1]>> : id \in {i \in Occluders : Option.occludes[<<i[2], i[1]>>] # "NONE"}}
HeldMasks == Overlaps \union DOMAIN pairwise

DetectOccluded ==
  /\ stage = "DetectOccluded"
  /\ SoughtMasks \subseteq HeldMasks
  /\ \E o \in {PairwiseOcclusion} : pairwise' = Padded(o)
  /\ occlusion' = [g \in Grids |-> UNION {pairwise'[id] : id \in {i \in Occluders : i[2] = g}}]
  /\ flags' = [g \in Grids |-> SetFlags(flags[g], {"OCCLUDED"}, occlusion'[g])]
  /\ stage' = "MinimizeOverlap"
  /\ UNCHANGED <<geometry, aux, overlap, overlapMask, fringe, donors, receivers>>

\* The look-up goes astray: it returns the mask of another pair, or none.
LookUpStray ==
  /\ stage = "DetectOccluded"
  /\ ~(SoughtMasks \subseteq HeldMasks)
  /\ stage' = "stray"
  /\ UNCHANGED <<geometry, flags, aux, overlap, overlapMask, pairwise, fringe, occlusion,
                 donors, receivers>>

----------------------------------------------------------------------------
MinimizedToTheEdge(g) ==
  UNION {pairwise[id] : id \in {i \in Occluders : i[2] = g /\ Option.minimizeOverlap[i]}}

\* Occluded points whose stencils need no layer of others go, and the layers of active
\* points around them become inner fringe.
Minimized(g) ==
  LET C == Cart(g)
      candidates == UNION {pairwise[id] : id \in {i \in Occluders : i[2] = g /\ Option.minimizeOverlap[i]}}
      Removable == Erode(C, occlusion[g] \union (All(g) \ aux[g].active),
                         Option.fringeSize[g], "TRUE")
  IN IF Option.fringeSize[g] = 0 THEN candidates
     ELSE candidates \intersect Removable \intersect aux[g].active

InnerFringe(g) ==
  IF Option.fringeSize[g] = 0 THEN {}
  ELSE (Dilate(Cart(g), Minimized(g), Option.fringeSize[g], "FALSE")
          \intersect aux[g].active) \ Minimized(g)

MinimizeOverlap ==
  /\ stage = "MinimizeOverlap"
  /\ flags' = [g \in Grids |->
       SetFlags(SetFlags(ResetFlags(flags[g], {"ACTIVE", "OUTER_FRINGE"}, Minimized(g)),
                         {"OVERLAP_MINIMIZED"}, Minimized(g)),
                {"FRINGE", "INNER_FRINGE"}, InnerFringe(g))]
  /\ aux' = [g \in Grids |->
       IF Minimized(g) = {} THEN aux[g] ELSE Activity(Cart(g), flags'[g])]
  /\ fringe' = [outer |-> [g \in Grids |->
                   IF Minimized(g) = {} THEN fringe.outer[g]
                   ELSE fringe.outer[g] \intersect flags'[g]["ACTIVE"]],
                inner |-> [g \in Grids |-> InnerFringe(g)]]
  /\ overlapMask' = UpdatedOverlap(aux')
  /\ stage' = "GenerateConnectivityData"
  /\ UNCHANGED <<geometry, overlap, pairwise, occlusion, donors, receivers>>

----------------------------------------------------------------------------
\* GenerateConnectivityData

ReceiverMask(g) ==
  fringe.outer[g] \union fringe.inner[g] \union (occlusion[g] \intersect aux[g].active)

MaxReceiverDistance(m) ==
  Max({1} \union {1 + Option.edgePadding[id] : id \in {i \in Overlaps : i[1] = m}})

\* Layers of points from the edge of the receivers, negative within.  Points that no
\* layer reaches, within or without, keep the greatest distance.
ReceiverDistances(m) ==
  LET C == Cart(m)
      far == MaxReceiverDistance(m)
      Mask == ReceiverMask(m)
      Layers(Edge) == [d \in 0 .. far - 1 |-> Dilate(C, Edge, d, "FALSE")]
      Distance(p, layer) == Min({far} \union {d \in DOMAIN layer : p \in layer[d]})
      Signed(d, p) == IF d < far /\ p \in Mask THEN -d ELSE d
  IN Once({[p \in All(m) |-> Signed(Distance(p, layer), p)] :
             layer \in {Layers(Edge) : Edge \in {EdgeOf(C, Mask, "INNER", "FALSE", FALSE)}}})

\* How far each overlapped point's cell is from receivers (CollectMin).
OverlapDistances ==
  Once({[id \in Overlaps |-> [p \in DOMAIN overlap[id] |->
           Min({distance[id[1]][q] : q \in Corners(Cart(id[1]), overlap[id][p])})]] :
          distance \in {[m \in Grids |-> ReceiverDistances(m)]}})

\* Distances are compared as fractions of 1 + EdgePadding, and cut off at one.
Fraction(d, id) ==
  LET full == 1 + Option.edgePadding[id] IN [of |-> full, by |-> Min({d, full})]
Farther(a, b) == a.by * b.of > b.by * a.of

MayAlwaysDonate(id, far) == TRUE

\* With DisjointConnections no vertex of a donor may be a receiver.
MayDonate(id, far) == Option.disjointConnections[id] => far.by > 0

NoDonor == [grid |-> 0]

BetterDonor(new, old) ==
  \/ Farther(new.far, old.far)
  \/ /\ ~Farther(old.far, new.far)
     /\ \/ Option.occludes[<<old.grid, new.grid>>] = "NONE"
        \/ Option.occludes[<<old.grid, new.grid>>] = "COARSE" /\ Volume(new.grid) < Volume(old.grid)

\* The grids that overlap the point are considered in the order of their numbers.
Donor(n, p, distances) ==
  LET Candidate(m) ==
        LET id == <<m, n>>
        IN /\ id \in Overlaps
           /\ Option.connectionType[id] # "NONE"
           /\ p \in overlapMask[id]
      New(m) == [grid |-> m, far |-> Fraction(distances[<<m, n>>][p], <<m, n>>)]
      Accepted(m, old) ==
        /\ Candidate(m)
        /\ old = NoDonor \/ BetterDonor(New(m), old)
        /\ MayDonate(<<m, n>>, New(m).far)
      Best[m \in 0..Cardinality(Grids)] ==
        IF m = 0 THEN NoDonor
        ELSE LET old == Best[m - 1] IN IF Accepted(m, old) THEN New(m) ELSE old
  IN Best[Cardinality(Grids)].grid

CellRange(c) == Box(c, [d \in Dims |-> c[d] + 2])

\* The donors that rank r of m knows: those in its cells, and those of its neighbours
\* that reach into its range, moved there.
KnownDonors(m, r, cellOf) ==
  UNION {{[to |-> p, from |-> R] : R \in KnownRanges(Cart(m), here.grids[m].local, r, CellRange(cellOf[p]))} :
           p \in DOMAIN cellOf}

ChosenDonors(distances) == [n \in Grids |-> [p \in ReceiverMask(n) |-> Donor(n, p, distances)]]
Orphans(chosen) == {p \in DOMAIN chosen : chosen[p] = NoDonor.grid}

\* The points that a pair serves, by the choice of their rank (a reverse exchange tells the
\* ranks of the cells), and the pairs that serve any.
Served(donor, id) == {p \in DOMAIN donor[id[2]] : donor[id[2]][p] = id[1]}
Connected(donor) ==
  {id \in Overlaps : Option.connectionType[id] # "NONE" /\ Served(donor, id) # {}}

Receivers(donor, id) == [p \in Served(donor, id) |-> overlap[id][p]]
DonorsOfRanks(donor, id) ==
  [r \in DOMAIN here.grids[id[1]].local |-> KnownDonors(id[1], r, Receivers(donor, id))]

GenerateConnectivityData ==
  /\ stage = "GenerateConnectivityData"
  /\ \E donor \in {ChosenDonors(distances) : distances \in {OverlapDistances}} :
       /\ flags' = [g \in Grids |->
            SetFlags(SetFlags(flags[g], {"RECEIVER"}, ReceiverMask(g)), {"ORPHAN"}, Orphans(donor[g]))]
       /\ receivers' = [id \in Connected(donor) |-> Receivers(donor, id)]
       /\ donors' = [id \in Connected(donor) |-> DonorsOfRanks(donor, id)]
  /\ stage' = "done"
  /\ UNCHANGED <<geometry, aux, overlap, overlapMask, pairwise, fringe, occlusion>>

\* The program assembles again.
AssembleAgain ==
  /\ stage = "done" /\ turn < Len(here.options)
  /\ turn' = turn + 1
  /\ stage' = "InitializeAssembly"
  /\ UNCHANGED <<here, flags, aux, overlap, overlapMask, pairwise, fringe, occlusion,
                 donors, receivers>>

Finished ==
  /\ stage = "stray" \/ (stage = "done" /\ turn = Len(here.options))
  /\ UNCHANGED stageVars

StagesNext ==
  \/ InitializeAssembly \/ DetectOverlap \/ InferBoundaries \/ CutBoundaryHoles
  \/ LocateOuterFringe \/ DetectOccluded \/ LookUpStray \/ MinimizeOverlap
  \/ GenerateConnectivityData \/ AssembleAgain \/ Finished

StagesSpec == StagesInit /\ [][StagesNext]_stageVars

----------------------------------------------------------------------------
(* An assembly that follows another starts from the flags that the user    *)
(* gave: what stages of the earlier one removed, inferred or marked is     *)
(* taken back, and nothing of the user's is.                               *)
StartsFromUserFlags ==
  stage = "DetectOverlap" => \A g \in Grids : flags[g] = Started(here.flags[g])

(* A point that is computed and not received has all points its stencil    *)
(* reaches, FringeSize layers away: where one is missing, the active part  *)
(* ends there at a boundary (points beyond it touch boundary points only), *)
(* and overlap minimization removed none of them.                          *)
StencilsComplete ==
  stage = "done" =>
    \A g \in Grids :
      LET C == Cart(g)
          size == Option.fringeSize[g]
          Active == flags[g]["ACTIVE"]
          Boundary == flags[g]["DOMAIN_BOUNDARY"] \union flags[g]["INTERNAL_BOUNDARY"]
          Reach(p) == {Wrapped(C, <<x, y>>) : x \in p[1] - size .. p[1] + size,
                                             y \in p[2] - size .. p[2] + size}
      IN \A p \in Active \ flags[g]["RECEIVER"] : \A q \in Reach(p) \ Active :
           /\ q \notin flags[g]["OVERLAP_MINIMIZED"]
           /\ \A a \in Active \ Boundary : q \notin {Wrapped(C, b) : b \in Neighbors(a)}

(* What minimization makes receivers is occluded: the grid that removed    *)
(* points around them can serve them, and no more than these are removed.  *)
InnerFringeOccluded ==
  stage = "done" => \A g \in Grids : flags[g]["INNER_FRINGE"] \subseteq flags[g]["OCCLUDED"]

(* A donor is a cell of four active points, whatever was removed after the *)
(* overlap was found, and its receiver is active and marked so; each       *)
(* receiver has one donor over all grids, or is an orphan.                 *)
ReceiversServed ==
  stage = "done" =>
    /\ \A id \in DOMAIN receivers : \A p \in DOMAIN receivers[id] :
         /\ Corners(Cart(id[1]), receivers[id][p]) \subseteq flags[id[1]]["ACTIVE"]
         /\ p \in flags[id[2]]["ACTIVE"] \intersect flags[id[2]]["RECEIVER"]
    /\ \A n \in Grids : \A p \in flags[n]["RECEIVER"] :
         Cardinality({id \in DOMAIN receivers : id[2] = n /\ p \in DOMAIN receivers[id]})
           = IF p \in flags[n]["ORPHAN"] THEN 0 ELSE 1

(* A rank of the donor grid has the record of a donor exactly when it owns *)
(* one of the donor's points, with extents that name the donor's points    *)
(* and meet its range: else its part of the interpolation is left out of   *)
(* the sum, or counted twice.                                              *)
DonorsKnownToOwners ==
  stage = "done" =>
    \A id \in DOMAIN donors :
      LET C == Cart(id[1])
          cell == receivers[id]
      IN \A r \in DOMAIN donors[id] :
           LET Local == Points(here.grids[id[1]].local[r])
           IN /\ \A p \in DOMAIN cell :
                   Cardinality({d \in donors[id][r] : d.to = p})
                     = IF Corners(C, cell[p]) \intersect Local = {} THEN 0 ELSE 1
              /\ \A d \in donors[id][r] :
                   /\ d.to \in DOMAIN cell
                   /\ {Wrapped(C, q) : q \in Points(d.from)} = Corners(C, cell[d.to])
                   /\ Points(d.from) \intersect Local # {}

(* With DisjointConnections no vertex of a donor is a receiver, so that an *)
(* exchange need not be iterated, unless all of them lie deep: distances   *)
(* are measured over the layers of the edge padding, and a cell farther    *)
(* from the edge of the receivers, within as without, counts as far off.   *)
DeepReceivers(m) == Erode(Cart(m), flags[m]["RECEIVER"], MaxReceiverDistance(m), "FALSE")
DonorsAreNoReceivers ==
  stage = "done" =>
    \A id \in DOMAIN receivers : Option.disjointConnections[id] =>
      \A Deep \in {DeepReceivers(id[1])} : \A p \in DOMAIN receivers[id] :
        \/ Corners(Cart(id[1]), receivers[id][p]) \intersect flags[id[1]]["RECEIVER"] = {}
        \/ Corners(Cart(id[1]), receivers[id][p]) \subseteq Deep

(* A connection is whole: its receiver, its donor and the records of the   *)
(* ranks that own the donor's points.                                      *)
ConnectionsWhole == ReceiversServed /\ DonorsKnownToOwners
=============================================================================
