---------------------------- MODULE OverlapSearch ----------------------------
(***************************************************************************)
(* assembler::DetectOverlap_ (core/AssemblerAssembly.cpp): which points of *)
(* one grid lie in which cells of another, when both are in pieces on many *)
(* ranks.  Ranks cut their cells into fragments and put them in a hash;    *)
(* where a point may lie in a fragment, the points' rank gets the fragment *)
(* from its rank and searches it.  Fragments are fetched a few at a time,  *)
(* in a loop in which a rank also sends its own and searches local ones.   *)
(* What is found is put together, sent to all ranks that hold a corner of  *)
(* the cell, and written to the overlaps, which all ranks have created.    *)
(*                                                                         *)
(* Grids are uniform and aligned with the axes: a point p is at origin +   *)
(* spacing * p.                                                            *)
(***************************************************************************)
EXTENDS RegionHash, KeyOrder

LOCAL INSTANCE TLC

CONSTANTS
  Cases,          \* grids, ranks and options
  MinCells, MaxCells,          \* of a fragment; 2^10 and 2^14 in the code
  NumCellsLeaf,                \* of a node; 2^12 by default
  MaxTransfers,                \* MAX_SIMULTANEOUS_TRANSFERS, 10 in the code
  Parts                        \* messages of a fragment; 4 in the code

ASSUME OverlapSearchAssumption ==
  /\ MaxTransfers \in Nat \ {0} /\ Parts \in Nat \ {0}
  /\ \A c \in Cases :
       /\ c.ranks \in Nat
       /\ DOMAIN c.grids \subseteq Nat /\ IsFiniteSet(DOMAIN c.grids)
       /\ \A g \in DOMAIN c.grids : \A r \in DOMAIN c.grids[g].local : \A d \in Dims :
            c.grids[g].local[r].begin[d] \in Int /\ c.grids[g].local[r].end[d] \in Int

VARIABLES
  here,        \* the case
  stage,       \* "hash", "connect", "transfer", "filled"
  hash,        \* FragmentHash
  queries,     \* queries[r]: points of r and the fragments that they may lie in
  work,        \* work[r]: FragmentRecvs, FragmentSends and FragmentLocals
  nextRecv,    \* iNextRecv: how many fragments r has asked for
  nextLocal,   \* iNextLocal: how many of its own it has searched
  slots,       \* slots[r]: TransferredFragmentRecvIndices, 0 if not used
  data,        \* data[r][slot]: by part, what its buffer has received
  posted,      \* posted[r][s]: receives from s that are not matched
  wire,        \* wire[s][r]: messages that are not matched
  flying,      \* flying[r][s]: signals of r to s on their way
  signals,     \* signals[r][s]: those that are there and that s has not seen
  answered,    \* answered[s][r]: how many fragments s has sent to r
  inOrder,     \* each rank has seen each other's signals in the order they were sent in
  finished,    \* finished[s]: how many parts it knows to be sent
  searched,    \* searched[r]: for each fragment, what was searched for it
  overlapM, overlapN, created

workVars == <<hash, queries, work>>
answerVars == <<wire, signals, answered, inOrder>>
searchVars == <<nextRecv, nextLocal, slots, data, posted, flying, searched>>
resultVars == <<overlapM, overlapN, created>>
vars == <<here, stage, workVars, answerVars, searchVars, finished, resultVars>>

Grids == DOMAIN here.grids
Ranks == 0 .. here.ranks - 1
Cart(g) == here.grids[g].cart
CellCart(g) == CartPointToCell(Cart(g))
HasGrid(r, g) == r \in DOMAIN here.grids[g].local
LocalGrids(r) == {g \in Grids : HasGrid(r, g)}
LocalRange(r, g) == here.grids[g].local[r]
CellLocalRange(r, g) == RangePointToCell(Cart(g), LocalRange(r, g))
Active(g) == here.grids[g].active
Overlappable(m, n) == <<m, n>> \in DOMAIN here.tolerance

\* Twice the tolerance, and the largest on a grid.
Tolerance(m, n) == here.tolerance[<<m, n>>]
MaxTolerance(m) == Max({0} \union {Tolerance(m, n) : n \in {k \in Grids : Overlappable(m, k)}})

----------------------------------------------------------------------------
\* Geometry

Coords(g, p) == [d \in Dims |-> here.grids[g].origin[d] + here.grids[g].spacing * p[d]]

CellActive(g, c) ==
  \A p \in {<<x, y>> : x \in {c[1], c[1] + 1}, y \in {c[2], c[2] + 1}} : Wrapped(Cart(g), p) \in Active(g)

CellBounds(g, c, tolerance) ==
  LET more == (here.grids[g].spacing * tolerance) \div 2
  IN Bounds([d \in Dims |-> Coords(g, c)[d] - more],
            [d \in Dims |-> Coords(g, c)[d] + here.grids[g].spacing + more])

ActiveCells(g, R) == {c \in Points(R) : CellActive(g, c)}
Volume(b) == Max({0, Size(b, 1)}) * Max({0, Size(b, 2)})

\* How well a cell holds a point: first if it does, then how far from the center, or how
\* far outside.
Fit(g, c, x) ==
  LET h == here.grids[g].spacing
      u == [d \in Dims |-> x[d] - Coords(g, c)[d]]
      inside == \A d \in Dims : 0 <= u[d] /\ u[d] <= h
      off(d) == 2 * u[d] - h
      fromCenter(d) == IF off(d) < 0 THEN -off(d) ELSE off(d)
      out(d) == IF u[d] > h THEN u[d] - h ELSE IF u[d] < 0 THEN -u[d] ELSE 0
  IN IF inside THEN <<0, Max({fromCenter(1), fromCenter(2)})>>
     ELSE <<1, out(1) * out(1) + out(2) * out(2)>>

\* BetterCell: a cell that fits better than another, or as well and comes before it.
BetterFit(a, b) == a[1] < b[1] \/ (a[1] = b[1] /\ a[2] < b[2])
BetterCell(g, x, c, other) ==
  \/ BetterFit(Fit(g, c, x), Fit(g, other, x))
  \/ Fit(g, c, x) = Fit(g, other, x) /\ VisitedBefore(c, other)

BestCell(g, x, cells) ==
  IF cells = {} THEN NoPoint
  ELSE CHOOSE c \in cells : \A other \in cells \ {c} : ~BetterCell(g, x, other, c)

----------------------------------------------------------------------------
\* Fragments

\* The cells that have vertices in the points of a range of cells.
MakeCellCoverRange(C, R) ==
  Box([d \in Dims |-> IF R.begin[d] > C.range.begin[d] \/ (C.periodic[d] /\ R.end[d] # C.range.end[d])
                      THEN R.begin[d] - 1 ELSE R.begin[d]], R.end)

ComputeBounds(g, R) == Union({CellBounds(g, c, 0) : c \in ActiveCells(g, R)})
NumCells(R) == Cardinality(Points(R))

\* A range is halved, along its longer side, until it is small and its box is filled.
IsLeaf(g, R, base) ==
  LET unoccupied ==
        Volume(ComputeBounds(g, R))
          - here.grids[g].spacing * here.grids[g].spacing * Cardinality(ActiveCells(g, R))
  IN NumCells(R) <= MaxCells /\ 4 * unoccupied <= base
Halves(R) ==
  LET side(d) == R.end[d] - R.begin[d]
      split == IF side(2) > side(1) THEN 2 ELSE 1
      middle == (R.begin[split] + R.end[split]) \div 2
  IN <<[R EXCEPT !.end[split] = middle], [R EXCEPT !.begin[split] = middle]>>

MaxDepth(R) ==
  CHOOSE k \in 0 .. NumCells(R) : /\ NumCells(R) \div 2^k <= MinCells
                                 /\ \A j \in 0 .. k - 1 : NumCells(R) \div 2^j > MinCells

\* The ranges there are after as many halvings as there may be, from the first to the last
\* half: each is at its place among the ranges there were if no leaf came early.
Subdivide(g, R) ==
  LET base == Volume(ComputeBounds(g, R))
      depth == MaxDepth(R)
      Subdivided(node, places) ==
        IF IsLeaf(g, node.cells, base) THEN {node}
        ELSE {[at |-> node.at, cells |-> Halves(node.cells)[1]],
              [at |-> node.at + places, cells |-> Halves(node.cells)[2]]}
      nodes[k \in 0 .. depth] ==
        IF k = 0 THEN {[at |-> 0, cells |-> R]}
        ELSE UNION {Subdivided(node, 2^(depth - k)) : node \in nodes[k - 1]}
  IN Ordered({node \in nodes[depth] : ActiveCells(g, node.cells) # {}}, LAMBDA a, b : a.at < b.at)

\* What covers the points of the fragment, and not only its cells, is in its box.
CellBox(m, c) == CellBounds(m, c, MaxTolerance(m))
CellsBox(m, cells) == Union({CellBox(m, c) : c \in cells})
OwnCellsBox(g, R) == CellsBox(g, ActiveCells(g, R))                    \* only its cells
FragmentBox(g, R) == CellsBox(g, ActiveCells(g, MakeCellCoverRange(CellCart(g), R)))

FragmentsOf(r, g) ==
  LET nodes == Subdivide(g, CellLocalRange(r, g))
  IN [k \in DOMAIN nodes |-> [grid |-> g, id |-> k, cells |-> nodes[k].cells,
                              box |-> FragmentBox(g, nodes[k].cells)]]
LocalFragments(r) ==
  LET grids == Ascending(LocalGrids(r))
  IN FlattenSeq([i \in DOMAIN grids |-> FragmentsOf(r, grids[i])])

----------------------------------------------------------------------------
\* overlap_accel: the cells of a fragment in a tree.  A node is halved at the mean of the
\* centers of its cells; a cell on both sides is in both halves.
Center(box, d) == (box.lo[d] + box.hi[d]) \div 2
Split(m, cells, d) == MapThenSumSet(LAMBDA c : Center(CellBox(m, c), d), cells)
CellsLeft(m, cells, d) ==
  {c \in cells : CellBox(m, c).lo[d] * Cardinality(cells) <= Split(m, cells, d)}
CellsRight(m, cells, d) ==
  {c \in cells : CellBox(m, c).hi[d] * Cardinality(cells) >= Split(m, cells, d)}

NodeIsLeaf(m, cells, volume) ==
  \/ Cardinality(cells) <= NumCellsLeaf
  \/ 4 * (Volume(CellsBox(m, cells))
            - here.grids[m].spacing * here.grids[m].spacing * Cardinality(cells)) <= volume

\* Down from a node, to the half that the point is in.
HalfWith(m, cells, x) ==
  LET box == CellsBox(m, cells)
      d == IF Size(box, 1) > Size(box, 2) THEN 1 ELSE 2
  IN IF x[d] * Cardinality(cells) <= Split(m, cells, d)
     THEN CellsLeft(m, cells, d) ELSE CellsRight(m, cells, d)
Down(m, cells, x, volume) == IF NodeIsLeaf(m, cells, volume) THEN cells ELSE HalfWith(m, cells, x)

FindCellInNode(m, n, cells, x, volume, depth) ==
  LET node[k \in 0 .. depth] == IF k = 0 THEN cells ELSE Down(m, node[k - 1], x, volume)
  IN BestCell(m, x, {c \in node[depth] : Within(CellBounds(m, c, Tolerance(m, n)), x)})

FindCell(m, n, R, x) ==
  LET cells == ActiveCells(m, R)
      box == CellsBox(m, cells)
      depth == Min({k \in 0 .. Cardinality(cells) : Cardinality(cells) \div NumCellsLeaf < 2^k})
  IN IF Within(box, x) THEN FindCellInNode(m, n, cells, x, Volume(box), depth) ELSE NoPoint

----------------------------------------------------------------------------
\* Hash: ranks put their fragments in it.
Hash ==
  /\ stage = "hash"
  /\ stage' = "connect"
  /\ hash' = DistributedRegionHash([r \in Ranks |-> LocalFragments(r)])
  /\ UNCHANGED <<here, queries, work, answerVars, searchVars, finished, resultVars>>

\* Connect: ranks find the fragments that their active points may lie in, tell the ranks
\* that have them, and get ready to receive the first few.
LocalPoints(r, n) == Points(LocalRange(r, n)) \intersect Active(n)

QueryPoints(r) ==
  LET points == UNION {{<<n, p>> : p \in LocalPoints(r, n)} : n \in LocalGrids(r)}
      bin(y) == MapToBin(hash, Coords(y[1], y[2]))
      bins == {bin(y) : y \in points}
      retrieved == [b \in bins |-> RetrieveBins(hash, b[1], {c[2] : c \in {e \in bins : e[1] = b[1]}})[b[2]]]
  IN UNION {{[n |-> y[1], point |-> y[2], m |-> f.region.grid, rank |-> f.rank,
              id |-> f.region.id, cells |-> f.region.cells] :
               f \in {e \in retrieved[bin(y)] : /\ Overlappable(e.region.grid, y[1])
                                                /\ Within(e.region.box, Coords(y[1], y[2]))}} :
            y \in points}

\* Fragments by grid, rank and number.
FragmentBefore(a, b) ==
  \/ a[1] < b[1]
  \/ a[1] = b[1] /\ (a[2] < b[2] \/ (a[2] = b[2] /\ a[3] < b[3]))
InFragmentOrder(S) == Sorted(S, {p \in S \X S : FragmentBefore(p[1], p[2])})

\* What a fragment may be named: a rank makes no more of them of a grid than it has cells.
FragmentNames ==
  UNION {UNION {{<<g, s, id>> : id \in 1 .. NumCells(CellLocalRange(s, g))} : g \in LocalGrids(s)} :
           s \in Ranks}
Wanted(Q, r) == {f \in FragmentNames : \E q \in Q[r] : f = <<q.m, q.rank, q.id>>}
Work(Q, r) ==
  [recvs |-> InFragmentOrder({f \in Wanted(Q, r) : f[2] # r}),
   locals |-> InFragmentOrder({f \in Wanted(Q, r) : f[2] = r}),
   sends |-> InFragmentOrder(UNION {{<<f[1], s, f[3]>> : f \in {e \in Wanted(Q, s) : e[2] = r}} :
                                      s \in Ranks \ {r}})]

Nothing == <<0, 0, 0>>
PartsOf(slot) == [part \in 1 .. Parts |-> <<slot, part>>]
FirstRecvs(recvs) == Min({MaxTransfers, Len(recvs)})
FirstOf(recvs, s) == {i \in 1 .. FirstRecvs(recvs) : recvs[i][2] = s}
FirstPosted(recvs, s) ==
  LET slot == SortedInts(FirstOf(recvs, s))
  IN [j \in 1 .. Parts * Cardinality(FirstOf(recvs, s)) |->
        <<slot[1 + (j - 1) \div Parts], 1 + ((j - 1) % Parts)>>]
FirstSignals(recvs, s) == Cardinality(FirstOf(recvs, s))

Connect ==
  /\ stage = "connect"
  /\ stage' = "transfer"
  /\ \E Q \in {[r \in Ranks |-> QueryPoints(r)]} :
       \E W \in {[r \in Ranks |-> Work(Q, r)]} :
         /\ queries' = Q
         /\ work' = W
         /\ nextRecv' = [r \in Ranks |-> FirstRecvs(W[r].recvs)]
         /\ slots' = [r \in Ranks |-> [i \in 1 .. MaxTransfers |->
                        IF i <= FirstRecvs(W[r].recvs) THEN i ELSE 0]]
         /\ posted' = [r \in Ranks |-> [s \in Ranks |-> FirstPosted(W[r].recvs, s)]]
         /\ flying' = [r \in Ranks |-> [s \in Ranks |-> FirstSignals(W[r].recvs, s)]]
         /\ searched' = [r \in Ranks |-> [f \in Wanted(Q, r) |-> <<>>]]
  /\ UNCHANGED <<here, hash, answerVars, nextLocal, data, finished, resultVars>>

----------------------------------------------------------------------------
\* Transfer: the loop of a rank, and what the MPI library does in between.
Recvs(r) == work[r].recvs
Locals(r) == work[r].locals
SendsTo(s, r) == InFragmentOrder({f \in Range(work[s].sends) : f[2] = r})
Slots == 1 .. MaxTransfers

SendsDone(r) == finished[r] = Parts * Len(work[r].sends)
AllAskedFor(r) == nextRecv[r] = Len(Recvs(r))          \* if not received
RecvsDone(r) == \A slot \in Slots : slots[r][slot] = 0
LocalsDone(r) == nextLocal[r] = Len(Locals(r))
LoopDone(r) == SendsDone(r) /\ RecvsDone(r) /\ LocalsDone(r)

\* A signal arrives; the first message for a rank meets the first receive it has posted.
SignalArrives(r, s) ==
  /\ flying[r][s] > 0
  /\ flying' = [flying EXCEPT ![r][s] = @ - 1]
  /\ signals' = [signals EXCEPT ![r][s] = @ + 1]
  /\ UNCHANGED <<here, stage, workVars, wire, answered, inOrder, nextRecv, nextLocal, slots,
                 data, posted, searched, finished, resultVars>>

Arrive(s, r) ==
  /\ wire[s][r] # <<>> /\ posted[r][s] # <<>>
  /\ LET into == Head(posted[r][s])
     IN data' = [data EXCEPT ![r][into[1]][into[2]] = Head(wire[s][r])]
  /\ wire' = [wire EXCEPT ![s][r] = Tail(@)]
  /\ posted' = [posted EXCEPT ![r][s] = Tail(@)]
  /\ UNCHANGED <<here, stage, workVars, signals, answered, inOrder, nextRecv, nextLocal, slots,
                 flying, searched, finished, resultVars>>

\* Signals say nothing: the kth of a rank is matched with the receive that was posted for
\* the kth of the fragments it gets, and that fragment is sent.  Testsome lists all that
\* are there, in an order that MPI leaves open; libraries list them by their index.
AnswerByPlace(s, r, k) == SendsTo(s, r)[k - answered[s][r]]        \* in what Testsome lists
Answer(s, r, k) == SendsTo(s, r)[k]
Sent(s, f) == <<f[1], s, f[3]>>
Answers(s, r, listed) ==
  [j \in 1 .. Parts * signals[r][s] |->
     Sent(s, Answer(s, r, answered[s][r] + listed[1 + (j - 1) \div Parts]))]

Listings(n) == {q \in [1 .. n -> 1 .. n] : \A i, k \in 1 .. n : q[i] = q[k] => i = k}
ListedByIndex(s, listed) == \A r \in Ranks : \A k \in 1 .. signals[r][s] : listed[r][k] = k

AnswerSignals(s) ==
  /\ \E listed \in [Ranks -> UNION {Listings(signals[r][s]) : r \in Ranks}] :
       /\ \A r \in Ranks : listed[r] \in Listings(signals[r][s])
       /\ wire' = [wire EXCEPT ![s] = [r \in Ranks |-> wire[s][r] \o Answers(s, r, listed[r])]]
       /\ inOrder' = (inOrder /\ ListedByIndex(s, listed))
  /\ answered' = [answered EXCEPT ![s] = [r \in Ranks |-> answered[s][r] + signals[r][s]]]
  /\ signals' = [r \in Ranks |-> [signals[r] EXCEPT ![s] = 0]]

\* A message is sent when it has been received, or at once, as the MPI library likes.
TestSends(s) ==
  LET total(w) == MapThenSumSet(LAMBDA r : Parts * answered'[s][r] - w * Len(wire'[s][r]), Ranks)
  IN \E waiting \in {0, 1} :
       finished' = [finished EXCEPT ![s] = Max({@, total(waiting)})]

Entry(r, slot) == Recvs(r)[slots[r][slot]]
FinishedSlots(r) ==
  {slot \in Slots : slots[r][slot] # 0 /\ \A part \in 1 .. Parts : data[r][slot][part] # Nothing}
EmptySlot == [part \in 1 .. Parts |-> Nothing]

NobodySignalled(r, s) == flying                        \* no further signals
Signalled(r, s) == [flying EXCEPT ![r][s] = @ + 1]

\* The slot of a fragment that has been searched gets the next one there is, if any.
Refill(r, slot) ==
  /\ nextRecv[r] < Len(Recvs(r))
  /\ LET s == Recvs(r)[nextRecv[r] + 1][2]
     IN /\ posted' = [posted EXCEPT ![r][s] = @ \o PartsOf(slot)]
        /\ flying' = Signalled(r, s)
  /\ slots' = [slots EXCEPT ![r][slot] = nextRecv[r] + 1]
  /\ data' = [data EXCEPT ![r][slot] = EmptySlot]
  /\ nextRecv' = [nextRecv EXCEPT ![r] = @ + 1]

Free(r, slot) ==
  /\ nextRecv[r] = Len(Recvs(r))
  /\ slots' = [slots EXCEPT ![r][slot] = 0]
  /\ UNCHANGED <<posted, flying, data, nextRecv>>

SearchReceived(r) ==
  /\ FinishedSlots(r) # {}
  /\ LET slot == Min(FinishedSlots(r))
     IN /\ searched' = [searched EXCEPT ![r][Entry(r, slot)] = Append(@, data[r][slot])]
        /\ Refill(r, slot) \/ Free(r, slot)
  /\ UNCHANGED nextLocal

SearchLocal(r) ==
  /\ FinishedSlots(r) = {}
  /\ ~LocalsDone(r)
  /\ nextLocal' = [nextLocal EXCEPT ![r] = @ + 1]
  /\ LET f == Locals(r)[nextLocal[r] + 1]
     IN searched' = [searched EXCEPT ![r][f] = Append(@, [part \in 1 .. Parts |-> f])]
  /\ UNCHANGED <<nextRecv, slots, data, posted, flying>>

SearchNothing(r) ==
  /\ FinishedSlots(r) = {}
  /\ LocalsDone(r)
  /\ UNCHANGED searchVars

Turn(r) ==
  /\ stage = "transfer"
  /\ ~LoopDone(r)
  /\ AnswerSignals(r)
  /\ TestSends(r)
  /\ SearchReceived(r) \/ SearchLocal(r) \/ SearchNothing(r)
  /\ UNCHANGED <<here, stage, workVars, resultVars>>
----------------------------------------------------------------------------
\* Fill: what was found is put together and told to the ranks that hold a corner of the
\* cells, the overlaps are created, by all ranks, and written.
PairsOnto(r) == {e \in DOMAIN here.tolerance : HasGrid(r, e[2])}
PairsFrom(r) == {e \in DOMAIN here.tolerance : HasGrid(r, e[1])}
Queries(r, e) == {q \in queries[r] : q.m = e[1] /\ q.n = e[2]}

\* What is in the buffers when a fragment is searched need not be that fragment; then it is
\* taken for one in which nothing is found, and no property speaks of what comes of it.
Result(r, q) ==
  LET f == <<q.m, q.rank, q.id>>
  IN IF searched[r][f][1] = [part \in 1 .. Parts |-> f]
     THEN FindCell(q.m, q.n, q.cells, Coords(q.n, q.point)) ELSE NoPoint

OverlapCells(r, e) ==
  Once({[p \in {x[1] : x \in results} |->
           BestCell(e[1], Coords(e[2], p), {x[2] : x \in {y \in results : y[1] = p}})] :
        results \in {{x \in {<<q.point, Result(r, q)>> : q \in Queries(r, e)} : x[2] # NoPoint}}})

CellCoverRange(s, m) == MakeCellCoverRange(Cart(m), CellLocalRange(s, m))
Covers(s, m, cell) == MapToRange(Cart(m), CellCoverRange(s, m), cell) # NoPoint
MappedCell(s, m, cell) ==
  LET own == MapToRange(Cart(m), CellLocalRange(s, m), cell)
  IN IF own # NoPoint THEN own ELSE MapToRange(Cart(m), CellCoverRange(s, m), cell)

\* The ranks of m that have cells for a rank, once those without are erased.
MGridRanks(C, r, e) ==
  {s \in {q.rank : q \in Queries(r, e)} : \E p \in DOMAIN C[r][e] : Covers(s, e[1], C[r][e][p])}

\* The root of the grid gathers which overlaps there are and tells every rank.
Root(n) == Min(DOMAIN here.grids[n].local)
Reduced(L, e) == IF \E r \in DOMAIN here.grids[e[2]].local : e \in L[r] THEN {e} ELSE {}
OverlappingGridIDs(L, r) == L[r] \union UNION {Reduced(L, e) : e \in DOMAIN here.tolerance}

SourceRank(ranks, m, cell) ==
  LET owners == {s \in ranks : HasPoint(CellLocalRange(s, m), cell)}
  IN IF owners = {} THEN -1 ELSE Min(owners)
DestinationRank(s, m, cell, r) == IF HasPoint(CellLocalRange(s, m), cell) THEN r ELSE -1

OverlapNData(cells, ranks, m) ==
  LET points == InVisitOrder(DOMAIN cells)
  IN [k \in DOMAIN points |-> [point |-> points[k], cell |-> cells[points[k]],
                               rank |-> SourceRank(ranks, m, cells[points[k]])]]

OverlapMData(C, N, s, e) ==
  LET told == UNION {{[point |-> p, cell |-> MappedCell(s, e[1], C[r][e][p]),
                       rank |-> DestinationRank(s, e[1], MappedCell(s, e[1], C[r][e][p]), r)] :
                      p \in {x \in DOMAIN C[r][e] : Covers(s, e[1], C[r][e][x])}} :
                     r \in {x \in DOMAIN here.grids[e[2]].local : s \in N[x][e]}}
  IN Ordered(told, LAMBDA a, b : VisitedBefore(a.point, b.point))

Fill ==
  /\ stage = "transfer"
  /\ \A r \in Ranks : LoopDone(r)
  /\ stage' = "filled"
  /\ \E C \in {[r \in Ranks |-> [e \in PairsOnto(r) |-> OverlapCells(r, e)]]} :
     \E N \in {[r \in Ranks |-> [e \in PairsOnto(r) |-> MGridRanks(C, r, e)]]} :
     \E L \in {[r \in Ranks |-> {e \in PairsOnto(r) : N[r][e] # {}}]} :
       /\ created' = [r \in Ranks |-> OverlappingGridIDs(L, r)]
       /\ overlapN' = [r \in Ranks |-> [e \in PairsOnto(r) \intersect created'[r] |->
                         IF e \in L[r] THEN OverlapNData(C[r][e], N[r][e], e[1]) ELSE <<>>]]
       /\ overlapM' = [r \in Ranks |-> [e \in PairsFrom(r) \intersect created'[r] |->
                         OverlapMData(C, N, r, e)]]
  /\ UNCHANGED <<here, workVars, answerVars, searchVars, finished>>

Done == stage = "filled" /\ UNCHANGED vars

----------------------------------------------------------------------------
Init ==
  /\ here \in Cases
  /\ stage = "hash"
  /\ hash = [bins |-> <<>>] /\ queries = <<>> /\ work = <<>>
  /\ nextRecv = <<>> /\ nextLocal = [r \in Ranks |-> 0]
  /\ slots = <<>> /\ posted = <<>> /\ flying = <<>> /\ searched = <<>>
  /\ data = [r \in Ranks |-> [slot \in Slots |-> EmptySlot]]
  /\ wire = [s \in Ranks |-> [r \in Ranks |-> <<>>]]
  /\ signals = [r \in Ranks |-> [s \in Ranks |-> 0]]
  /\ answered = [s \in Ranks |-> [r \in Ranks |-> 0]]
  /\ inOrder = TRUE
  /\ finished = [r \in Ranks |-> 0]
  /\ overlapM = <<>> /\ overlapN = <<>> /\ created = [r \in Ranks |-> {}]

Library(r, s) == stage = "transfer" /\ (SignalArrives(r, s) \/ Arrive(s, r))

Next ==
  \/ Hash \/ Connect \/ Fill \/ Done
  \/ \E r \in Ranks : Turn(r)
  \/ \E r, s \in Ranks : Library(r, s)

\* Some rank in the loop goes on, and the MPI library delivers some of what is sent.
Fairness == WF_vars(\E r \in Ranks : Turn(r)) /\ WF_vars(\E r, s \in Ranks : Library(r, s))

Spec == Init /\ [][Next]_vars /\ Fairness

----------------------------------------------------------------------------
\* Properties

\* As long as Testsome lists signals in the order in which they were sent, the buffers of a
\* slot hold what was asked for with it: messages meet the receives that were posted for
\* them, whatever the order in which slots become free.  It need not be so in another order:
\* messages have one tag, and what meets a receive may even be too long for it.
SlotsHoldTheirFragment ==
  stage = "transfer" /\ inOrder =>
    \A r \in Ranks : \A slot \in {i \in Slots : slots[r][i] # 0} : \A part \in 1 .. Parts :
      data[r][slot][part] \in {Nothing, Entry(r, slot)}

\* Every fragment that a point of a rank may lie in is searched, and no more than once, in
\* whatever order signals are listed.
FragmentsSearchedOnce ==
  stage = "transfer" =>
    \A r \in Ranks : \A f \in DOMAIN searched[r] :
      Len(searched[r][f]) <= 1 /\ (LoopDone(r) => Len(searched[r][f]) = 1)

\* Ranks do not wait for each other forever in the loop, unless signals are listed in another
\* order than that in which they were sent.
LoopsDone == stage \in {"transfer", "filled"} /\ \A r \in Ranks : LoopDone(r)
LoopsEnd == stage = "transfer" ~> LoopsDone \/ ~inOrder

\* The overlaps there are when all signals have been listed in the order in which they were
\* sent: that it be so is left to the MPI library, and no property below holds without it.
Filled == stage = "filled" /\ inOrder

\* What is found is what one rank with the whole of the grids would find: for a point of n,
\* of the active cells of m that it overlaps, the one it fits best.
Overlapping(m, n, p) ==
  {c \in ActiveCells(m, CellCart(m).range) : Within(CellBounds(m, c, Tolerance(m, n)), Coords(n, p))}
OverlapAsInOnePlace ==
  Filled =>
    \A e \in DOMAIN here.tolerance :
      UNION {{<<x.point, x.cell>> : x \in ToSet(overlapN[r][e])} :
               r \in {s \in Ranks : e \in DOMAIN overlapN[s]}}
        = {<<p, BestCell(e[1], Coords(e[2], p), Overlapping(e[1], e[2], p))>> :
             p \in {x \in Active(e[2]) : Overlapping(e[1], e[2], x) # {}}}

\* For what is sent and received along an overlap, the two sides agree on the points and on
\* their order: each point has one source, which holds the cell and has it as destination.
ToRank(list, r) == SelectSeq(list, LAMBDA x : x.rank = r)
BothSidesAgree ==
  Filled =>
    \A e \in DOMAIN here.tolerance : \A r \in DOMAIN here.grids[e[2]].local :
      e \in DOMAIN overlapN[r] =>
        /\ \A k \in DOMAIN overlapN[r][e] : overlapN[r][e][k].rank # -1
        /\ \A s \in DOMAIN here.grids[e[1]].local :
             [k \in DOMAIN ToRank(overlapM[s][e], r) |-> ToRank(overlapM[s][e], r)[k].point]
               = [k \in DOMAIN ToRank(overlapN[r][e], s) |-> ToRank(overlapN[r][e], s)[k].point]

\* Values at the corners of overlapping cells can be collected: what a rank waits for from
\* a neighbor is what the neighbor sends, going by the cells that it has been told of.
CellsTold(s, e) == {Box(x.cell, [d \in Dims |-> x.cell[d] + 2]) : x \in ToSet(overlapM[s][e])}
CollectsMatch ==
  Filled =>
    \A e \in DOMAIN here.tolerance :
      LET local == here.grids[e[1]].local
          C == Cart(e[1])
      IN \A s \in DOMAIN local : e \in DOMAIN overlapM[s] =>
           \A r \in DetectNeighbors(C, local, s) :
             CollectSends(C, local[s], local[r], CellsTold(s, e))
               = CollectRecvs(C, local[s], CellsTold(r, e))

\* All ranks create the same overlaps, those in which there is anything.
CreatedAlike ==
  Filled =>
    \A r \in Ranks : created[r] =
      {e \in DOMAIN here.tolerance : \E s \in Ranks : e \in DOMAIN overlapN[s] /\ overlapN[s][e] # <<>>}

\* The overlap of two grids is one object of all ranks: where it exists, what is exchanged
\* along it, and with whom.
SidesAgree == CreatedAlike /\ BothSidesAgree /\ CollectsMatch
=============================================================================
