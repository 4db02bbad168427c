------------------------------ MODULE XINTOUT -------------------------------
(***************************************************************************)
(* The import of connectivity from XINTOUT files (extras/XINTOUT.cpp).     *)
(* Some ranks of each grid read a chunk of its donors and one of its       *)
(* receivers; donor and receiver of a connection meet in a bin, on the     *)
(* rank that its ID leads to; they go to the ranks that hold their points; *)
(* and the connectivities they belong to are created and filled.  A rank   *)
(* follows its program, one operation after the other, most of them        *)
(* collective; an error makes it skip some.                                *)
(***************************************************************************)
EXTENDS DecompHash, Chunks

LOCAL Seqs == INSTANCE SequencesExt

CONSTANTS
    NumRanks,       \* the processes of the domain
    Files           \* the domains and files there are

Ranks == 0 .. NumRanks-1
Sides == {"donors", "receivers"}
Other(side) == IF side = "donors" THEN "receivers" ELSE "donors"
Unset == [grid |-> 0, place |-> NoPoint]        \* what memory holds that nobody wrote

----------------------------------------------------------------------------
\* A file f: grids with their ranks, carts and local ranges, and the donors, receivers and
\* first connection of each; how it is to be read, and what of it cannot be.  A record is of
\* a grid, at a place, and has an ID.
Grids(f) == DOMAIN f.grids
RanksOf(f, g) == Seqs!ToSet(f.grids[g].ranks)
LocalGrids(f, r) == {g \in Grids(f) : r \in RanksOf(f, g)}
CommRank(f, g, r) == (CHOOSE k \in DOMAIN f.grids[g].ranks : f.grids[g].ranks[k] = r) - 1
Count(f, g, side) == Len(IF side = "donors" THEN f.grids[g].donors ELSE f.grids[g].receivers)
NumPoints(f, g) == Cardinality(Points(f.grids[g].cart.range))

\* Donors are numbered from the starting ID on, receivers have theirs in the file.
Record(f, g, side, i) ==
  LET G == f.grids[g]
  IN [grid |-> g, other |-> Unset,
      place |-> IF side = "donors" THEN G.donors[i] ELSE G.receivers[i].point,
      id |-> IF side = "donors" THEN G.starting - 1 + i - 1 ELSE G.receivers[i].id - 1]

\* The rank of the bin in which a connection meets.
Total(number) == Seqs!FoldSeq(LAMBDA g, sum : number[g] + sum, 0, Ascending(DOMAIN number))
NumConnections(f) == Total([g \in Grids(f) |-> Count(f, g, "receivers")])
BinSize(f) ==
  Least(BinDivide(Total([g \in Grids(f) |-> NumPoints(f, g)]), NumRanks), NumConnections(f))
BinOf(f, rec) == rec.id \div BinSize(f)

\* The ranks that read, and what.
Interval(f, g, side) ==
  LET max == Len(f.grids[g].ranks)
  IN ChunkRankInterval(Count(f, g, side), max, BinDivide(NumPoints(f, g), max), f.adjust)
HasChunk(f, r, g, side) == CommRank(f, g, r) % Interval(f, g, side) = 0
ChunkOf(f, r, g, side) ==
  Slice(Count(f, g, side),
        ChunkSize(Count(f, g, side), Len(f.grids[g].ranks), Interval(f, g, side)),
        CommRank(f, g, r) \div Interval(f, g, side))

\* The operations, of the domain (grid 0) or a grid, and of a side if there are two; and
\* who takes part in them.
Op(what, g, side) == [what |-> what, grid |-> g, side |-> side]
Global == Op("global", 0, "")
Check == Op("check", 0, "")
Totals == Op("totals", 0, "")
Announce == Op("handshake", 0, "")              \* whom to expect records from
Meet == Op("meet", 0, "")
Answer == Op("answer", 0, "")
Create == Op("create", 0, "")
Out == Op("out", 0, "")                         \* through with the import
Members(f, op) ==
  IF op.grid = 0 THEN Ranks
  ELSE {r \in RanksOf(f, op.grid) :
          op.what \in {"size", "read"} => HasChunk(f, r, op.grid, op.side)}

\* What there may be in a file.  Every connection meets on a rank there is; every chunk is of
\* the records, but with some numbers of them the last begins behind them and is taken for one
\* too big; the opening of a file is collective, and fails for all who take part.
CanFail(f) ==
  {Global} \union {Op("info", g, "") : g \in Grids(f)}
    \union UNION {UNION {{Op("size", g, side), Op("read", g, side)} : side \in Sides} : g \in Grids(f)}
FaultsInMembers(f) ==
  \A x \in f.faults :
    /\ x.op \in CanFail(f) /\ x.code \in {"open", "read"}
    /\ x.ranks # {} /\ x.ranks \subseteq Members(f, x.op)
    /\ x.op.what = "size" => x.ranks = Members(f, x.op)
WellFormed(f) ==
  /\ \A g \in Grids(f) : g \in Nat \ {0} /\ RanksOf(f, g) \subseteq Ranks
  /\ \A g \in Grids(f), side \in Sides :
       /\ Count(f, g, side) \in Nat
       /\ \A i \in 1 .. Count(f, g, side) : BinOf(f, Record(f, g, side, i)) \in Ranks
       /\ \A r \in RanksOf(f, g) : HasChunk(f, r, g, side) /\ ~TooBig(ChunkOf(f, r, g, side)) =>
            \E begin, end \in 0 .. Count(f, g, side) :
              begin <= end /\ ChunkOf(f, r, g, side) = [begin |-> begin, end |-> end]
  /\ FaultsInMembers(f)

ASSUME FilesAssumption == \A f \in Files : WellFormed(f)

----------------------------------------------------------------------------

VARIABLES
    file,       \* the file in use
    at,         \* at[r]: the operation that rank r has come to
    said,       \* said[r][op]: the error rank r had when it came to an operation
    error,      \* error[r]: the error rank r is dealing with, or has thrown at the end
    chunk,      \* chunk[r][side]: the records rank r has read, of one grid after the other
    bin,        \* bin[r][id]: both sides of the connections that meet on rank r
    targets,    \* targets[r][side]: the ranks that get the records of its chunk
    held,       \* held[r][side]: the records that have come to rank r
    conn        \* conn[r][side]: the connectivities of rank r, of the one or the other grid

vars == <<file, at, said, error, chunk, bin, targets, held, conn>>

Grid(g) == file.grids[g]

----------------------------------------------------------------------------
\* The program of a rank.

\* An operation of the first of some grids, or where it goes on if there are none.
FirstOr(what, gs, op) == IF gs = {} THEN op ELSE Op(what, Min(gs), "")
Later(r, g) == {h \in LocalGrids(file, r) : h > g}
AfterInDomain(r, op) ==
  CASE op = Global -> FirstOr("info", LocalGrids(file, r), Check)
    [] op = Check -> Totals
    [] op = Totals -> Announce
    [] op = Announce -> Meet
    [] op = Meet -> Answer
    [] op = Answer -> FirstOr("hash", LocalGrids(file, r), Create)
    [] op = Create -> Out
AfterInGrid(r, op) ==
  CASE op.what = "info" -> Op("split", op.grid, "donors")
    [] op.what = "split" -> Op("size", op.grid, op.side)
    [] op.what = "size" -> Op("read", op.grid, op.side)
    [] op.what = "read" -> Op("agree", op.grid, op.side)
    [] op.what = "agree" -> IF op.side = "donors" THEN Op("split", op.grid, "receivers")
                            ELSE FirstOr("info", Later(r, op.grid), Check)
    [] op.what = "hash" -> Op("handshake", op.grid, "")
    [] op.what = "handshake" -> Op("deliver", op.grid, "")
    [] op.what = "deliver" -> FirstOr("hash", Later(r, op.grid), Create)
OpAfter(r, op) == IF op.grid = 0 THEN AfterInDomain(r, op) ELSE AfterInGrid(r, op)

CameTo(op) == {r \in Members(file, op) : op \in DOMAIN said[r]}

\* captured_error::Sync: the lowest code is everyone's who has none of their own.
Lowest(codes) == IF "open" \in codes THEN "open" ELSE IF "read" \in codes THEN "read" ELSE "none"
OwnError(r, op) == error[r]                                                  \* nobody is told
FirstRanksError(r, op) == said[Min(Members(file, op))][op]                         \* as in a broadcast
SyncedError(r, op) ==
  IF error[r] # "none" THEN error[r] ELSE Lowest({said[q][op] : q \in Members(file, op)})

\* The errors a rank meets in an operation; those in "size" and "read" are synchronised among
\* the ranks that read.
Fault(r, op) ==
  LET fs == {f \in file.faults : f.op = op /\ r \in f.ranks}
  IN IF fs = {} THEN "none" ELSE (CHOOSE f \in fs : TRUE).code
ErrorIn(r, op) ==
  CASE op.what \in {"global", "info", "agree", "check"} -> SyncedError(r, op)
    [] op.what = "size" -> IF \E q \in Members(file, op) : TooBig(ChunkOf(file, q, op.grid, op.side))
                           THEN "read" ELSE Fault(r, op)          \* of the opening that follows
    [] op.what = "read" -> Lowest({Fault(q, op) : q \in Members(file, op)})
    [] OTHER -> "none"

\* Where a rank comes to from an operation: "catch" leads out of the loop over the grids.
NextOp(r, op, e) ==
  CASE op.what \in {"global", "check"} /\ e # "none" -> Out
    [] op.what \in {"info", "agree"} /\ e # "none" -> Check
    [] \/ op.what = "split" /\ ~HasChunk(file, r, op.grid, op.side)
       \/ op.what = "size" /\ e # "none" -> Op("agree", op.grid, op.side)
    [] OTHER -> OpAfter(r, op)

----------------------------------------------------------------------------
\* Donors and receivers meet.

InBins(r, side) == {BinOf(file, chunk[r][side][i]) : i \in DOMAIN chunk[r][side]}
SentToBin(r, side, b) == SelectSeq(chunk[r][side], LAMBDA rec : BinOf(file, rec) = b)

\* The bin of a rank, each entry as the last record says that has come for it.
Filled(b) ==
  LET come(side) == Seqs!FlattenSeq([k \in 1 .. NumRanks |-> SentToBin(k - 1, side, b)])
      ids == {id \in BinSize(file) * b .. Least(BinSize(file) * (b + 1), NumConnections(file)) - 1 : TRUE}
      entry(recs, id) ==
        LET places == {k \in DOMAIN recs : recs[k].id = id}
        IN IF places = {} THEN Unset ELSE [grid |-> recs[Max(places)].grid, place |-> recs[Max(places)].place]
  IN [id \in ids |-> [side \in Sides |-> entry(come(side), id)]]

AnswersInReverse(b, r, side) ==
  Seqs!Reverse([k \in DOMAIN SentToBin(r, side, b) |->
                  bin[b][SentToBin(r, side, b)[k].id][Other(side)]])         \* last one first
\* A bin answers in the order it was asked, and so the rank unpacks.
Answers(b, r, side) ==
  [k \in DOMAIN SentToBin(r, side, b) |-> bin[b][SentToBin(r, side, b)[k].id][Other(side)]]
Unpacked(r, side) ==
  [i \in DOMAIN chunk[r][side] |->
     LET b == BinOf(file, chunk[r][side][i])
         before == Cardinality({j \in 1 .. i : BinOf(file, chunk[r][side][j]) = b})
     IN [chunk[r][side][i] EXCEPT !.other = Answers(b, r, side)[before]]]

----------------------------------------------------------------------------
\* They go to the ranks that hold their points.

DonorPoints(g, cell) ==
  IF Includes(Grid(g).cart.range, cell) THEN Points(cell)
  ELSE {PeriodicAdjust(Grid(g).cart, p) : p \in Points(cell)}
PointsOf(rec, side) == IF side = "donors" THEN DonorPoints(rec.grid, rec.place) ELSE {rec.place}
Local(g, k) == Grid(g).locals[k + 1]
HashOf(g) == CreateDecompHash([k \in 0 .. Len(Grid(g).ranks) - 1 |-> Local(g, k)])

\* The ranks that hold points of the records of a grid, next to those found before.
Targets(r, g, side) ==
  Once({targets[r][side] \o
        [i \in 1 .. Len(recs) |-> {Grid(g).ranks[Holder(H, p) + 1] : p \in PointsOf(recs[i], side)}] :
          H \in {HashOf(g)}, recs \in {SelectSeq(chunk[r][side], LAMBDA rec : rec.grid = g)}})

\* What the ranks of a grid have for a rank.
ForRank(q, r, g, side) ==
  LET recs == chunk[q][side]
      mine == {i \in DOMAIN recs : recs[i].grid = g /\ r \in targets[q][side][i]}
  IN [k \in 1 .. Cardinality(mine) |-> recs[Ascending(mine)[k]]]
Delivered(r, g, side) ==
  Seqs!FlattenSeq([k \in DOMAIN Grid(g).ranks |-> ForRank(Grid(g).ranks[k], r, g, side)])

\* The connectivities there are: those some rank has a receiver of.
Held(r, side, g, h) ==
  SelectSeq(held[r][side], LAMBDA rec : rec.grid = g /\ rec.other.grid = h)
Connectivities ==
  {c \in Grids(file) \X Grids(file) : \E r \in Ranks : Held(r, "receivers", c[2], c[1]) # <<>>}
Imported(r) ==
  [side \in Sides |->
     [c \in {c \in Connectivities : (IF side = "donors" THEN c[1] ELSE c[2]) \in LocalGrids(file, r)} |->
        IF side = "donors" THEN Held(r, side, c[1], c[2]) ELSE Held(r, side, c[2], c[1])]]

----------------------------------------------------------------------------

Nothing == [side \in Sides |-> <<>>]

Init ==
  /\ file \in Files
  /\ at = [r \in Ranks |-> Global]
  /\ said = [r \in Ranks |-> [op \in {Global} |-> Fault(r, Global)]]
  /\ error = [r \in Ranks |-> Fault(r, Global)]
  /\ chunk = [r \in Ranks |-> Nothing]
  /\ bin = [r \in Ranks |-> <<>>]
  /\ targets = [r \in Ranks |-> Nothing]
  /\ held = [r \in Ranks |-> Nothing]
  /\ conn = [r \in Ranks |-> Nothing]

\* An operation is over when everyone has come to it; records and answers take only those
\* they come from.
Awaited(r, op) ==
  CASE op.what = "meet" -> {q \in Ranks : r \in InBins(q, "donors") \union InBins(q, "receivers")}
    [] op.what = "answer" -> InBins(r, "donors") \union InBins(r, "receivers")
    [] op.what = "deliver" ->
         {q \in Members(file, op) : \E side \in Sides : ForRank(q, r, op.grid, side) # <<>>}
    [] OTHER -> Members(file, op)
Over(r, op) == Awaited(r, op) \subseteq CameTo(op)

\* Rank r comes to its next operation, or out of the import.
Arrive(r, next, e) ==
  LET found == IF next.what = "info" THEN Fault(r, next) ELSE e
  IN /\ at' = [at EXCEPT ![r] = next]
     /\ error' = [error EXCEPT ![r] = found]
     /\ said' = [said EXCEPT ![r] =
                   [op \in DOMAIN said[r] \union {next} |-> IF op = next THEN found ELSE said[r][op]]]

\* Rank r goes through an operation and does its part.
Step(r) ==
  /\ at[r] # Out
  /\ \E op \in {at[r]} :
       /\ Over(r, op)
       /\ \E e \in {ErrorIn(r, op)} : Arrive(r, NextOp(r, op, e), e)
       /\ chunk' = CASE op.what = "read" /\ ErrorIn(r, op) = "none" ->
                          [chunk EXCEPT ![r][op.side] =
                             LET s == ChunkOf(file, r, op.grid, op.side)
                             IN @ \o [i \in 1 .. s.end - s.begin |-> Record(file, op.grid, op.side, s.begin + i)]]
                     [] op.what = "answer" ->
                          [chunk EXCEPT ![r] = [side \in Sides |-> Unpacked(r, side)]]
                     [] OTHER -> chunk
       /\ bin' = IF op.what = "meet" THEN [bin EXCEPT ![r] = Filled(r)] ELSE bin
       /\ targets' = IF op.what # "hash" THEN targets
                     ELSE [targets EXCEPT ![r] = [side \in Sides |-> Targets(r, op.grid, side)]]
       /\ held' = IF op.what # "deliver" THEN held
                  ELSE [held EXCEPT ![r] =
                          [side \in Sides |-> @[side] \o Delivered(r, op.grid, side)]]
       /\ conn' = IF op.what = "create" THEN [conn EXCEPT ![r] = Imported(r)] ELSE conn
  /\ UNCHANGED file

Finished ==
  /\ \A r \in Ranks : at[r] = Out
  /\ UNCHANGED vars

Next == (\E r \in Ranks : Step(r)) \/ Finished

Spec == Init /\ [][Next]_vars
-----------------------------------------------------------------------------
\* Who is through, and whether it was thrown out.
Through(r) == at[r] = Out
Thrown(r) == Through(r) /\ error[r] # "none"
Imports(r) == Through(r) /\ error[r] = "none"

\* What the file says of a pair of grids: cells and points of the same connection.
Written(m, n) ==
  {<<w[1].place, w[2].place>> :
     w \in {w \in {<<Record(file, m, "donors", i), Record(file, n, "receivers", j)>> :
                     i \in DOMAIN Grid(m).donors, j \in DOMAIN Grid(n).receivers} :
              w[1].id = w[2].id}}
HoldsAny(r, g, ps) == \E p \in ps : HasPoint(Local(g, CommRank(file, g, r)), p)
Pairs(recs) == {<<recs[i].place, recs[i].other.place>> : i \in DOMAIN recs}

\* Whoever reads which part of the file, and wherever donor and receiver meet: every rank with
\* a point of a donor's cell has the donor once, with its receiver's point, in the
\* connectivity of their grids, and the rank of the point has the receiver once, with the
\* cell; nobody has anything else.
ImportedAsWritten ==
  \A r \in Ranks : Imports(r) =>
    /\ \A m \in LocalGrids(file, r) : \A n \in Grids(file) :
         LET mine == {w \in Written(m, n) : HoldsAny(r, m, DonorPoints(m, w[1]))}
             has == conn[r].donors
         IN IF <<m, n>> \in DOMAIN has
            THEN Pairs(has[<<m, n>>]) = mine /\ Len(has[<<m, n>>]) = Cardinality(mine)
            ELSE mine = {}
    /\ \A n \in LocalGrids(file, r) : \A m \in Grids(file) :
         LET mine == {w \in Written(m, n) : HoldsAny(r, n, {w[2]})}
             has == conn[r].receivers
         IN IF <<m, n>> \in DOMAIN has
            THEN /\ Pairs(has[<<m, n>>]) = {<<w[2], w[1]>> : w \in mine}
                 /\ Len(has[<<m, n>>]) = Cardinality(mine)
            ELSE mine = {}

\* A chunk that begins behind the records.
Behind(g, side) ==
  \E r \in Members(file, Op("size", g, side)) : TooBig(ChunkOf(file, r, g, side))

\* A file that somebody cannot read a part of, or in which a chunk begins behind the records, is
\* thrown out on all ranks of the domain, and any other is imported on all, however finely the
\* reading is divided.
AllThrowOrNone ==
  \A r \in Ranks : Through(r) =>
    (Thrown(r) <=> file.faults # {} \/ \E g \in Grids(file), side \in Sides : Behind(g, side))

\* What cannot be read is of the grid that each of its ranks reads last: a rank that fails in
\* another one leaves the loop over its grids, and the others of the next grid waiting for it.
Unreadable(g) ==
  (\E x \in file.faults : x.op.grid = g) \/ \E side \in Sides : Behind(g, side)
UnreadableLast ==
  \A g \in Grids(file) : Unreadable(g) =>
    \A r \in RanksOf(file, g) : \A h \in LocalGrids(file, r) : h <= g

\* The import then comes to an end on every rank, with an error or without: as long as somebody
\* is on the way, some rank's operation is over, and every operation leads further on in the
\* program ("check" is where the errors of the reading lead).
SomebodyGoesOn ==
  UnreadableLast =>
    \/ \A r \in Ranks : Through(r)
    \/ \E r \in Ranks : ~Through(r) /\ Over(r, at[r])
=============================================================================
