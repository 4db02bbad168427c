----------------------------- MODULE MCXINTOUT ------------------------------
(* Two grids of four by two points, or one alone, on three ranks.            *)
EXTENDS XINTOUT

Cart(range, periodic, storage) == [range |-> range, periodic |-> periodic, storage |-> storage]
Row == Box(<<0, 0>>, <<4, 2>>)
Open == Cart(Row, <<FALSE, FALSE>>, "UNIQUE")
Round == Cart(Row, <<TRUE, FALSE>>, "UNIQUE")

\* The points in x are divided at given places.
Divided(cuts) ==
  [k \in 1 .. Len(cuts) - 1 |-> Box(<<cuts[k], 0>>, <<cuts[k + 1], 2>>)]
Cuts(n) == CASE n = 1 -> <<0, 4>> [] n = 2 -> <<0, 1, 4>> [] n = 3 -> <<0, 2, 3, 4>>

Cell(x, w) == Box(<<x, 0>>, <<x + w, 2>>)
Receiver(point, id) == [point |-> point, id |-> id]

GridOf(ranks, cart, donors, receivers, starting) ==
  [ranks |-> ranks, cart |-> cart, locals |-> Divided(Cuts(Len(ranks))),
   donors |-> donors, receivers |-> receivers, starting |-> starting]

\* The donors of the second grid are numbered first; the receivers are in another order.
TwoGrids(first, second, cart) ==
  <<GridOf(first, cart, <<Cell(3, 2), Cell(0, 2), Cell(1, 2)>>,
           <<Receiver(<<2, 0>>, 2), Receiver(<<3, 0>>, 1)>>, 3),
    GridOf(second, Open, <<Cell(2, 2), Cell(1, 1)>>,
           <<Receiver(<<0, 1>>, 5), Receiver(<<3, 1>>, 3), Receiver(<<1, 0>>, 4)>>, 1)>>
OneGrid(n) ==
  <<GridOf([k \in 1 .. n |-> k - 1], Round, <<Cell(3, 2), Cell(0, 1), Cell(2, 1)>>,
           <<Receiver(<<1, 0>>, 3), Receiver(<<1, 1>>, 1), Receiver(<<0, 0>>, 2)>>, 1)>>

\* More connections than the points make room for on one rank: seven of eight points in bins
\* of three, eight of sixteen in bins of six; chunks have records for several of them, in
\* turns.
ManyInOne(n) ==
  <<GridOf([k \in 1 .. n |-> n - k], Round,
           <<Cell(3, 2), Cell(0, 1), Cell(2, 1), Cell(0, 2), Cell(1, 2), Cell(2, 2), Cell(1, 1)>>,
           <<Receiver(<<1, 0>>, 6), Receiver(<<1, 1>>, 1), Receiver(<<0, 0>>, 4), Receiver(<<2, 0>>, 7),
             Receiver(<<0, 1>>, 3), Receiver(<<3, 1>>, 5), Receiver(<<3, 0>>, 2)>>, 1)>>
ManyInTwo(first, second) ==
  <<GridOf(first, Round, <<Cell(3, 2), Cell(0, 2), Cell(1, 2), Cell(2, 1)>>,
           <<Receiver(<<2, 0>>, 7), Receiver(<<3, 0>>, 2), Receiver(<<0, 1>>, 8), Receiver(<<1, 1>>, 4)>>, 5),
    GridOf(second, Open, <<Cell(2, 2), Cell(1, 1), Cell(0, 2), Cell(1, 2)>>,
           <<Receiver(<<0, 1>>, 6), Receiver(<<3, 1>>, 3), Receiver(<<1, 0>>, 5), Receiver(<<2, 1>>, 1)>>, 1)>>

FileOf(grids, adjust, faults) == [grids |-> grids, adjust |-> adjust, faults |-> faults]
FaultAt(op, ranks, code) == [op |-> op, ranks |-> ranks, code |-> code]

Layouts ==
  {<<<<0, 1>>, <<1, 2>>>>, <<<<0>>, <<1, 2>>>>, <<<<2, 0>>, <<0, 1, 2>>>>, <<<<0, 1, 2>>, <<2, 1, 0>>>>}
Good ==
  {FileOf(TwoGrids(l[1], l[2], Round), adjust, {}) : l \in Layouts, adjust \in {-1, 0, 1}}
    \union {FileOf(OneGrid(n), adjust, {}) : n \in 1 .. 3, adjust \in {-1, 0, 2}}
SeveralBins ==
  {FileOf(ManyInOne(n), 0, {}) : n \in 1 .. 3}
    \union {FileOf(ManyInTwo(l[1], l[2]), adjust, {}) :
              l \in {<<<<0, 1>>, <<1, 2>>>>, <<<<2, 0>>, <<0, 1, 2>>>>}, adjust \in {0, 1}}

\* The header, the file, the grid or the data cannot be read: on grids that share no rank,
\* or in the one that everybody reads last.
Faults(g, ranks) ==
  {{FaultAt(Op("info", g, ""), {ranks[1]}, code)} : code \in {"open", "read"}}
    \union {{FaultAt(Op("read", g, side), {q}, "read")} : side \in Sides, q \in {ranks[k] : k \in DOMAIN ranks}}
    \union {{FaultAt(Op("size", g, side), {ranks[k] : k \in DOMAIN ranks}, "open")} : side \in Sides}
Bad ==
  {FileOf(TwoGrids(<<0>>, <<1, 2>>, Round), 1, fs) :
     fs \in {{FaultAt(Op("global", 0, ""), {0}, "open")}} \union Faults(1, <<0>>) \union Faults(2, <<1, 2>>)
            \union {f \union h : f \in Faults(1, <<0>>), h \in Faults(2, <<1, 2>>)}}
    \union {FileOf(TwoGrids(<<0, 1>>, <<1, 2>>, Round), 1, fs) : fs \in Faults(2, <<1, 2>>)}

\* One donor and its receiver, chunked for three ranks: the second chunk is
\* empty, and the third begins behind it.
FewRecords ==
  {FileOf(<<GridOf(<<0, 1, 2>>, Round, <<Cell(3, 2)>>, <<Receiver(<<1, 0>>, 1)>>, 1)>>, adjust, {}) :
     adjust \in {0, 2}}
GoodAndBad == Good \union SeveralBins \union Bad \union FewRecords

=============================================================================
