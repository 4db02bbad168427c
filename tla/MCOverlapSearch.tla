--------------------------- MODULE MCOverlapSearch ---------------------------
EXTENDS OverlapSearch

Rectangle(a, b) == Box(<<0, 0>>, <<a, b>>)
Plain(R) == [range |-> R, periodic |-> [d \in Dims |-> FALSE], storage |-> "UNIQUE"]
Grid(size, local, origin, spacing, holes) ==
  [cart |-> Plain(Rectangle(size[1], size[2])), local |-> local, origin |-> origin,
   spacing |-> spacing, active |-> Points(Rectangle(size[1], size[2])) \ holes]

\* Two ranks with the halves of a grid, left and right or below and above.
LeftRight(size, a, b, at) ==
  [r \in {a, b} |-> IF r = a THEN Box(<<0, 0>>, <<at, size[2]>>) ELSE Box(<<at, 0>>, size)]
BelowAbove(size, a, b, at) ==
  [r \in {a, b} |-> IF r = a THEN Box(<<0, 0>>, <<size[1], at>>) ELSE Box(<<0, at>>, size)]

Case(ranks, grids, tolerance) == [ranks |-> ranks, grids |-> grids, tolerance |-> tolerance]
OneWay(t) == [e \in {<<1, 2>>} |-> t]

\* A fine grid under one that is as large, and with a rank of its own.
Covered == Case(3, <<Grid(<<5, 3>>, LeftRight(<<5, 3>>, 0, 1, 1), <<0, 0>>, 4, {}),
                     Grid(<<4, 2>>, BelowAbove(<<4, 2>>, 1, 2, 1), <<2, 2>>, 4, {})>>, OneWay(0))
\* Points on the edges of cells, some beyond them, and a hole.
Edges == Case(2, <<Grid(<<5, 3>>, LeftRight(<<5, 3>>, 0, 1, 2), <<0, 0>>, 4, {<<4, 2>>}),
                   Grid(<<3, 3>>, BelowAbove(<<3, 3>>, 0, 1, 1), <<5, 0>>, 4, {})>>, OneWay(1))
\* Of the second grid, only points of the last rank overlap, and with one rank's cells.
Aside == Case(3, <<Grid(<<3, 3>>, LeftRight(<<3, 3>>, 0, 2, 1), <<8, 0>>, 4, {}),
                   Grid(<<4, 3>>, LeftRight(<<4, 3>>, 1, 2, 2), <<-2, 0>>, 4, {})>>, OneWay(0))
\* A hole takes all the cells of a rank, but not those that it shares with the other.
Masked == Case(3, <<Grid(<<4, 3>>, LeftRight(<<4, 3>>, 0, 2, 2), <<8, 0>>, 4, {<<3, 0>>, <<3, 1>>, <<3, 2>>}),
                    Grid(<<4, 3>>, LeftRight(<<4, 3>>, 1, 2, 2), <<4, 0>>, 4, {})>>, OneWay(0))

PassCases == {Covered, Edges, Aside}
MaskedCases == {Masked}
==============================================================================
