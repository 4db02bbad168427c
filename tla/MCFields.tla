------------------------------ MODULE MCFields ------------------------------
(***************************************************************************)
(* Carts, decompositions, programs and masks for TLC.                      *)
(***************************************************************************)
EXTENDS GridData

GridCart(nx, ny, px, py, storage) ==
  [range |-> Box(<<0, 0>>, <<nx, ny>>), periodic |-> <<px, py>>, storage |-> storage]

\* Ranks in x, cut at the given places.
InX(C, cuts) ==
  [r \in 0..Len(cuts) |->
     Box(<<IF r = 0 THEN 0 ELSE cuts[r], 0>>,
         <<IF r = Len(cuts) THEN C.range.end[1] ELSE cuts[r + 1], C.range.end[2]>>)]
\* Four ranks that meet in a corner.
InQuarters(C, x, y) ==
  [r \in 0..3 |->
     Box(<<IF r % 2 = 0 THEN 0 ELSE x, IF r < 2 THEN 0 ELSE y>>,
         <<IF r % 2 = 0 THEN x ELSE C.range.end[1], IF r < 2 THEN y ELSE C.range.end[2]>>)]

Edges == {[kind |-> "edge", type |-> t, bc |-> b, exterior |-> e] :
            t \in {"INNER", "OUTER"}, b \in {"TRUE", "FALSE", "MIRROR"}, e \in BOOLEAN}
DilateBy(b) == [kind |-> "dilate", bc |-> b]
ErodeBy(b) == [kind |-> "erode", bc |-> b]
FloodOp == [kind |-> "flood"]
CellAt(c) == Box(c, [d \in Dims |-> c[d] + 2])
CollectOp(reduce, corners) ==
  [kind |-> "collect", reduce |-> reduce, cells |-> {CellAt(c) : c \in corners}]

Case(C, local, program, M, walls) ==
  [grid |-> [cart |-> C, local |-> local], program |-> program, mask |-> M, barrier |-> walls,
   length |-> <<40, 20>>]

\* Duplicated points of a periodic cart carry one value.
Consistent(C, M) == {p \in Points(C.range) : PeriodicAdjust(C, p) \in M}

Line == GridCart(6, 2, FALSE, FALSE, "UNIQUE")
Ring == GridCart(6, 2, TRUE, FALSE, "UNIQUE")
Doubled == GridCart(7, 2, TRUE, FALSE, "DUPLICATED")
Long == GridCart(9, 2, TRUE, FALSE, "UNIQUE")

Torus == GridCart(6, 6, TRUE, TRUE, "UNIQUE")

Small == {Line, Ring, Doubled}
SmallMasks == {{<<0, 0>>}, {<<2, 1>>, <<3, 0>>}, {<<5, 0>>, <<0, 1>>, <<1, 1>>},
               {<<2, 0>>, <<2, 1>>, <<4, 1>>, <<5, 1>>}}
Walls == {{<<0, 0>>, <<0, 1>>, <<3, 0>>, <<3, 1>>}, {<<1, 0>>, <<2, 1>>, <<4, 1>>, <<5, 0>>},
          {<<2, 0>>, <<3, 0>>, <<5, 0>>, <<5, 1>>}}

OnTwo ==
  {Case(C, InX(C, <<3>>), <<e, DilateBy("FALSE"), ErodeBy(e.bc)>>, Consistent(C, M), {}) :
     C \in Small, e \in Edges, M \in SmallMasks}
FloodsOnTwo ==
  {Case(C, InX(C, <<3>>), <<FloodOp, DilateBy("MIRROR")>>, Consistent(C, M), Consistent(C, W)) :
     C \in Small, M \in SmallMasks, W \in Walls}
FloodsOnThree ==
  {Case(Long, InX(Long, <<3, 6>>), <<FloodOp, ErodeBy("FALSE")>>, M,
        {<<1, 0>>, <<1, 1>>, <<5, 0>>, <<5, 1>>} \union X) :
     M \in {{<<0, 0>>}, {<<4, 1>>, <<1, 0>>}}, X \in {{}, {<<8, 0>>, <<8, 1>>}}}
\* Ranks two points wide: those at the ends have points of each other in their halos, and
\* are no neighbors unless the cart is periodic.
FloodsOnNarrow ==
  {Case(C, InX(C, <<2, 4>>), <<DilateBy("MIRROR"), FloodOp>>, M, W) :
     C \in {Line, Ring}, M \in {{<<0, 0>>}, {<<4, 0>>}}, W \in Walls}
\* Ranks that hold all of a period: they copy points to their own halo.
Tube == GridCart(6, 3, FALSE, TRUE, "UNIQUE")
AroundOwn ==
  {Case(Tube, InX(Tube, <<3>>), <<DilateBy("TRUE"), ErodeBy("MIRROR"), CollectOp("ALL", {<<2, 2>>})>>,
        M, {}) : M \in {{<<0, 0>>}, {<<3, 2>>, <<4, 1>>}}}
Corners ==
  {Case(Torus, InQuarters(Torus, 3, 3), <<DilateBy("FALSE")>>, {<<0, 0>>, <<3, 2>>}, {})}

\* Cells by the corner they begin at, also those between ranks and across the period.
OnPair(C, corners) ==
  {Case(C, InX(C, <<3>>), <<CollectOp(x, corners), DilateBy("MIRROR"), CollectOp("ANY", corners)>>,
        M, {}) : x \in {"ALL", "NONE", "NOT_ALL"}, M \in SmallMasks}
CollectsOnTwo ==
  UNION {OnPair(C, corners) : C \in {Line, Ring}, corners \in {{<<0, 0>>, <<2, 0>>, <<4, 0>>}, {<<1, 0>>, <<2, 0>>}}}
  \union UNION {OnPair(Ring, corners) : corners \in {{<<5, 0>>}, {<<2, 0>>, <<4, 0>>, <<5, 0>>}}}
CollectsOnFour ==
  {Case(Torus, InQuarters(Torus, 3, 3), <<CollectOp("ALL", corners)>>,
        Points(Torus.range) \ {<<0, 0>>}, {}) :
     corners \in {{<<2, 2>>}, {<<5, 5>>, <<2, 5>>}}}

\* Coordinates set again and again, with the periodic length changed in between.
CoordsOp(stretch, by) == [kind |-> "coords", stretch |-> stretch, by |-> by]
LengthOp(x, y) == [kind |-> "length", length |-> <<x, y>>]
FlagsOp(M) == [kind |-> "flags", mask |-> M]
Geometries ==
  {Case(G[1], InX(G[1], <<G[2]>>),
        <<CoordsOp(1, 0), LengthOp(50, 30), CoordsOp(1, 2), CoordsOp(2, 2)>>, {}, {}) :
     G \in {<<Line, 3>>, <<Ring, 3>>, <<Doubled, 3>>, <<Doubled, 4>>, <<Tube, 3>>}}
  \union {Case(Long, InX(Long, <<3, 6>>), <<CoordsOp(1, 0)>>, {}, {})}
StatesOnTwo ==
  {Case(C, InX(C, <<3>>), <<DilateBy("TRUE"), FlagsOp(Consistent(C, M)), ErodeBy("MIRROR")>>,
        Consistent(C, {<<3, 1>>}), {}) : C \in Small, M \in SmallMasks}

FieldCases ==
  OnTwo \union FloodsOnTwo \union FloodsOnThree \union FloodsOnNarrow \union AroundOwn \union Corners
    \union CollectsOnTwo \union CollectsOnFour \union Geometries \union StatesOnTwo
=============================================================================
