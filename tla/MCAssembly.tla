----------------------------- MODULE MCAssembly -----------------------------
(***************************************************************************)
(* Grids, flags and options for TLC.  Boxes are placed on an integer       *)
(* lattice by an origin and a spacing; the ring winds around a body in the *)
(* middle of its background grid, in eight directions.                     *)
(***************************************************************************)
EXTENDS Assembly

GridCart(nx, ny, px, storage) ==
  [range |-> Box(<<0, 0>>, <<nx, ny>>), periodic |-> <<px, FALSE>>, storage |-> storage]
InX(C, cuts) ==
  [r \in 0..Len(cuts) |->
     Box(<<IF r = 0 THEN 0 ELSE cuts[r], 0>>,
         <<IF r = Len(cuts) THEN C.range.end[1] ELSE cuts[r + 1], C.range.end[2]>>)]
Grid(C, cuts, volume) == [cart |-> C, local |-> InX(C, cuts), volume |-> volume]

\* Where the points of a box are, and which of its cells holds a position.
PlaceIn(b, p) == [d \in Dims |-> b.origin[d] + b.spacing * p[d]]
CellOf(b, C, x) ==
  [d \in Dims |-> LET c == (x[d] - b.origin[d]) \div b.spacing
                  IN IF x[d] = b.origin[d] + b.spacing * (C.range.end[d] - 1) THEN c - 1 ELSE c]
BoxPlaces(b, C) == [p \in Points(C.range) |-> PlaceIn(b, p)]
BoxMeets(bm, M, bn, N) ==
  LET place == BoxPlaces(bn, N)
  IN [p \in {q \in Points(N.range) : CellOf(bm, M, place[q]) \in Cells(M)} |->
        CellOf(bm, M, place[p])]

NoFlags(C) ==
  [ACTIVE |-> Points(C.range), DOMAIN_BOUNDARY |-> {}, INTERNAL_BOUNDARY |-> {}]

\* Options of an assembly, the same for all grids and pairs but for those that are named.
Options(n, fringeSize, occludes, padding, smoothing, minimize, disjoint, infer, cut) ==
  LET ids == {id \in (1..n) \X (1..n) : id[1] # id[2]}
      Everywhere(v) == [id \in ids |-> v]
  IN [overlappable |-> Everywhere(TRUE), inferBoundaries |-> [g \in 1..n |-> infer],
      cutBoundaryHoles |-> [id \in ids |-> id \in cut],
      fringeSize |-> [g \in 1..n |-> IF g = 1 THEN fringeSize ELSE Min({1, fringeSize})],
      occludes |-> occludes,
      edgePadding |-> Everywhere(padding), edgeSmoothing |-> [g \in 1..n |-> smoothing],
      minimizeOverlap |-> Everywhere(minimize), connectionType |-> Everywhere("LINEAR"),
      disjointConnections |-> Everywhere(disjoint)]
Occludes(n, all, coarse) ==
  [id \in {i \in (1..n) \X (1..n) : i[1] # i[2]} |->
     IF id \in all THEN "ALL" ELSE IF id \in coarse THEN "COARSE" ELSE "NONE"]

----------------------------------------------------------------------------
\* A box in a box of coarser points
OuterBox == [origin |-> <<0, 0>>, spacing |-> 3]
InnerBox == [origin |-> <<5, 5>>, spacing |-> 2]
OuterCart == GridCart(11, 11, FALSE, "UNIQUE")
InnerCart == GridCart(13, 13, FALSE, "UNIQUE")
Both == {<<1, 2>>, <<2, 1>>}

BoxInBox(options) ==
  [grids |-> <<Grid(OuterCart, <<5>>, 9), Grid(InnerCart, <<4>>, 4)>>,
   flags |-> <<NoFlags(OuterCart), NoFlags(InnerCart)>>,
   meets |-> [id \in Both |-> IF id = <<1, 2>> THEN BoxMeets(OuterBox, OuterCart, InnerBox, InnerCart)
                              ELSE BoxMeets(InnerBox, InnerCart, OuterBox, OuterCart)],
   options |-> options]

BoxOptions ==
  {Options(2, f, Occludes(2, a, c), pad, smooth, min, dis, smooth = 0, {}) :
     f \in {1, 2}, <<a, c>> \in {<<{}, Both>>, <<{<<2, 1>>}, {}>>}, pad \in {0, 1},
     smooth \in {0, 1}, min \in BOOLEAN, dis \in {TRUE}}
Plain(n) == Options(n, 0, Occludes(n, {}, {}), 0, 0, FALSE, FALSE, FALSE, {})
BoxCases == {BoxInBox(<<o, Plain(2)>>) : o \in BoxOptions}

----------------------------------------------------------------------------
\* A ring around a body
BackBox == [origin |-> <<-12, -12>>, spacing |-> 3]
BackCart == GridCart(9, 9, FALSE, "UNIQUE")
Directions == <<<<1, 0>>, <<1, 1>>, <<0, 1>>, <<-1, 1>>, <<-1, 0>>, <<-1, -1>>, <<0, -1>>, <<1, -1>>>>
Radius(j) == 5 + 2 * j
RingCart(storage) == GridCart(IF storage = "UNIQUE" THEN 8 ELSE 9, 4, TRUE, storage)
RingPlace(p) == LET u == Directions[(p[1] % 8) + 1] IN [d \in Dims |-> Radius(p[2]) * u[d]]
Abs(x) == IF x < 0 THEN -x ELSE x
\* The octant and the layer of a position off the centre.
RingCell(x) ==
  LET r == Max({Abs(x[1]), Abs(x[2])})
      octant == CHOOSE k \in 0..7 :
        LET u == Directions[k + 1]
            v == Directions[((k + 1) % 8) + 1]
            cross(a, b) == a[1] * b[2] - a[2] * b[1]
        IN cross(u, x) >= 0 /\ cross(x, v) > 0
  IN <<octant, (r - 5) \div 2>>

RingMeets(storage) ==
  LET place == BoxPlaces(BackBox, BackCart)
      Held == {p \in Points(BackCart.range) : Max({Abs(place[p][1]), Abs(place[p][2])}) \in 5..11}
      C == RingCart(storage)
  IN [id \in Both |->
        IF id = <<1, 2>>
        THEN [p \in Points(C.range) |-> CellOf(BackBox, BackCart, RingPlace(p))]
        ELSE [p \in Held |-> RingCell(place[p])]]

Ring(storage, cuts, options) ==
  LET C == RingCart(storage)
  IN [grids |-> <<Grid(BackCart, <<4>>, 9), Grid(C, cuts, 6)>>,
      flags |-> <<NoFlags(BackCart),
                  [NoFlags(C) EXCEPT !.DOMAIN_BOUNDARY = {p \in Points(C.range) : p[2] = 0}]>>,
      meets |-> RingMeets(storage),
      options |-> options]

RingOptions ==
  {Options(2, 1, Occludes(2, all, c), pad, 0, min, dis, TRUE, {<<2, 1>>}) :
     <<all, c>> \in {<<{}, Both>>, <<{}, {<<2, 1>>}>>, <<{<<1, 2>>}, {<<2, 1>>}>>, <<{<<1, 2>>}, {}>>},
     pad \in {0, 1}, min \in BOOLEAN, dis \in BOOLEAN}
RingCases ==
  {Ring("UNIQUE", <<4>>, <<o, Options(2, 1, Occludes(2, Both, {}), 0, 0, TRUE, FALSE, FALSE, {})>>) :
     o \in RingOptions}

----------------------------------------------------------------------------
\* A box in one cell of a coarser one, which has no point in it
SpeckBox == [origin |-> <<5, 5>>, spacing |-> 1]
PlateBox == [origin |-> <<0, 0>>, spacing |-> 4]
SpeckCart == GridCart(3, 3, FALSE, "UNIQUE")
PlateCart == GridCart(4, 4, FALSE, "UNIQUE")
SpeckCases ==
  {[grids |-> <<Grid(PlateCart, <<2>>, 16), Grid(SpeckCart, <<2>>, 1)>>,
    flags |-> <<NoFlags(PlateCart), NoFlags(SpeckCart)>>,
    meets |-> [id \in Both |-> IF id = <<1, 2>> THEN BoxMeets(PlateBox, PlateCart, SpeckBox, SpeckCart)
                               ELSE BoxMeets(SpeckBox, SpeckCart, PlateBox, PlateCart)],
    options |-> <<Options(2, 1, Occludes(2, all, Both \ all), 0, 0, FALSE, TRUE, FALSE, {}),
                  Plain(2)>>] : all \in {{}, {<<1, 2>>}}}

----------------------------------------------------------------------------
\* Two boxes, one in the other, that do not overlap for the program, in a background that
\* the greater of them occludes.  Where nothing is removed, its receivers are layers deep
\* under the smaller box.
GreatBox == [origin |-> <<6, 6>>, spacing |-> 4]
LesserBox == [origin |-> <<14, 14>>, spacing |-> 4]
UnderBox == [origin |-> <<0, 0>>, spacing |-> 4]
UnderCart == GridCart(12, 12, FALSE, "UNIQUE")
GreatCart == GridCart(9, 9, FALSE, "UNIQUE")
LesserCart == GridCart(4, 4, FALSE, "UNIQUE")
Nested(options) ==
  LET ids == {id \in (1..3) \X (1..3) : id[1] # id[2]}
      box == <<UnderBox, GreatBox, LesserBox>>
      cart == <<UnderCart, GreatCart, LesserCart>>
  IN [grids |-> [g \in 1..3 |-> Grid(cart[g], <<2>>, 16)],
      flags |-> [g \in 1..3 |-> NoFlags(cart[g])],
      meets |-> [id \in ids |-> BoxMeets(box[id[1]], cart[id[1]], box[id[2]], cart[id[2]])],
      options |-> <<[options EXCEPT !.overlappable = [id \in ids |-> 1 \in {id[1], id[2]}]],
                    options>>]
NestedOptions(minimize) == Options(3, 1, Occludes(3, {<<2, 1>>}, {}), 0, 0, minimize, TRUE, FALSE, {})
NestedCases == {Nested(NestedOptions(minimize)) : minimize \in BOOLEAN}

PassCases == BoxCases \union RingCases \union SpeckCases \union NestedCases
=============================================================================
