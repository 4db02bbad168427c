----------------------------- MODULE DecompHash -----------------------------
(***************************************************************************)
(* The hash by which a rank finds out who holds a point of a grid          *)
(* (core::decomp_hash): the one of RegionHash with the local ranges of the *)
(* ranks for regions, whole numbers for coordinates, and parts and bins of *)
(* lengths rounded up, so that the last of them may be short.              *)
(***************************************************************************)
EXTENDS RegionHash

LOCAL Seqs == INSTANCE SequencesExt

\* GetBinSize_: n cells cover a length.
WholeSize(length, n) == (length + n - 1) \div n
WholeSizes(R, n) == [d \in Dims |-> WholeSize(R.end[d] - R.begin[d], n[d])]

\* MapToUniformGridCell, clamped: the cell of n of a size, from an origin, that p is in.
CellAt(origin, size, n, p) ==
  [d \in Dims |-> Clamped((p[d] - origin[d]) \div size[d], n[d])]
CellsOf(origin, size, n, R) ==
  LocsBetween(CellAt(origin, size, n, R.begin),
              CellAt(origin, size, n, [d \in Dims |-> R.end[d] - 1]))

\* The points that are the part of the rank at a place.
Part(H, loc) ==
  LET begin == [d \in Dims |-> H.extents.begin[d] + loc[d] * H.size[d]]
  IN Box(begin, [d \in Dims |-> Min({begin[d] + H.size[d], H.extents.end[d]})])

BinAt(H, loc, multiplier, p) ==
  LET part == Part(H, loc)
  IN Index(CellAt(part.begin, WholeSizes(part, Square(multiplier)), Square(multiplier), p),
           Square(multiplier))
BinsMet(H, loc, multiplier, R) ==
  LET part == Part(H, loc)
  IN {Index(c, Square(multiplier)) :
        c \in CellsOf(part.begin, WholeSizes(part, Square(multiplier)), Square(multiplier), R)}

\* The local ranges that meet the part of rank q.
RangesMet(H, locals, q) ==
  LET meets(r) == q \in {Index(c, H.procs) :
                           c \in CellsOf(H.extents.begin, H.size, H.procs, locals[r])}
      ranks == Ascending({r \in DOMAIN locals : meets(r)})
  IN [k \in DOMAIN ranks |-> [region |-> locals[ranks[k]], rank |-> ranks[k]]]

BinsPerSide(H, data) ==
  LET length(e) == (e.region.end[1] - e.region.begin[1]) + (e.region.end[2] - e.region.begin[2])
      lengths == Seqs!FoldSeq(LAMBDA e, sum : sum + length(e), 0, data)
  IN IF data = <<>> THEN 1 ELSE Max({1, (2 * Len(data) * (H.size[1] + H.size[2])) \div lengths})

\* CreateDecompHash, of the local ranges of the ranks of a communicator.
CreateDecompHash(locals) ==
  LET ranks == DOMAIN locals
      extents == Box([d \in Dims |-> Min({locals[r].begin[d] : r \in ranks})],
                     [d \in Dims |-> Max({locals[r].end[d] : r \in ranks})])
      procs == BinDecomp(Bounds(extents.begin, extents.end), Cardinality(ranks))
      bins(H, q, data, m) ==
        IF data = <<>> THEN <<>>
        ELSE [bin \in 0 .. m * m - 1 |->
                Ascending({i \in DOMAIN data :
                  bin \in BinsMet(H, <<q \div H.procs[2], q % H.procs[2]>>, m, data[i].region)})]
      hash(H, data) ==
        [extents |-> H.extents, procs |-> H.procs, size |-> H.size,
         data |-> data, multipliers |-> [q \in ranks |-> BinsPerSide(H, data[q])],
         bins |-> [q \in ranks |-> bins(H, q, data[q], BinsPerSide(H, data[q]))]]
      grid == [extents |-> extents, procs |-> procs, size |-> WholeSizes(extents, procs)]
  IN Once(UNION {{hash(H, data) : data \in {[q \in ranks |-> RangesMet(H, locals, q)]}} : H \in {grid}})

\* MapToBin, then RetrieveBins: who holds a point.
BinIDOf(H, p) ==
  LET loc == CellAt(H.extents.begin, H.size, H.procs, p)
      q == Index(loc, H.procs)
  IN <<q, BinAt(H, loc, H.multipliers[q], p)>>
Holder(H, p) ==
  LET id == BinIDOf(H, p)
  IN (CHOOSE e \in RetrieveBins(H, id[1], {id[2]})[id[2]] : HasPoint(e.region, p)).rank
=============================================================================
