----------------------------- MODULE RegionHash -----------------------------
(***************************************************************************)
(* The hash of core/DistributedRegionHash.inl, in which ranks put regions  *)
(* of space and find those near a point.  The space that the regions take  *)
(* up is divided among the ranks, evenly, and the part of each rank into   *)
(* bins, as small as its regions suggest.  A rank keeps what meets its     *)
(* part, whoever put it there.  Coordinates are integers here, and the     *)
(* parts fractions of them, by exact arithmetic.                           *)
(***************************************************************************)
EXTENDS Decomp

LOCAL Seqs == INSTANCE SequencesExt

Bounds(lo, hi) == [lo |-> lo, hi |-> hi]
EmptyBounds == Bounds(<<0, 0>>, <<-1, -1>>)
Size(b, d) == b.hi[d] - b.lo[d]
Within(b, x) == \A d \in Dims : b.lo[d] <= x[d] /\ x[d] <= b.hi[d]
Union(S) ==
  IF S = {} THEN EmptyBounds
  ELSE Bounds([d \in Dims |-> Min({b.lo[d] : b \in S})], [d \in Dims |-> Max({b.hi[d] : b \in S})])
Ordered(S, before(_, _)) ==
  [k \in 1 .. Cardinality(S) |-> CHOOSE x \in S : Cardinality({y \in S : before(y, x)}) = k - 1]
Ascending(S) == Ordered(S, <)

----------------------------------------------------------------------------
\* Each rank has a sequence of regions with their boxes.  A rank without any still has a
\* say in where the space begins and ends.
GlobalExtents(regions) ==
  LET of(r) == Union({region.box : region \in Seqs!ToSet(regions[r])})
  IN Bounds([d \in Dims |-> Min({of(r).lo[d] : r \in DOMAIN regions})],
            [d \in Dims |-> Max({of(r).hi[d] : r \in DOMAIN regions})])

\* The parts there are in each dimension, of much the same length and no more than ranks.
BinDecomp(E, ranks) ==
  LET short == IF Size(E, 2) <= Size(E, 1) THEN 2 ELSE 1
      few == Max({1} \union {k \in 1..ranks : k * k * Size(E, 3 - short) <= ranks * Size(E, short)})
  IN [d \in Dims |-> IF d = short THEN few ELSE ranks \div few]

Clamped(k, n) == Max({0, Min({n - 1, k})})
Index(loc, parts) == loc[1] * parts[2] + loc[2]

\* Where a point is: in which part, and in which of so many bins of it.
ProcLoc(H, x) ==
  [d \in Dims |-> Clamped(((x[d] - H.extents.lo[d]) * H.procs[d]) \div Size(H.extents, d),
                          H.procs[d])]
BinLoc(H, loc, multiplier, x) ==
  [d \in Dims |->
    Clamped((((x[d] - H.extents.lo[d]) * H.procs[d] - loc[d] * Size(H.extents, d)) * multiplier)
              \div Size(H.extents, d), multiplier)]

Square(n) == <<n, n>>

MapToBin(H, x) ==
  LET loc == ProcLoc(H, x)
      multiplier == H.multipliers[Index(loc, H.procs)]
  IN <<Index(loc, H.procs), Index(BinLoc(H, loc, multiplier, x), Square(multiplier))>>

\* The parts and the bins of a part that a box meets: those between its corners' ones.
LocsBetween(a, b) == {<<x, y>> : x \in a[1] .. b[1], y \in a[2] .. b[2]}
OverlappedProcs(H, box) == LocsBetween(ProcLoc(H, box.lo), ProcLoc(H, box.hi))
LowerCornersBin(H, loc, multiplier, box) ==
  {Index(BinLoc(H, loc, multiplier, box.lo), Square(multiplier))}        \* no other
OverlappedBins(H, loc, multiplier, box) ==
  {Index(bin, Square(multiplier)) :
     bin \in LocsBetween(BinLoc(H, loc, multiplier, box.lo), BinLoc(H, loc, multiplier, box.hi))}

\* What a rank receives: the regions that meet its part, rank by rank.
RegionData(H, regions, q) ==
  LET meets(region) == q \in {Index(loc, H.procs) : loc \in OverlappedProcs(H, region.box)}
      from(r) == SelectSeq(regions[r], meets)
      ordered == Ascending(DOMAIN regions)
  IN Seqs!FlattenSeq([i \in DOMAIN ordered |->
        [k \in DOMAIN from(ordered[i]) |-> [region |-> from(ordered[i])[k], rank |-> ordered[i]]]])

\* Bins are half as long as the regions there are on average, and one if there are none.
ProcToBinMultiplier(H, data) ==
  LET lengths == Seqs!FoldSeq(LAMBDA e, sum : sum + Size(e.region.box, 1) + Size(e.region.box, 2),
                              0, data)
      proc == Size(H.extents, 1) * H.procs[2] + Size(H.extents, 2) * H.procs[1]
  IN IF data = <<>> THEN 1
     ELSE Max({1, (2 * Len(data) * proc) \div (H.procs[1] * H.procs[2] * lengths)})

\* BinRegionIndices_ of a rank: by bin, the places of its regions.
RegionBins(H, q, data, multiplier) ==
  LET loc == <<q \div H.procs[2], q % H.procs[2]>>
  IN IF data = <<>> THEN <<>>
     ELSE [bin \in 0 .. multiplier * multiplier - 1 |->
             Ascending({i \in DOMAIN data :
                          bin \in OverlappedBins(H, loc, multiplier, data[i].region.box)})]

DistributedRegionHash(regions) ==
  LET extents == GlobalExtents(regions)
      ranks == DOMAIN regions
  IN Once(UNION {UNION {
       {[extents |-> H.extents, procs |-> H.procs, data |-> found, multipliers |-> m,
         bins |-> [q \in ranks |-> RegionBins(H, q, found[q], m[q])]] :
          m \in {[q \in ranks |-> ProcToBinMultiplier(H, found[q])]}} :
       found \in {[q \in ranks |-> RegionData(H, regions, q)]}} :
       H \in {[extents |-> extents, procs |-> BinDecomp(extents, Cardinality(ranks))]}})

----------------------------------------------------------------------------
\* A rank asks another for bins, and gets the regions in any of them once; the bins follow,
\* one after the other, with the places of their regions among those that were sent.
BinsAskedFor(wanted) == Ascending(wanted)
RegionsSent(H, q, bins) == Ascending(UNION {Seqs!ToSet(H.bins[q][bins[b]]) : b \in DOMAIN bins})
PlaceSent(sent, i) == CHOOSE k \in DOMAIN sent : sent[k] = i

SentBins(H, q, bins) ==
  LET sent == RegionsSent(H, q, bins)
  IN [regions |-> [k \in DOMAIN sent |-> H.data[q][sent[k]]],
      perBin |-> [b \in DOMAIN bins |-> Len(H.bins[q][bins[b]])],
      indices |-> Seqs!FlattenSeq([b \in DOMAIN bins |->
        [k \in DOMAIN H.bins[q][bins[b]] |-> PlaceSent(sent, H.bins[q][bins[b]][k])]])]

\* RetrieveBins, from one rank: the regions of each bin.
RetrieveBins(H, q, wanted) ==
  LET bins == BinsAskedFor(wanted)
      got == SentBins(H, q, bins)
      begin(b) == Seqs!FoldSeq(+, 0, SubSeq(got.perBin, 1, b - 1))
  IN [bin \in wanted |->
        LET b == CHOOSE i \in DOMAIN bins : bins[i] = bin
        IN {got.regions[got.indices[begin(b) + k]] : k \in 1 .. got.perBin[b]}]
=============================================================================
