------------------------------- MODULE Chunks -------------------------------
(***************************************************************************)
(* How extras/XINTOUT.cpp divides the donors or receivers of a file among  *)
(* the ranks of a grid that read it: Chunkify and BinDivide.               *)
(***************************************************************************)
EXTENDS Integers, FiniteSetsExt

BinDivide(n, bins) == (n + bins - 1) \div bins

\* A chunk on every so many ranks: doubled until the chunks are large enough or there is one,
\* then halved or doubled as often as the caller asks.
Least(a, b) == IF a <= b THEN a ELSE b
Doublings(max) == {Least(2^k, max) : k \in 0 .. max}
LargeEnough(count, max, target, interval) ==
  LET chunks == BinDivide(max, interval)
  IN BinDivide(count, chunks) >= target \/ chunks = 1
Adjusted(interval, max, adjust) ==
  IF adjust >= 0 THEN Max({1, interval \div 2^adjust}) ELSE Least(interval * 2^(-adjust), max)

ChunkRankInterval(count, max, target, adjust) ==
  Adjusted(Min({i \in Doublings(max) : LargeEnough(count, max, target, i)}), max, adjust)

ChunkSize(count, max, interval) == BinDivide(count, BinDivide(max, interval))

\* The chunk of a rank of the chunk communicator: the records from begin up to end.
Slice(count, size, rank) ==
  [begin |-> size * rank, end |-> Least(size * (rank + 1), count)]

\* The number of records, as unsigned, is compared with the limit of an int.
TooBig(slice) == slice.end < slice.begin
=============================================================================
