----------------------------- MODULE RankLookup -----------------------------
(***************************************************************************)
(* exchanger::UpdateSourceDestRanks_: a donor knows the point it is to     *)
(* send to, a receiver the point it is, and neither knows the rank of the  *)
(* other.  The points of all grids in a row are split over the ranks; both *)
(* register with the owner of the point, and the owner tells each of them  *)
(* who the other is.                                                       *)
(*                                                                         *)
(* Who registers with a rank is found by two DynamicHandshakes, used here  *)
(* by their promise (module RankExchange).  Then come three exchanges -    *)
(* how many points, which points, and the ranks in answer - on one         *)
(* communicator, the donors' with tag 0 and the receivers' with tag 1.  A  *)
(* rank waits for all its messages of one exchange and goes on to the      *)
(* next, whatever the others do: MPI only keeps the messages of one rank   *)
(* to another with one tag in order.                                       *)
(***************************************************************************)
EXTENDS KeyOrder

CONSTANTS
    NumProcs,       \* Comm.Size()
    TotalPoints,    \* points of all grids of the domain
    Layouts         \* connectivities there may be, see LookupInit

ASSUME RankLookupAssumption == NumProcs \in Nat \ {0} /\ TotalPoints \in Nat \ {0}

Ranks == 0 .. NumProcs-1
Points == 0 .. TotalPoints-1

\* A layout has a donor for each of its points, stored on one rank or two, of
\* which one has the lower corner of the donor's cell, and a receiver on one
\* rank; points whose ranks are known beforehand on both sides; and the order
\* in which donors and receivers are stored.
ASSUME LayoutsAssumption ==
    \A l \in Layouts : LET used == DOMAIN l.receiver IN
        /\ used \subseteq Points
        /\ l.corner \in [used -> Ranks] /\ l.other \in [used -> Ranks]
        /\ l.receiver \in [used -> Ranks]
        /\ l.donors \in Seq(used) /\ l.receivers \in Seq(used)
        /\ Range(l.donors) = used /\ Range(l.receivers) = used
Sides == {"M", "N"}

VARIABLES
    layout,             \* the connectivities
    stage,              \* stage[r]: where r is; in an exchange, which
    registers,          \* registers[r][side]: the points r registers, in order
    channel,            \* channel[q][r][side]: messages on their way from q to r
    Recvs,              \* Recvs[r][side][q]: what q has registered with r
    DestinationRanks,   \* DestinationRanks[r]: by the donors on r, -1 if unknown
    SourceRanks         \* SourceRanks[r]: by the receivers on r, -1 if unknown

lookupVars == <<layout, stage, registers, channel, Recvs, DestinationRanks, SourceRanks>>

Nothing == [side \in Sides |-> <<>>]

\* One of the layouts; nothing has been found yet.
LookupInit ==
    /\ layout \in Layouts
    /\ stage = [r \in Ranks |-> "gather"]
    /\ registers = [r \in Ranks |-> Nothing]
    /\ channel = [q \in Ranks |-> [r \in Ranks |-> Nothing]]
    /\ Recvs = [r \in Ranks |-> [side \in Sides |->
                   [q \in Ranks |-> [Count |-> 0, PointIndices |-> <<>>]]]]
    /\ DestinationRanks = [r \in Ranks |-> <<>>]
    /\ SourceRanks = [r \in Ranks |-> <<>>]

\* The points of a sequence that are in S too, in the order they are stored in.
Among(points, S) ==
    LET at == SortedInts({i \in DOMAIN points : points[i] \in S})
    IN  [j \in DOMAIN at |-> points[at[j]]]

Donors(r) == Among(layout.donors,
                   {p \in Range(layout.donors) : r \in {layout.corner[p], layout.other[p]}})
Receivers(r) == Among(layout.receivers, {p \in Range(layout.receivers) : r = layout.receiver[p]})
-----------------------------------------------------------------------------
\* The linear partition: every rank owns as many points, but for the last ones.
BinDivide(n, bins) == (n + bins - 1) \div bins

LinearPartitionSize == BinDivide(TotalPoints, NumProcs)
Owner(p) == p \div LinearPartitionSize
Interval(r) == {p \in Points : LinearPartitionSize * r <= p /\ p < LinearPartitionSize * (r+1)}

PointsFor(r, side, q) ==
    Among(registers[r][side], {p \in Range(registers[r][side]) : Owner(p) = q})
SendsTo(r, side) == {Owner(p) : p \in Range(registers[r][side])}

\* What the handshake tells the owner: who sends to it.
RecvsFrom(r, side) == {q \in Ranks : r \in SendsTo(q, side)}

\* Only the process containing the lower corner of a donor cell communicates.
Communicates(r, p) == r = layout.corner[p]

\* Takes stock of the local donors and receivers, and enters the handshakes.
Gather(r) ==
    LET Initial(rank, p) == IF p \in layout.known THEN rank[p] ELSE -1
        dest == [p \in Range(Donors(r)) |->
                    IF Communicates(r, p) THEN Initial(layout.receiver, p) ELSE -1]
        source == [p \in Range(Receivers(r)) |-> Initial(layout.corner, p)]
    IN  /\ stage[r] = "gather"
        /\ DestinationRanks' = [DestinationRanks EXCEPT ![r] = dest]
        /\ SourceRanks' = [SourceRanks EXCEPT ![r] = source]
        /\ registers' = [registers EXCEPT ![r] =
              [M |-> Among(Donors(r), {p \in Range(Donors(r)) : Communicates(r, p) /\ dest[p] < 0}),
               N |-> Among(Receivers(r), {p \in Range(Receivers(r)) : source[p] < 0})]]
        /\ stage' = [stage EXCEPT ![r] = "handshake"]
        /\ UNCHANGED <<layout, channel, Recvs>>
-----------------------------------------------------------------------------
Waiting == {"counts", "indices", "ranks"}

\* The ranks r waits for, on a side: the owner hears from those who register,
\* and these hear from the owner.
From(r, side) == IF stage[r] = "ranks" THEN SendsTo(r, side) ELSE RecvsFrom(r, side)

AllThere(r) == \A side \in Sides : \A q \in From(r, side) : channel[q][r][side] # <<>>
First(q, r, side) == Head(channel[q][r][side]).data

Nobody == [side \in Sides |-> {}]
Owners(r) == [side \in Sides |-> SendsTo(r, side)]
Waited(r) == [side \in Sides |-> From(r, side)]

\* r takes one message from each of taken[side], those its MPI_Waitall has
\* waited for, and posts data[side][d] to each d of to[side].
Communicate(r, taken, to, kind, data) ==
    channel' = [q \in Ranks |-> [d \in Ranks |-> [side \in Sides |->
        LET left == channel[q][d][side]
        IN  (IF d = r /\ q \in taken[side] THEN Tail(left) ELSE left)
            \o (IF q = r /\ d \in to[side] THEN <<[kind |-> kind, data |-> data[side][d]]>>
                                          ELSE <<>>)]]]

\* The number of points to register with d.
CountAll(r, side, d) == Len(registers[r][side])       \* with anybody
CountFor(r, side, d) == Len(PointsFor(r, side, d))

\* The handshakes return: everybody has entered them.
StartCounts(r) ==
    LET counts == [side \in Sides |-> [d \in Ranks |-> CountFor(r, side, d)]]
    IN  /\ stage[r] = "handshake"
        /\ \A q \in Ranks : stage[q] # "gather"
        /\ Communicate(r, Nobody, Owners(r), "counts", counts)
        /\ stage' = [stage EXCEPT ![r] = "counts"]
        /\ UNCHANGED <<layout, registers, Recvs, DestinationRanks, SourceRanks>>

\* The counts are in, and receives of that size are posted.
WaitCounts(r) ==
    LET indices == [side \in Sides |-> [d \in Ranks |-> PointsFor(r, side, d)]]
    IN  /\ stage[r] = "counts"
        /\ AllThere(r)
        /\ Recvs' = [Recvs EXCEPT ![r] = [side \in Sides |-> [q \in Ranks |->
              IF q \in From(r, side) THEN [@[side][q] EXCEPT !.Count = First(q, r, side)]
                                     ELSE @[side][q]]]]
        /\ Communicate(r, Waited(r), Owners(r), "indices", indices)
        /\ stage' = [stage EXCEPT ![r] = "indices"]
        /\ UNCHANGED <<layout, registers, DestinationRanks, SourceRanks>>

\* MRanks and NRanks: who registered a point; the last one, if several did.
RankOf(recvs, side, p) ==
    LET who == {q \in Ranks : p \in Range(recvs[side][q].PointIndices)}
    IN  IF who = {} THEN -1 ELSE Max(who)

SameSide(side) == side              \* answers with who asked
OtherSide(side) == CHOOSE s \in Sides : s # side

\* The owner has all the points, and answers each side with the other's ranks.
WaitIndices(r) ==
    LET recvs == [side \in Sides |-> [q \in Ranks |->
              IF q \in From(r, side)
              THEN [Recvs[r][side][q] EXCEPT !.PointIndices = First(q, r, side)]
              ELSE Recvs[r][side][q]]]
        answers == [side \in Sides |-> [d \in Ranks |->
            LET points == recvs[side][d].PointIndices
            IN  [i \in DOMAIN points |-> RankOf(recvs, OtherSide(side), points[i])]]]
    IN  /\ stage[r] = "indices"
        /\ AllThere(r)
        /\ Recvs' = [Recvs EXCEPT ![r] = recvs]
        /\ Communicate(r, Waited(r), Waited(r), "ranks", answers)
        /\ stage' = [stage EXCEPT ![r] = "ranks"]
        /\ UNCHANGED <<layout, registers, DestinationRanks, SourceRanks>>

\* The answers are in.  They come in the order in which the points were sent.
Answered(r, side, p) ==
    LET asked == PointsFor(r, side, Owner(p))
    IN  First(Owner(p), r, side)[CHOOSE i \in DOMAIN asked : asked[i] = p]

Unpacked(r, side, ranks) ==
    [p \in DOMAIN ranks |-> IF p \in Range(registers[r][side]) THEN Answered(r, side, p)
                                                               ELSE ranks[p]]

WaitRanks(r) ==
    /\ stage[r] = "ranks"
    /\ AllThere(r)
    /\ DestinationRanks' = [DestinationRanks EXCEPT ![r] = Unpacked(r, "M", @)]
    /\ SourceRanks' = [SourceRanks EXCEPT ![r] = Unpacked(r, "N", @)]
    /\ Communicate(r, Waited(r), Nobody, "ranks", [side \in Sides |-> [d \in Ranks |-> <<>>]])
    /\ stage' = [stage EXCEPT ![r] = "done"]
    /\ UNCHANGED <<layout, registers, Recvs>>

Lookup(r) ==
    \/ Gather(r) \/ StartCounts(r)
    \/ WaitCounts(r) \/ WaitIndices(r) \/ WaitRanks(r)

AllDone == \A r \in Ranks : stage[r] = "done"
=============================================================================
