--------------------------- MODULE Transfer_proofs ---------------------------
(***************************************************************************)
(* Donors and receivers find each other by way of the owners of their      *)
(* points, for any number of ranks and points and whoever has which.       *)
(*                                                                         *)
(* Ranks overtake each other, but all that a rank sends in the look-up it  *)
(* knows from the time it enters the handshakes, or from messages that     *)
(* say so in turn.  So what a message contains, what has been taken and    *)
(* what is under way are functions of the layout and of stage: LookupOK    *)
(* says which.  A step moves one rank to its next stage, and the proofs    *)
(* show that it changes the rest accordingly.                              *)
(*                                                                         *)
(* Then what they send each other arrives, for any exchanges, rounds and   *)
(* orders of the calls.  Between two ranks everything follows from how     *)
(* often the one has called its sends and the other its receives: Mail     *)
(* says what is then on the wire, which receives wait, and what is in the  *)
(* buffers.  A rank is never in a round before those who send to it have   *)
(* sent all of the last, so a receive waits for at most one message of an  *)
(* exchange, and TransferOK says what the grid has got from each round.    *)
(***************************************************************************)
EXTENDS Transfer, Events_proofs, TLAPS

InOrder(s) == \A i, j \in 1 .. Len(s) : i < j => s[i] < s[j]

\* The points of a sequence that are in S are those of its range that are, in
\* the same order.
LEMMA AmongIs ==
    ASSUME NEW s, IsLog(s), NEW S
    PROVE  /\ IsLog(Among(s, S)) /\ Range(Among(s, S)) = Range(s) \cap S
           /\ InOrder(s) => InOrder(Among(s, S))
  <1> DEFINE K == {i \in DOMAIN s : s[i] \in S}
             at == SortedInts(K)
             n == Cardinality(K)
             t == Among(s, S)
  <1>1. DOMAIN s = 1 .. Len(s) /\ Len(s) \in Nat
    BY DEF IsLog
  <1>2. IsFiniteSet(1 .. Len(s))
    BY <1>1, FS_Interval
  <1>3. K \subseteq 1 .. Len(s) /\ K \in SUBSET Int
    BY <1>1
  <1>4. IsFiniteSet(K)
    BY <1>2, <1>3, FS_Subset
  <1> HIDE DEF K
  <1>5. /\ n \in Nat /\ at \in [1 .. n -> K]
        /\ \A k \in K : \E i \in 1 .. n : at[i] = k
        /\ \A i, j \in 1 .. n : i < j => at[i] < at[j]
    <2>1. at = Sorted(K, IntOrder(K)) /\ StrictOrder(K, IntOrder(K))
      BY <1>3, IntsInOrder
    <2> HIDE DEF at
    <2>2. /\ n \in Nat /\ at \in [1 .. n -> K]
          /\ \A k \in K : \E i \in 1 .. n : at[i] = k
          /\ \A i, j \in 1 .. n : i < j => <<at[i], at[j]>> \in IntOrder(K)
      BY <1>4, <2>1, SortedInOrder
    <2> QED
      BY <2>2 DEF IntOrder
  <1>6. t = [j \in DOMAIN at |-> s[at[j]]]
    BY DEF Among, K
  <1> HIDE DEF at, n, t
  <1>7. DOMAIN t = 1 .. n /\ \A j \in 1 .. n : t[j] = s[at[j]]
    BY <1>5, <1>6
  <1>8. Len(t) = n
    BY <1>5, <1>6
  <1>9. IsLog(t)
    BY <1>5, <1>6, <1>8 DEF IsLog
  <1>10. ASSUME NEW p
         PROVE  p \in Range(t) <=> p \in Range(s) \cap S
    <2>1. p \in Range(t) <=> \E j \in 1 .. n : p = s[at[j]]
      BY <1>7 DEF Range
    <2>2. p \in Range(s) \cap S <=> \E k \in K : p = s[k]
      BY DEF K, Range
    <2> QED
      BY <1>5, <2>1, <2>2
  <1>11. ASSUME InOrder(s), NEW i \in 1 .. n, NEW j \in 1 .. n, i < j
         PROVE  t[i] < t[j]
    <2>1. at[i] \in 1 .. Len(s) /\ at[j] \in 1 .. Len(s) /\ at[i] < at[j]
      BY <1>3, <1>5, <1>11
    <2> QED
      BY <1>7, <1>11, <2>1 DEF InOrder
  <1> QED
    BY <1>8, <1>9, <1>10, <1>11 DEF t, InOrder

LEMMA PlaceOf ==
    ASSUME NEW s, IsLog(s), NEW p \in Range(s)
    PROVE  LET i == CHOOSE j \in DOMAIN s : s[j] = p IN i \in 1 .. Len(s) /\ s[i] = p
  BY DEF IsLog, Range
-----------------------------------------------------------------------------
\* Every point has an owner.
LEMMA OwnerExists ==
    ASSUME NEW p \in Points
    PROVE  Owner(p) \in Ranks /\ p \in Interval(Owner(p))
  <1> DEFINE N == NumProcs
             T == TotalPoints
             L == LinearPartitionSize
  <1>1. N \in Nat \ {0} /\ T \in Nat \ {0} /\ p \in Nat /\ p < T
    BY RankLookupAssumption DEF Points
  <1>2. L = (T + N - 1) \div N
    BY DEF LinearPartitionSize, BinDivide
  <1>3. L \in Nat /\ N * L <= T + N - 1 /\ T + N - 1 < N * L + N
    BY <1>1, <1>2
  <1>4. p < N * L /\ L # 0
    BY <1>1, <1>3
  <1> HIDE DEF N, T, L
  <1>5. p \div L \in Nat /\ L * (p \div L) <= p
    BY <1>1, <1>3, <1>4
  <1>6. ASSUME p \div L >= N
        PROVE  FALSE
    <2> DEFINE d == p \div L
    <2>1. d \in Nat /\ L * d <= p /\ d >= N
      BY <1>5, <1>6
    <2> HIDE DEF d
    <2>2. L * d >= L * N
      BY <1>1, <1>3, <2>1
    <2> QED
      BY <1>1, <1>3, <1>4, <2>1, <2>2
  <1>7. L * (p \div L) <= p /\ p < L * (p \div L + 1)
    BY <1>1, <1>3, <1>4
  <1> QED
    BY <1>1, <1>5, <1>6, <1>7 DEF Owner, Ranks, Interval, L, N
-----------------------------------------------------------------------------
\* What is on its way from one rank to another on one side: of the three
\* messages, which come in this order, those that have been sent and not taken.
If(S, kind, m) == IF kind \in S THEN <<m[kind]>> ELSE <<>>
Line(S, m) == If(S, "counts", m) \o If(S, "indices", m) \o If(S, "ranks", m)

Earlier(kind) == CASE kind = "counts" -> {} [] kind = "indices" -> {"counts"}
                   [] kind = "ranks" -> {"counts", "indices"}

LEMMA EarlierKinds ==
    Earlier("counts") = {} /\ Earlier("indices") = {"counts"} /\ Earlier("ranks") = {"counts", "indices"}
  BY DEF Earlier

LEMMA NoneSent ==
    ASSUME NEW m
    PROVE  Line({}, m) = <<>>
  BY DEF Line, If

LEMMA LineIsSequence ==
    ASSUME NEW m, NEW S
    PROVE  Line(S, m) \in Seq({m[kind] : kind \in Waiting})
  <1> DEFINE M == {m[kind] : kind \in Waiting}
  <1>1. ASSUME NEW kind \in Waiting
        PROVE  If(S, kind, m) \in Seq(M)
    <2>1. \A x \in M : <<>> \in Seq(M) /\ <<x>> \in Seq(M)
      OBVIOUS
    <2>2. m[kind] \in M
      OBVIOUS
    <2> QED
      BY <2>1, <2>2 DEF If
  <1>2. If(S, "counts", m) \in Seq(M) /\ If(S, "indices", m) \in Seq(M) /\ If(S, "ranks", m) \in Seq(M)
    BY <1>1 DEF Waiting
  <1> HIDE DEF M
  <1>3. If(S, "counts", m) \o If(S, "indices", m) \in Seq(M)
    BY <1>2, ConcatProperties
  <1>4. Line(S, m) \in Seq(M)
    BY <1>2, <1>3, ConcatProperties DEF Line
  <1> QED
    BY <1>4 DEF M

LEMMA Sent ==
    ASSUME NEW m, NEW kind \in Waiting, NEW S \in SUBSET Earlier(kind)
    PROVE  Line(S, m) \o <<m[kind]>> = Line(S \cup {kind}, m)
  <1>1. CASE kind = "counts"
    BY <1>1, EarlierKinds DEF Line, If
  <1>2. CASE kind = "indices"
    BY <1>2, EarlierKinds DEF Line, If
  <1>3. CASE kind = "ranks"
    BY <1>3, EarlierKinds DEF Line, If
  <1> QED
    BY <1>1, <1>2, <1>3 DEF Waiting

\* What a rank takes off a line, and what it leaves.
Opens(line, first, rest) == line # <<>> /\ Head(line) = first /\ Tail(line) = rest

LEMMA FirstOf ==
    ASSUME NEW S, NEW a \in S, NEW s \in Seq(S)
    PROVE  Opens(<<a>> \o s, a, s)
  <1> DEFINE one == <<a>>
             all == one \o s
  <1>1. one \in Seq(S) /\ Len(one) = 1 /\ one[1] = a
    OBVIOUS
  <1> HIDE DEF one
  <1>2. /\ all \in Seq(S) /\ Len(all) = 1 + Len(s) /\ Len(s) \in Nat
        /\ all[1] = a /\ \A i \in 1 .. Len(s) : all[i + 1] = s[i]
    <2>1. /\ all \in Seq(S) /\ Len(all) = Len(one) + Len(s)
          /\ \A i \in 1 .. Len(one) + Len(s) : all[i] = IF i <= Len(one) THEN one[i] ELSE s[i - Len(one)]
      BY <1>1, ConcatProperties, Zenon
    <2> HIDE DEF all
    <2>2. Len(s) \in Nat
      BY LenProperties
    <2>3. ASSUME NEW i \in 1 .. Len(s)
          PROVE  all[i + 1] = s[i]
      BY <1>1, <2>1, <2>2
    <2> QED
      BY <1>1, <2>1, <2>2, <2>3
  <1> HIDE DEF all
  <1>3. all # <<>> /\ Head(all) = a
    BY <1>2
  <1>4. /\ Tail(all) \in Seq(S) /\ Len(Tail(all)) = Len(s)
        /\ \A i \in 1 .. Len(s) : Tail(all)[i] = s[i]
    BY <1>2, <1>3, HeadTailProperties
  <1>5. Tail(all) = s
    BY <1>4, SeqEqual
  <1> QED
    BY <1>3, <1>5 DEF Opens, all, one

LEMMA Taken ==
    ASSUME NEW m, NEW kind \in Waiting, NEW S \in SUBSET (Waiting \ Earlier(kind)), kind \in S
    PROVE  Opens(Line(S, m), m[kind], Line(S \ {kind}, m))
  <1>1. CASE kind = "counts"
    BY <1>1, EarlierKinds DEF Line, If, Opens
  <1>2. CASE kind = "indices"
    <2> DEFINE a == m["indices"]
               e == If(S, "ranks", m)
    <2>1. "counts" \notin S
      BY <1>2, EarlierKinds
    <2>2. Line(S, m) = <<>> \o <<a>> \o e /\ Line(S \ {kind}, m) = <<>> \o <<>> \o e
      BY <1>2, <2>1 DEF Line, If
    <2>3. <<>> \o <<a>> = <<a>> /\ <<>> \o <<>> = <<>>
      OBVIOUS
    <2>4. e \in Seq({a, m["ranks"]})
      <3>1. \A x : <<>> \in Seq({a, x}) /\ <<x>> \in Seq({a, x})
        OBVIOUS
      <3> QED
        BY <3>1, Zenon DEF If
    <2>5. Opens(<<a>> \o e, a, e) /\ <<>> \o e = e
      BY <2>4, FirstOf, ConcatEmptySeq
    <2> HIDE DEF a, e
    <2>6. Opens(Line(S, m), a, Line(S \ {kind}, m))
      BY <2>2, <2>3, <2>5
    <2> QED
      BY <1>2, <2>6 DEF a
  <1>3. CASE kind = "ranks"
    BY <1>3, EarlierKinds DEF Line, If, Opens, Waiting
  <1> QED
    BY <1>1, <1>2, <1>3 DEF Waiting
-----------------------------------------------------------------------------
\* How far a rank is: the exchanges it has posted the messages of, and those it
\* has taken them of.
Stages == {"gather", "handshake"} \cup Waiting \cup {"done"}

Posted(s) == IF s \in Waiting THEN Earlier(s) \cup {s} ELSE IF s = "done" THEN Waiting ELSE {}
TakenAt(s) == IF s \in Waiting THEN Earlier(s) ELSE IF s = "done" THEN Waiting ELSE {}

\* A rank sends the owners of its points the first two messages, and the owner
\* answers; all three follow from what is registered.
Meant(q, r, side) ==
    (IF r \in SendsTo(q, side) THEN {"counts", "indices"} ELSE {})
    \cup (IF q \in SendsTo(r, side) THEN {"ranks"} ELSE {})

RankFor(side, p) ==
    LET who == {q \in Ranks : p \in Range(registers[q][side])}
    IN  IF who = {} THEN -1 ELSE Max(who)

Data(kind, q, r, side) ==
    CASE kind = "counts" -> CountFor(q, side, r)
      [] kind = "indices" -> PointsFor(q, side, r)
      [] kind = "ranks" -> [i \in DOMAIN PointsFor(r, side, q) |->
                               RankFor(OtherSide(side), PointsFor(r, side, q)[i])]

Messages(q, r, side) == [kind \in Waiting |-> [kind |-> kind, data |-> Data(kind, q, r, side)]]
UnderWay(q, r, side) == (Meant(q, r, side) \cap Posted(stage[q])) \ TakenAt(stage[r])

ChannelOK ==
    channel = [q \in Ranks |-> [r \in Ranks |-> [side \in Sides |->
                  Line(UnderWay(q, r, side), Messages(q, r, side))]]]

\* Nobody has taken what has not been sent.
TakenWasSent ==
    \A q, r \in Ranks : \A side \in Sides :
        Meant(q, r, side) \cap TakenAt(stage[r]) \subseteq Posted(stage[q])

\* What the owner knows of those who register with it.
RecvAt(taken, r, side, q) ==
    [Count |-> IF "counts" \in taken /\ q \in RecvsFrom(r, side) THEN CountFor(q, side, r) ELSE 0,
     PointIndices |-> IF "indices" \in taken /\ q \in RecvsFrom(r, side)
                      THEN PointsFor(q, side, r) ELSE <<>>]

RecvsOK ==
    Recvs = [r \in Ranks |-> [side \in Sides |-> [q \in Ranks |->
                RecvAt(TakenAt(stage[r]), r, side, q)]]]

\* Each donor is registered by the rank of its corner, each receiver by its own,
\* if the other is not known beforehand.
Used == DOMAIN layout.receiver

RegistersOK ==
    /\ registers \in [Ranks -> [Sides -> Seq(Used)]]
    /\ \A r \in Ranks : IF stage[r] = "gather" THEN registers[r] = Nothing ELSE
          /\ Range(registers[r]["M"]) = {p \in Used \ layout.known : layout.corner[p] = r}
          /\ Range(registers[r]["N"]) = {p \in Used \ layout.known : layout.receiver[p] = r}

\* What donors and receivers know of each other.
Known(s, p, rank) == IF p \in layout.known \/ s = "done" THEN rank[p] ELSE -1

DestinationsAt(s, r) ==
    IF s = "gather" THEN <<>> ELSE
    [p \in Range(Donors(r)) |-> IF Communicates(r, p) THEN Known(s, p, layout.receiver) ELSE -1]

SourcesAt(s, r) ==
    IF s = "gather" THEN <<>> ELSE [p \in Range(Receivers(r)) |-> Known(s, p, layout.corner)]

RanksOK ==
    /\ DestinationRanks = [r \in Ranks |-> DestinationsAt(stage[r], r)]
    /\ SourceRanks = [r \in Ranks |-> SourcesAt(stage[r], r)]

\* No rank is past the handshakes before all have entered them.
NobodyAhead ==
    (\E r \in Ranks : stage[r] = "gather") => \A q \in Ranks : stage[q] \in {"gather", "handshake"}

LookupOK ==
    /\ layout \in Layouts /\ stage \in [Ranks -> Stages]
    /\ NobodyAhead /\ RegistersOK /\ TakenWasSent /\ ChannelOK /\ RecvsOK /\ RanksOK
-----------------------------------------------------------------------------
LEMMA PointsForIs ==
    ASSUME RegistersOK, NEW r \in Ranks, NEW side \in Sides, NEW q
    PROVE  /\ IsLog(registers[r][side]) /\ IsLog(PointsFor(r, side, q))
           /\ Range(PointsFor(r, side, q)) = {p \in Range(registers[r][side]) : Owner(p) = q}
  <1>1. IsLog(registers[r][side])
    <2>1. registers[r][side] \in Seq(Used)
      BY DEF RegistersOK
    <2> QED
      BY <2>1, LenProperties DEF IsLog
  <1> QED
    BY <1>1, AmongIs DEF PointsFor

LEMMA OwnersAreRanks ==
    ASSUME layout \in Layouts, RegistersOK, NEW r \in Ranks, NEW side \in Sides
    PROVE  SendsTo(r, side) \subseteq Ranks
  <1>1. Used \subseteq Points
    BY LayoutsAssumption DEF Used
  <1>2. Range(registers[r][side]) \subseteq Used
    BY DEF RegistersOK, Range
  <1> QED
    BY <1>1, <1>2, OwnerExists DEF SendsTo

LEMMA DonorsAndReceivers ==
    ASSUME layout \in Layouts, NEW r \in Ranks
    PROVE  /\ IsLog(Donors(r)) /\ IsLog(Receivers(r))
           /\ Range(Donors(r)) = {p \in Used : r \in {layout.corner[p], layout.other[p]}}
           /\ Range(Receivers(r)) = {p \in Used : layout.receiver[p] = r}
  <1>1. /\ layout.donors \in Seq(Used) /\ layout.receivers \in Seq(Used)
        /\ Range(layout.donors) = Used /\ Range(layout.receivers) = Used
    BY LayoutsAssumption DEF Used
  <1>2. IsLog(layout.donors) /\ IsLog(layout.receivers)
    BY <1>1, LenProperties DEF IsLog
  <1>3. /\ IsLog(Donors(r))
        /\ Range(Donors(r)) = Used \cap {p \in Used : r \in {layout.corner[p], layout.other[p]}}
    BY <1>1, <1>2, AmongIs DEF Donors
  <1>4. /\ IsLog(Receivers(r))
        /\ Range(Receivers(r)) = Used \cap {p \in Used : r = layout.receiver[p]}
    BY <1>1, <1>2, AmongIs DEF Receivers
  <1> QED
    BY <1>3, <1>4

LEMMA KindsUnderWay ==
    ASSUME NEW q \in Ranks, NEW r \in Ranks, NEW side \in Sides
    PROVE  UnderWay(q, r, side) \subseteq Waiting
  BY DEF UnderWay, Meant, Waiting

\* When a rank has waited for messages, they are the first on their lines, and
\* of the exchange it is in.
LEMMA FirstIsExpected ==
    ASSUME LookupOK, NEW r \in Ranks, stage[r] \in Waiting, NEW side \in Sides,
           NEW q \in From(r, side), channel[q][r][side] # <<>>
    PROVE  /\ q \in Ranks
           /\ stage[r] \in UnderWay(q, r, side) /\ UnderWay(q, r, side) \cap Earlier(stage[r]) = {}
  <1>1. q \in Ranks
    <2>1. SendsTo(r, side) \subseteq Ranks
      BY OwnersAreRanks DEF LookupOK
    <2> QED
      BY <2>1 DEF From, RecvsFrom
  <1>2. UnderWay(q, r, side) # {}
    <2>1. channel[q][r][side] = Line(UnderWay(q, r, side), Messages(q, r, side))
      BY <1>1 DEF LookupOK, ChannelOK
    <2> QED
      BY <2>1, NoneSent
  <1>3. stage[r] \in Meant(q, r, side)
    <2>1. stage[r] = "ranks" => q \in SendsTo(r, side)
      BY DEF From
    <2>2. stage[r] # "ranks" => r \in SendsTo(q, side)
      BY DEF From, RecvsFrom
    <2> QED
      BY <2>1, <2>2 DEF Meant, Waiting
  <1>4. UnderWay(q, r, side) \cap Earlier(stage[r]) = {}
    BY DEF UnderWay, TakenAt
  <1>5. stage[r] \in Posted(stage[q])
    <2>1. PICK kind \in UnderWay(q, r, side) : TRUE
      BY <1>2
    <2>2. kind \in Waiting /\ kind \in Posted(stage[q]) /\ kind \notin Earlier(stage[r])
      BY <1>1, <1>4, <2>1, KindsUnderWay DEF UnderWay
    <2> QED
      BY <2>2, EarlierKinds DEF Waiting, Posted
  <1> QED
    BY <1>1, <1>3, <1>4, <1>5, EarlierKinds DEF UnderWay, TakenAt, Waiting

\* A rank that goes on to the next exchange takes the messages it has waited
\* for off their lines, and posts its own at the end of others.
Goes(r, t) ==
    \/ stage[r] = "handshake" /\ t = "counts"
    \/ stage[r] = "counts" /\ t = "indices"
    \/ stage[r] = "indices" /\ t = "ranks"
    \/ stage[r] = "ranks" /\ t = "done"

Takes(r, q, d, side) == IF d = r /\ q \in Waited(r)[side] /\ stage[r] \in Waiting THEN {stage[r]} ELSE {}
Adds(r, t, q, d, side) == IF q = r /\ t \in Meant(r, d, side) THEN {t} ELSE {}

NowUnderWay(r, t, q, d, side) ==
    (Meant(q, d, side) \cap Posted(stage'[q])) \ TakenAt(stage'[d])
        = (UnderWay(q, d, side) \ Takes(r, q, d, side)) \cup Adds(r, t, q, d, side)

LEMMA StagesFollow ==
    ASSUME NEW r, NEW t, Goes(r, t)
    PROVE  /\ Posted(t) = Posted(stage[r]) \cup ({t} \cap Waiting)
           /\ TakenAt(t) = TakenAt(stage[r]) \cup ({stage[r]} \cap Waiting)
           /\ t \notin TakenAt(t)
           /\ t \in Waiting => Posted(stage[r]) = Earlier(t)
  BY EarlierKinds DEF Goes, Posted, TakenAt, Waiting

LEMMA LinesMove ==
    ASSUME LookupOK, NEW r \in Ranks, NEW t, Goes(r, t),
           stage' = [stage EXCEPT ![r] = t], registers' = registers,
           stage[r] \in Waiting => AllThere(r),
           NEW q \in Ranks, NEW d \in Ranks, NEW side \in Sides
    PROVE  /\ NowUnderWay(r, t, q, d, side)
           /\ Meant(q, d, side) \cap TakenAt(stage'[d]) \subseteq Posted(stage'[q])
  <1>1. Meant(q, d, side)' = Meant(q, d, side) /\ Meant(q, d, side) \subseteq Waiting
    BY DEF Meant, SendsTo, Waiting
  <1>2. /\ stage'[q] = IF q = r THEN t ELSE stage[q]
        /\ stage'[d] = IF d = r THEN t ELSE stage[d]
    BY DEF LookupOK
  <1>3. Meant(q, d, side) \cap TakenAt(stage[d]) \subseteq Posted(stage[q])
    BY DEF LookupOK, TakenWasSent
  <1>4. CASE d = r /\ stage[r] \in Waiting
    <2>1. q \in From(r, side) <=> stage[r] \in Meant(q, d, side)
      BY <1>4 DEF From, RecvsFrom, Meant, Waiting
    <2>2. q \in From(r, side) => stage[r] \in UnderWay(q, r, side)
      BY <1>4, FirstIsExpected DEF AllThere
    <2>3. Waited(r)[side] = From(r, side)
      BY DEF Waited
    <2> QED
      BY <1>1, <1>2, <1>3, <1>4, <2>1, <2>2, <2>3, StagesFollow DEF UnderWay, Takes, Adds, NowUnderWay
  <1>5. CASE ~(d = r /\ stage[r] \in Waiting)
    <2>1. TakenAt(stage'[d]) = TakenAt(stage[d]) /\ Takes(r, q, d, side) = {}
      BY <1>2, <1>5, StagesFollow DEF Takes
    <2>2. Posted(stage'[q]) = Posted(stage[q]) \cup (IF q = r THEN {t} \cap Waiting ELSE {})
      BY <1>2, StagesFollow
    <2>3. ASSUME q = r, t \in Meant(q, d, side)
          PROVE  t \notin TakenAt(stage[d])
      <3>1. t \notin Posted(stage[r])
        BY <1>1, <2>3, StagesFollow, EarlierKinds DEF Waiting
      <3> QED
        BY <1>3, <2>3, <3>1
    <2> QED
      BY <1>1, <1>3, <2>1, <2>2, <2>3 DEF UnderWay, Adds, NowUnderWay
  <1> QED
    BY <1>4, <1>5

LEMMA ChannelMoves ==
    ASSUME LookupOK, NEW r \in Ranks, NEW t, Goes(r, t),
           stage' = [stage EXCEPT ![r] = t], registers' = registers,
           NEW taken, NEW to, NEW kind, NEW data, Communicate(r, taken, to, kind, data),
           IF stage[r] \in Waiting THEN AllThere(r) /\ taken = Waited(r) ELSE taken = Nobody,
           \A side \in Sides : \A d \in Ranks : d \in to[side] <=> t \in Meant(r, d, side),
           t \in Waiting => kind = t /\ \A side \in Sides : \A d \in to[side] :
                                           data[side][d] = Data(t, r, d, side)
    PROVE  ChannelOK' /\ TakenWasSent'
  <1>1. ASSUME NEW q \in Ranks, NEW d \in Ranks, NEW side \in Sides
        PROVE  /\ channel'[q][d][side] = Line(UnderWay(q, d, side), Messages(q, d, side))'
               /\ (Meant(q, d, side) \cap TakenAt(stage[d]) \subseteq Posted(stage[q]))'
    <2> DEFINE U == UnderWay(q, d, side)
               m == Messages(q, d, side)
               left == channel[q][d][side]
               T == Takes(r, q, d, side)
               A == Adds(r, t, q, d, side)
               rest == IF d = r /\ q \in taken[side] THEN Tail(left) ELSE left
               own == IF q = r /\ d \in to[side] THEN <<[kind |-> kind, data |-> data[side][d]]>> ELSE <<>>
    <2>1. channel'[q][d][side] = rest \o own
      BY DEF Communicate
    <2>2. left = Line(U, m) /\ U \subseteq Waiting
      BY KindsUnderWay DEF LookupOK, ChannelOK
    <2>3. rest = Line(U \ T, m)
      <3>1. CASE d = r /\ q \in taken[side]
        <4>1. stage[r] \in Waiting /\ AllThere(r) /\ q \in From(r, side) /\ T = {stage[r]}
          BY <3>1 DEF Nobody, Waited, Takes
        <4>2. stage[r] \in U /\ U \cap Earlier(stage[r]) = {}
          BY <3>1, <4>1, FirstIsExpected DEF AllThere
        <4>3. U \in SUBSET (Waiting \ Earlier(stage[r]))
          BY <2>2, <4>2
        <4>4. Opens(Line(U, m), m[stage[r]], Line(U \ {stage[r]}, m))
          BY <4>1, <4>2, <4>3, Taken
        <4> QED
          BY <2>2, <3>1, <4>1, <4>4 DEF Opens
      <3>2. CASE ~(d = r /\ q \in taken[side])
        <4>1. T = {}
          BY <3>2 DEF Takes
        <4> HIDE DEF T, U, m, left
        <4> QED
          BY <2>2, <3>2, <4>1
      <3> QED
        BY <3>1, <3>2
    <2>4. Line(U \ T, m) \o own = Line((U \ T) \cup A, m)
      <3>1. CASE q = r /\ d \in to[side]
        <4>1. A = {t} /\ t \in Meant(r, d, side) /\ t \in Waiting
          BY <3>1 DEF Adds, Meant, Waiting
        <4>2. own = <<m[t]>>
          BY <3>1, <4>1 DEF Messages
        <4>3. U \ T \in SUBSET Earlier(t)
          BY <3>1, <4>1, StagesFollow DEF UnderWay
        <4> HIDE DEF own, m, U, T, A
        <4> QED
          BY <4>1, <4>2, <4>3, Sent
      <3>2. CASE ~(q = r /\ d \in to[side])
        <4>1. A = {} /\ own = <<>>
          BY <3>2 DEF Adds
        <4>2. Line(U \ T, m) \o <<>> = Line(U \ T, m)
          BY LineIsSequence, ConcatEmptySeq
        <4>3. (U \ T) \cup {} = U \ T
          OBVIOUS
        <4> HIDE DEF own, m, U, T, A
        <4> QED
          BY <4>1, <4>2, <4>3, Zenon
      <3> QED
        BY <3>1, <3>2
    <2>5. UnderWay(q, d, side)' = (U \ T) \cup A
      <3>1. UnderWay(q, d, side)' = (Meant(q, d, side) \cap Posted(stage'[q])) \ TakenAt(stage'[d])
        BY DEF UnderWay, Meant, SendsTo
      <3>2. NowUnderWay(r, t, q, d, side)
        BY LinesMove
      <3> QED
        BY <3>1, <3>2, Zenon DEF NowUnderWay
    <2>6. Messages(q, d, side)' = m
      BY DEF Messages, Data, CountFor, PointsFor, RankFor
    <2>7. (Meant(q, d, side) \cap TakenAt(stage[d]) \subseteq Posted(stage[q]))'
      <3>1. Meant(q, d, side)' = Meant(q, d, side)
        BY DEF Meant, SendsTo
      <3>2. Meant(q, d, side) \cap TakenAt(stage'[d]) \subseteq Posted(stage'[q])
        BY LinesMove
      <3> QED
        BY <3>1, <3>2
    <2> HIDE DEF U, m, left, T, A, rest, own
    <2> QED
      BY <2>1, <2>3, <2>4, <2>5, <2>6, <2>7
  <1>2. channel' = [q \in Ranks |-> [d \in Ranks |-> [side \in Sides |-> channel'[q][d][side]]]]
    BY DEF Communicate
  <1>3. ChannelOK'
    BY <1>1, <1>2 DEF ChannelOK
  <1>4. TakenWasSent'
    BY <1>1 DEF TakenWasSent
  <1> QED
    BY <1>3, <1>4
-----------------------------------------------------------------------------
LEMMA FirstDataIs ==
    ASSUME LookupOK, NEW r \in Ranks, stage[r] \in Waiting, NEW side \in Sides,
           NEW q \in From(r, side), channel[q][r][side] # <<>>
    PROVE  /\ First(q, r, side) = Data(stage[r], q, r, side)
           /\ Head(channel[q][r][side]).kind = stage[r]
  <1> DEFINE U == UnderWay(q, r, side)
             m == Messages(q, r, side)
  <1>1. q \in Ranks /\ stage[r] \in U /\ U \in SUBSET (Waiting \ Earlier(stage[r]))
    BY FirstIsExpected, KindsUnderWay
  <1>2. channel[q][r][side] = Line(U, m)
    BY <1>1 DEF LookupOK, ChannelOK
  <1>3. Opens(Line(U, m), m[stage[r]], Line(U \ {stage[r]}, m))
    BY <1>1, Taken
  <1> QED
    BY <1>1, <1>2, <1>3 DEF Opens, Messages, First

\* Everybody has registered: the rest of the look-up leaves the registers alone.
LEMMA GoesOn ==
    ASSUME LookupOK, NEW r \in Ranks, NEW t, Goes(r, t), stage' = [stage EXCEPT ![r] = t],
           UNCHANGED <<layout, registers>>,
           stage[r] = "handshake" => \A q \in Ranks : stage[q] # "gather"
    PROVE  /\ layout' \in Layouts /\ stage' \in [Ranks -> Stages]
           /\ NobodyAhead' /\ RegistersOK' /\ \A q \in Ranks : stage[q] # "gather"
  <1>1. stage \in [Ranks -> Stages] /\ t \in Stages /\ t # "gather" /\ stage[r] # "gather"
    BY DEF LookupOK, Goes, Stages, Waiting
  <1>2. \A q \in Ranks : stage[q] # "gather"
    BY DEF LookupOK, NobodyAhead, Goes
  <1>3. \A q \in Ranks : stage'[q] = IF q = r THEN t ELSE stage[q]
    BY <1>1
  <1>4. NobodyAhead'
    BY <1>1, <1>2, <1>3 DEF NobodyAhead
  <1>5. RegistersOK'
    BY <1>1, <1>2, <1>3 DEF LookupOK, RegistersOK, Used
  <1> QED
    BY <1>1, <1>2, <1>4, <1>5 DEF LookupOK

\* What an owner knows changes with the exchange it has waited for.
LEMMA RecvsFollow ==
    ASSUME LookupOK, NEW r \in Ranks, NEW t, stage' = [stage EXCEPT ![r] = t], registers' = registers,
           NEW new, Recvs' = [Recvs EXCEPT ![r] = new],
           new = [side \in Sides |-> [q \in Ranks |-> RecvAt(TakenAt(t), r, side, q)]]
    PROVE  RecvsOK'
  <1>1. \A d \in Ranks : stage'[d] = IF d = r THEN t ELSE stage[d]
    BY DEF LookupOK
  <1>2. RecvsOK' <=>
            Recvs' = [d \in Ranks |-> [side \in Sides |-> [q \in Ranks |->
                         RecvAt(TakenAt(stage'[d]), d, side, q)]]]
    BY DEF RecvsOK, RecvAt, RecvsFrom, SendsTo, CountFor, PointsFor
  <1>3. \A d \in Ranks : Recvs'[d] = [side \in Sides |-> [q \in Ranks |->
                                        RecvAt(TakenAt(stage'[d]), d, side, q)]]
    BY <1>1 DEF LookupOK, RecvsOK
  <1>4. Recvs' = [d \in Ranks |-> Recvs'[d]]
    BY DEF LookupOK, RecvsOK
  <1> QED
    BY <1>2, <1>3, <1>4

LEMMA RanksFollow ==
    ASSUME LookupOK, NEW r \in Ranks, NEW t, stage' = [stage EXCEPT ![r] = t], layout' = layout,
           NEW dest, NEW source,
           DestinationRanks' = [DestinationRanks EXCEPT ![r] = dest], dest = DestinationsAt(t, r),
           SourceRanks' = [SourceRanks EXCEPT ![r] = source], source = SourcesAt(t, r)
    PROVE  RanksOK'
  <1>1. \A d \in Ranks : stage'[d] = IF d = r THEN t ELSE stage[d]
    BY DEF LookupOK
  <1>2. RanksOK' <=> /\ DestinationRanks' = [d \in Ranks |-> DestinationsAt(stage'[d], d)]
                     /\ SourceRanks' = [d \in Ranks |-> SourcesAt(stage'[d], d)]
    BY DEF RanksOK, DestinationsAt, SourcesAt, Known, Donors, Receivers, Communicates
  <1>3. DestinationRanks' = [d \in Ranks |-> DestinationsAt(stage'[d], d)]
    BY <1>1 DEF LookupOK, RanksOK
  <1>4. SourceRanks' = [d \in Ranks |-> SourcesAt(stage'[d], d)]
    BY <1>1 DEF LookupOK, RanksOK
  <1> QED
    BY <1>2, <1>3, <1>4

LEMMA RanksStay ==
    ASSUME LookupOK, NEW r \in Ranks, NEW t, Goes(r, t), t # "done",
           stage' = [stage EXCEPT ![r] = t], UNCHANGED <<layout, DestinationRanks, SourceRanks>>
    PROVE  RanksOK'
  <1>1. /\ DestinationsAt(t, r) = DestinationsAt(stage[r], r)
        /\ SourcesAt(t, r) = SourcesAt(stage[r], r)
    BY DEF Goes, DestinationsAt, SourcesAt, Known
  <1>2. /\ DestinationRanks' = [DestinationRanks EXCEPT ![r] = DestinationsAt(t, r)]
        /\ SourceRanks' = [SourceRanks EXCEPT ![r] = SourcesAt(t, r)]
    BY <1>1 DEF LookupOK, RanksOK
  <1> QED
    BY <1>2, RanksFollow

LEMMA MeantAre ==
    ASSUME NEW r \in Ranks, NEW d \in Ranks, NEW side \in Sides
    PROVE  /\ "counts" \in Meant(r, d, side) <=> d \in SendsTo(r, side)
           /\ "indices" \in Meant(r, d, side) <=> d \in SendsTo(r, side)
           /\ "ranks" \in Meant(r, d, side) <=> d \in RecvsFrom(r, side)
           /\ "done" \notin Meant(r, d, side)
  BY DEF Meant, RecvsFrom

LEMMA StartCountsKeeps ==
    ASSUME LookupOK, NEW r \in Ranks, StartCounts(r)
    PROVE  LookupOK'
  <1> DEFINE counts == [side \in Sides |-> [d \in Ranks |-> CountFor(r, side, d)]]
  <1>1. /\ stage[r] = "handshake" /\ stage' = [stage EXCEPT ![r] = "counts"]
        /\ \A q \in Ranks : stage[q] # "gather"
        /\ Communicate(r, Nobody, Owners(r), "counts", counts)
        /\ UNCHANGED <<layout, registers, Recvs, DestinationRanks, SourceRanks>>
    BY DEF StartCounts
  <1> HIDE DEF counts
  <1>2. Goes(r, "counts") /\ stage[r] \notin Waiting
    BY <1>1 DEF Goes, Waiting
  <1>3. ChannelOK' /\ TakenWasSent'
    <2>1. \A side \in Sides : SendsTo(r, side) \subseteq Ranks
      BY OwnersAreRanks DEF LookupOK
    <2>2. \A side \in Sides : \A d \in Ranks : d \in Owners(r)[side] <=> "counts" \in Meant(r, d, side)
      BY MeantAre DEF Owners
    <2>3. \A side \in Sides : \A d \in Owners(r)[side] : counts[side][d] = Data("counts", r, d, side)
      BY <2>1 DEF Owners, Data, counts
    <2> QED
      BY <1>1, <1>2, <2>2, <2>3, ChannelMoves
  <1>4. RecvsOK'
    <2>1. TakenAt("counts") = TakenAt(stage[r])
      BY <1>1, EarlierKinds DEF TakenAt, Waiting
    <2>2. Recvs' = [Recvs EXCEPT ![r] = [side \in Sides |-> [q \in Ranks |->
                       RecvAt(TakenAt("counts"), r, side, q)]]]
      BY <1>1, <2>1 DEF LookupOK, RecvsOK
    <2> QED
      BY <1>1, <2>2, RecvsFollow
  <1>5. RanksOK'
    BY <1>1, <1>2, RanksStay
  <1> QED
    BY <1>1, <1>2, <1>3, <1>4, <1>5, GoesOn DEF LookupOK

LEMMA WaitCountsKeeps ==
    ASSUME LookupOK, NEW r \in Ranks, WaitCounts(r)
    PROVE  LookupOK'
  <1> DEFINE indices == [side \in Sides |-> [d \in Ranks |-> PointsFor(r, side, d)]]
             new == [side \in Sides |-> [q \in Ranks |->
                        IF q \in From(r, side)
                        THEN [Recvs[r][side][q] EXCEPT !.Count = First(q, r, side)]
                        ELSE Recvs[r][side][q]]]
  <1>1. /\ stage[r] = "counts" /\ stage' = [stage EXCEPT ![r] = "indices"] /\ AllThere(r)
        /\ Communicate(r, Waited(r), Owners(r), "indices", indices)
        /\ Recvs' = [Recvs EXCEPT ![r] = new]
        /\ UNCHANGED <<layout, registers, DestinationRanks, SourceRanks>>
    BY DEF WaitCounts
  <1> HIDE DEF indices, new
  <1>2. Goes(r, "indices") /\ stage[r] \in Waiting
    BY <1>1 DEF Goes, Waiting
  <1>3. ChannelOK' /\ TakenWasSent'
    <2>1. \A side \in Sides : SendsTo(r, side) \subseteq Ranks
      BY OwnersAreRanks DEF LookupOK
    <2>2. \A side \in Sides : \A d \in Ranks : d \in Owners(r)[side] <=> "indices" \in Meant(r, d, side)
      BY MeantAre DEF Owners
    <2>3. \A side \in Sides : \A d \in Owners(r)[side] : indices[side][d] = Data("indices", r, d, side)
      BY <2>1 DEF Owners, Data, indices
    <2> QED
      BY <1>1, <1>2, <2>2, <2>3, ChannelMoves
  <1>4. RecvsOK'
    <2>1. ASSUME NEW side \in Sides, NEW q \in Ranks
          PROVE  new[side][q] = RecvAt(TakenAt("indices"), r, side, q)
      <3>1. TakenAt("counts") = {} /\ TakenAt("indices") = {"counts"}
        BY EarlierKinds DEF TakenAt, Waiting
      <3>2. Recvs[r][side][q] = [Count |-> 0, PointIndices |-> <<>>]
        BY <1>1, <3>1 DEF LookupOK, RecvsOK, RecvAt
      <3>3. From(r, side) = RecvsFrom(r, side)
        BY <1>1 DEF From
      <3>4. ASSUME q \in From(r, side)
            PROVE  First(q, r, side) = CountFor(q, side, r)
        <4>1. First(q, r, side) = Data("counts", q, r, side)
          BY <1>1, <1>2, <3>4, FirstDataIs DEF AllThere
        <4> QED
          BY <4>1 DEF Data
      <3> QED
        BY <3>1, <3>2, <3>3, <3>4 DEF new, RecvAt
    <2>2. new = [side \in Sides |-> [q \in Ranks |-> RecvAt(TakenAt("indices"), r, side, q)]]
      BY <2>1 DEF new
    <2> QED
      BY <1>1, <2>2, RecvsFollow
  <1>5. RanksOK'
    BY <1>1, <1>2, RanksStay
  <1> QED
    BY <1>1, <1>2, <1>3, <1>4, <1>5, GoesOn DEF LookupOK

\* The two sides of a connectivity.
LEMMA OtherSides ==
    OtherSide("M") = "N" /\ OtherSide("N") = "M"
  BY DEF OtherSide, Sides

\* The owner has heard of a point from everybody who registered it.
LEMMA OwnerKnows ==
    ASSUME RegistersOK, NEW r \in Ranks, NEW side \in Sides, NEW p, Owner(p) = r, NEW taken, "indices" \in taken,
           NEW recvs, \A q \in Ranks : recvs[side][q] = RecvAt(taken, r, side, q)
    PROVE  RankOf(recvs, side, p) = RankFor(side, p)
  <1>1. ASSUME NEW q \in Ranks
        PROVE  p \in Range(recvs[side][q].PointIndices) <=> p \in Range(registers[q][side])
    <2>1. Range(PointsFor(q, side, r)) = {x \in Range(registers[q][side]) : Owner(x) = r}
      BY PointsForIs
    <2>2. recvs[side][q].PointIndices = IF q \in RecvsFrom(r, side) THEN PointsFor(q, side, r) ELSE <<>>
      <3>1. recvs[side][q] = RecvAt(taken, r, side, q)
        OBVIOUS
      <3>2. RecvAt(taken, r, side, q).PointIndices
                = IF q \in RecvsFrom(r, side) THEN PointsFor(q, side, r) ELSE <<>>
        BY DEF RecvAt
      <3> QED
        BY <3>1, <3>2, Zenon
    <2>3. p \in Range(registers[q][side]) => q \in RecvsFrom(r, side)
      BY DEF RecvsFrom, SendsTo
    <2>4. Range(<<>>) = {}
      BY DEF Range
    <2> QED
      BY <2>1, <2>2, <2>3, <2>4
  <1>2. {q \in Ranks : p \in Range(recvs[side][q].PointIndices)} = {q \in Ranks : p \in Range(registers[q][side])}
    BY <1>1
  <1> QED
    BY <1>2, Zenon DEF RankOf, RankFor

\* A point is registered by one rank on each side.
LEMMA OneRegisters ==
    ASSUME LookupOK, \A q \in Ranks : stage[q] # "gather", NEW p \in Used \ layout.known
    PROVE  RankFor("M", p) = layout.corner[p] /\ RankFor("N", p) = layout.receiver[p]
  <1>1. layout.corner[p] \in Ranks /\ layout.receiver[p] \in Ranks
    BY LayoutsAssumption DEF LookupOK, Used
  <1>2. ASSUME NEW x \in Ranks
        PROVE  Max({x}) = x
    BY DEF Max, Ranks
  <1>3. {q \in Ranks : p \in Range(registers[q]["M"])} = {layout.corner[p]}
    BY <1>1 DEF LookupOK, RegistersOK
  <1>4. {q \in Ranks : p \in Range(registers[q]["N"])} = {layout.receiver[p]}
    BY <1>1 DEF LookupOK, RegistersOK
  <1>5. RankFor("M", p) = Max({layout.corner[p]}) /\ RankFor("N", p) = Max({layout.receiver[p]})
    BY <1>3, <1>4 DEF RankFor
  <1> QED
    BY <1>1, <1>2, <1>5

LEMMA WaitIndicesKeeps ==
    ASSUME LookupOK, NEW r \in Ranks, WaitIndices(r)
    PROVE  LookupOK'
  <1> DEFINE recvs == [side \in Sides |-> [q \in Ranks |->
                 IF q \in From(r, side)
                 THEN [Recvs[r][side][q] EXCEPT !.PointIndices = First(q, r, side)]
                 ELSE Recvs[r][side][q]]]
             answers == [side \in Sides |-> [d \in Ranks |->
                 LET points == recvs[side][d].PointIndices
                 IN  [i \in DOMAIN points |-> RankOf(recvs, OtherSide(side), points[i])]]]
  <1>1. /\ stage[r] = "indices" /\ stage' = [stage EXCEPT ![r] = "ranks"] /\ AllThere(r)
        /\ Communicate(r, Waited(r), Waited(r), "ranks", answers)
        /\ Recvs' = [Recvs EXCEPT ![r] = recvs]
        /\ UNCHANGED <<layout, registers, DestinationRanks, SourceRanks>>
    BY DEF WaitIndices
  <1>2. Goes(r, "ranks") /\ stage[r] \in Waiting
    BY <1>1 DEF Goes, Waiting
  <1>3. \A side \in Sides : From(r, side) = RecvsFrom(r, side)
    BY <1>1 DEF From
  <1>4. ASSUME NEW side \in Sides, NEW q \in Ranks
        PROVE  recvs[side][q] = RecvAt(TakenAt("ranks"), r, side, q)
    <2>1. TakenAt("indices") = {"counts"} /\ TakenAt("ranks") = {"counts", "indices"}
      BY EarlierKinds DEF TakenAt, Waiting
    <2>2. Recvs[r][side][q] = RecvAt({"counts"}, r, side, q)
      BY <1>1, <2>1 DEF LookupOK, RecvsOK
    <2>3. ASSUME q \in From(r, side)
          PROVE  First(q, r, side) = PointsFor(q, side, r)
      <3>1. First(q, r, side) = Data("indices", q, r, side)
        BY <1>1, <1>2, <2>3, FirstDataIs DEF AllThere
      <3> QED
        BY <3>1 DEF Data
    <2> QED
      BY <1>3, <2>1, <2>2, <2>3 DEF RecvAt
  <1>5. ChannelOK' /\ TakenWasSent'
    <2>1. \A side \in Sides : \A d \in Ranks : d \in Waited(r)[side] <=> "ranks" \in Meant(r, d, side)
      BY <1>3, MeantAre DEF Waited
    <2>2. ASSUME NEW side \in Sides, NEW d \in Waited(r)[side]
          PROVE  answers[side][d] = Data("ranks", r, d, side)
      <3>1. d \in Ranks /\ d \in RecvsFrom(r, side)
        BY <1>3, <2>2 DEF Waited, RecvsFrom
      <3> DEFINE points == PointsFor(d, side, r)
                 other == OtherSide(side)
      <3>2. recvs[side][d].PointIndices = points
        <4>1. "indices" \in TakenAt("ranks")
          BY EarlierKinds DEF TakenAt, Waiting
        <4>2. recvs[side][d] = RecvAt(TakenAt("ranks"), r, side, d)
          BY <1>4, <3>1
        <4> HIDE DEF recvs
        <4> QED
          BY <3>1, <4>1, <4>2 DEF RecvAt
      <3>3. answers[side][d] = [i \in DOMAIN points |-> RankOf(recvs, other, points[i])]
        <4> HIDE DEF recvs, points, other
        <4>1. answers[side][d] = LET p == recvs[side][d].PointIndices
                                 IN  [i \in DOMAIN p |-> RankOf(recvs, OtherSide(side), p[i])]
          BY <3>1
        <4> QED
          BY <3>2, <4>1 DEF other
      <3>4. ASSUME NEW i \in DOMAIN points
            PROVE  RankOf(recvs, other, points[i]) = RankFor(other, points[i])
        <4>1. Owner(points[i]) = r
          BY <3>1, PointsForIs DEF Range, LookupOK
        <4>2. other \in Sides
          BY OtherSides DEF Sides
        <4>3. "indices" \in TakenAt("ranks")
          BY EarlierKinds DEF TakenAt, Waiting
        <4> HIDE DEF recvs, points, other
        <4> QED
          BY <1>4, <4>1, <4>2, <4>3, OwnerKnows DEF LookupOK
      <3>5. Data("ranks", r, d, side) = [i \in DOMAIN points |-> RankFor(other, points[i])]
        BY DEF Data
      <3> HIDE DEF recvs, answers, points, other
      <3> QED
        BY <3>3, <3>4, <3>5
    <2> HIDE DEF recvs, answers
    <2> QED
      BY <1>1, <1>2, <2>1, <2>2, ChannelMoves
  <1>6. RecvsOK'
    <2>1. recvs = [side \in Sides |-> [q \in Ranks |-> RecvAt(TakenAt("ranks"), r, side, q)]]
      BY <1>4
    <2> HIDE DEF recvs, answers
    <2> QED
      BY <1>1, <2>1, RecvsFollow
  <1>7. RanksOK'
    BY <1>1, <1>2, RanksStay
  <1> HIDE DEF recvs, answers
  <1> QED
    BY <1>1, <1>2, <1>5, <1>6, <1>7, GoesOn DEF LookupOK

\* The answer for a point is the rank that registered it on the other side.
LEMMA AnswerIs ==
    ASSUME LookupOK, NEW r \in Ranks, stage[r] = "ranks", AllThere(r), NEW side \in Sides,
           NEW p \in Range(registers[r][side])
    PROVE  Answered(r, side, p) = RankFor(OtherSide(side), p)
  <1> DEFINE o == Owner(p)
             asked == PointsFor(r, side, o)
             i == CHOOSE j \in DOMAIN asked : asked[j] = p
  <1>1. o \in From(r, side) /\ stage[r] \in Waiting
    BY DEF From, SendsTo, Waiting
  <1>2. IsLog(asked) /\ p \in Range(asked)
    BY PointsForIs DEF LookupOK
  <1>3. i \in DOMAIN asked /\ asked[i] = p
    BY <1>2 DEF Range
  <1>4. First(o, r, side) = [j \in DOMAIN asked |-> RankFor(OtherSide(side), asked[j])]
    <2>1. First(o, r, side) = Data("ranks", o, r, side)
      BY <1>1, FirstDataIs DEF AllThere
    <2> QED
      BY <2>1 DEF Data
  <1>5. Answered(r, side, p) = First(o, r, side)[i]
    BY DEF Answered
  <1> HIDE DEF o, asked, i
  <1> QED
    BY <1>3, <1>4, <1>5

LEMMA WaitRanksKeeps ==
    ASSUME LookupOK, NEW r \in Ranks, WaitRanks(r)
    PROVE  LookupOK'
  <1> DEFINE data == [side \in Sides |-> [d \in Ranks |-> <<>>]]
  <1>1. /\ stage[r] = "ranks" /\ stage' = [stage EXCEPT ![r] = "done"] /\ AllThere(r)
        /\ DestinationRanks' = [DestinationRanks EXCEPT ![r] = Unpacked(r, "M", DestinationRanks[r])]
        /\ SourceRanks' = [SourceRanks EXCEPT ![r] = Unpacked(r, "N", SourceRanks[r])]
        /\ Communicate(r, Waited(r), Nobody, "ranks", data)
        /\ UNCHANGED <<layout, registers, Recvs>>
    BY DEF WaitRanks
  <1> HIDE DEF data
  <1>2. Goes(r, "done") /\ stage[r] \in Waiting /\ "done" \notin Waiting
    BY <1>1 DEF Goes, Waiting
  <1>3. \A q \in Ranks : stage[q] # "gather"
    BY <1>1, <1>2, GoesOn
  <1>4. ChannelOK' /\ TakenWasSent'
    <2>1. \A side \in Sides : \A d \in Ranks : d \in Nobody[side] <=> "done" \in Meant(r, d, side)
      BY MeantAre DEF Nobody
    <2> QED
      BY <1>1, <1>2, <2>1, ChannelMoves
  <1>5. RecvsOK'
    <2>1. TakenAt("done") = Waiting /\ TakenAt("ranks") = {"counts", "indices"}
      BY EarlierKinds DEF TakenAt, Waiting
    <2>2. \A side \in Sides, q \in Ranks :
              RecvAt(TakenAt("done"), r, side, q) = RecvAt(TakenAt("ranks"), r, side, q)
      BY <2>1 DEF RecvAt, Waiting
    <2> DEFINE new == Recvs[r]
    <2>3. new = [side \in Sides |-> [q \in Ranks |-> RecvAt(TakenAt("done"), r, side, q)]]
      <3>1. new = [side \in Sides |-> [q \in Ranks |-> RecvAt(TakenAt("ranks"), r, side, q)]]
        BY <1>1 DEF LookupOK, RecvsOK
      <3> HIDE DEF new
      <3> QED
        BY <2>2, <3>1
    <2>4. Recvs' = [Recvs EXCEPT ![r] = new]
      BY <1>1 DEF LookupOK, RecvsOK
    <2>5. stage' = [stage EXCEPT ![r] = "done"] /\ registers' = registers
      BY <1>1
    <2> HIDE DEF new
    <2> QED
      BY <2>3, <2>4, <2>5, RecvsFollow
  <1>6. /\ Range(Donors(r)) \subseteq Used /\ Range(Receivers(r)) \subseteq Used
        /\ \A p \in Range(Receivers(r)) : layout.receiver[p] = r
    BY DonorsAndReceivers DEF LookupOK
  <1>7. Unpacked(r, "M", DestinationRanks[r]) = DestinationsAt("done", r)
    <2>1. DestinationRanks[r] = [p \in Range(Donors(r)) |->
              IF Communicates(r, p) THEN Known("ranks", p, layout.receiver) ELSE -1]
      BY <1>1 DEF LookupOK, RanksOK, DestinationsAt
    <2>2. DestinationsAt("done", r) = [p \in Range(Donors(r)) |->
              IF Communicates(r, p) THEN layout.receiver[p] ELSE -1]
      BY DEF DestinationsAt, Known
    <2>3. Range(registers[r]["M"]) = {p \in Used \ layout.known : layout.corner[p] = r}
      BY <1>3 DEF LookupOK, RegistersOK
    <2>4. ASSUME NEW p \in Range(registers[r]["M"])
          PROVE  Answered(r, "M", p) = layout.receiver[p]
      <3>1. Answered(r, "M", p) = RankFor("N", p)
        BY <1>1, AnswerIs, OtherSides DEF Sides
      <3> QED
        BY <1>3, <2>3, <3>1, OneRegisters
    <2> QED
      BY <1>6, <2>1, <2>2, <2>3, <2>4 DEF Unpacked, Communicates, Known
  <1>8. Unpacked(r, "N", SourceRanks[r]) = SourcesAt("done", r)
    <2>1. SourceRanks[r] = [p \in Range(Receivers(r)) |-> Known("ranks", p, layout.corner)]
      BY <1>1 DEF LookupOK, RanksOK, SourcesAt
    <2>2. SourcesAt("done", r) = [p \in Range(Receivers(r)) |-> layout.corner[p]]
      BY DEF SourcesAt, Known
    <2>3. Range(registers[r]["N"]) = {p \in Used \ layout.known : layout.receiver[p] = r}
      BY <1>3 DEF LookupOK, RegistersOK
    <2>4. ASSUME NEW p \in Range(registers[r]["N"])
          PROVE  Answered(r, "N", p) = layout.corner[p]
      <3>1. Answered(r, "N", p) = RankFor("M", p)
        BY <1>1, AnswerIs, OtherSides DEF Sides
      <3> QED
        BY <1>3, <2>3, <3>1, OneRegisters
    <2> QED
      BY <1>6, <2>1, <2>2, <2>3, <2>4 DEF Unpacked, Known
  <1>9. RanksOK'
    BY <1>1, <1>7, <1>8, RanksFollow
  <1> QED
    BY <1>1, <1>2, <1>4, <1>5, <1>9, GoesOn DEF LookupOK

\* Before the handshakes have returned nothing has been sent.
Early == \A q \in Ranks : stage[q] \in {"gather", "handshake"}

Quiet ==
    /\ TakenWasSent
    /\ ChannelOK <=> channel = [q \in Ranks |-> [r \in Ranks |-> Nothing]]
    /\ RecvsOK <=> Recvs = [r \in Ranks |-> [side \in Sides |-> [q \in Ranks |->
                                [Count |-> 0, PointIndices |-> <<>>]]]]

LEMMA EarlyIsQuiet == Early => Quiet
  <1> SUFFICES ASSUME Early
               PROVE  Quiet
    OBVIOUS
  <1>1. \A q \in Ranks : Posted(stage[q]) = {} /\ TakenAt(stage[q]) = {}
    BY DEF Early, Posted, TakenAt, Waiting
  <1>2. TakenWasSent
    BY <1>1 DEF TakenWasSent
  <1>3. \A q, r \in Ranks : \A side \in Sides : Line(UnderWay(q, r, side), Messages(q, r, side)) = <<>>
    BY <1>1, NoneSent DEF UnderWay
  <1>4. [q \in Ranks |-> [r \in Ranks |-> [side \in Sides |->
             Line(UnderWay(q, r, side), Messages(q, r, side))]]] = [q \in Ranks |-> [r \in Ranks |-> Nothing]]
    BY <1>3 DEF Nothing
  <1>5. \A r, q \in Ranks : \A side \in Sides :
            RecvAt(TakenAt(stage[r]), r, side, q) = [Count |-> 0, PointIndices |-> <<>>]
    BY <1>1 DEF RecvAt
  <1>6. [r \in Ranks |-> [side \in Sides |-> [q \in Ranks |-> RecvAt(TakenAt(stage[r]), r, side, q)]]]
            = [r \in Ranks |-> [side \in Sides |-> [q \in Ranks |-> [Count |-> 0, PointIndices |-> <<>>]]]]
    BY <1>5
  <1> QED
    BY <1>2, <1>4, <1>6, Zenon DEF ChannelOK, RecvsOK, Quiet

LEMMA InitialLookup ==
    ASSUME LookupInit
    PROVE  LookupOK
  <1>1. layout \in Layouts /\ stage \in [Ranks -> Stages] /\ \A r \in Ranks : stage[r] = "gather"
    BY DEF LookupInit, Stages
  <1>2. Early /\ NobodyAhead
    BY <1>1 DEF Early, NobodyAhead
  <1>3. RegistersOK
    <2>1. <<>> \in Seq(Used)
      OBVIOUS
    <2> QED
      BY <1>1, <2>1 DEF LookupInit, RegistersOK, Nothing
  <1>4. TakenWasSent /\ ChannelOK /\ RecvsOK
    BY <1>2, EarlyIsQuiet DEF LookupInit, Quiet
  <1>5. RanksOK
    BY <1>1 DEF LookupInit, RanksOK, DestinationsAt, SourcesAt
  <1> QED
    BY <1>1, <1>2, <1>3, <1>4, <1>5 DEF LookupOK

LEMMA GatherKeeps ==
    ASSUME LookupOK, NEW r \in Ranks, Gather(r)
    PROVE  LookupOK'
  <1> DEFINE Initial(rank, p) == IF p \in layout.known THEN rank[p] ELSE -1
             dest == [p \in Range(Donors(r)) |->
                         IF Communicates(r, p) THEN Initial(layout.receiver, p) ELSE -1]
             source == [p \in Range(Receivers(r)) |-> Initial(layout.corner, p)]
             ms == Among(Donors(r), {p \in Range(Donors(r)) : Communicates(r, p) /\ dest[p] < 0})
             ns == Among(Receivers(r), {p \in Range(Receivers(r)) : source[p] < 0})
  <1>1. /\ stage[r] = "gather" /\ stage' = [stage EXCEPT ![r] = "handshake"]
        /\ DestinationRanks' = [DestinationRanks EXCEPT ![r] = dest]
        /\ SourceRanks' = [SourceRanks EXCEPT ![r] = source]
        /\ registers' = [registers EXCEPT ![r] = [M |-> ms, N |-> ns]]
        /\ UNCHANGED <<layout, channel, Recvs>>
    BY DEF Gather
  <1>2. dest = DestinationsAt("handshake", r) /\ source = SourcesAt("handshake", r)
    BY DEF DestinationsAt, SourcesAt, Known
  <1>3. /\ IsLog(ms) /\ Range(ms) = {p \in Used \ layout.known : layout.corner[p] = r}
        /\ IsLog(ns) /\ Range(ns) = {p \in Used \ layout.known : layout.receiver[p] = r}
    <2>1. /\ IsLog(Donors(r)) /\ Range(Donors(r)) = {p \in Used : r \in {layout.corner[p], layout.other[p]}}
          /\ IsLog(Receivers(r)) /\ Range(Receivers(r)) = {p \in Used : layout.receiver[p] = r}
      BY DonorsAndReceivers DEF LookupOK
    <2>2. \A p \in Used : layout.corner[p] \in Nat /\ layout.receiver[p] \in Nat
      BY LayoutsAssumption DEF LookupOK, Used, Ranks
    <2>3. \A p \in Range(Donors(r)) :
              Communicates(r, p) /\ dest[p] < 0 <=> layout.corner[p] = r /\ p \notin layout.known
      BY <2>1, <2>2 DEF Communicates
    <2>4. \A p \in Range(Receivers(r)) : source[p] < 0 <=> p \notin layout.known
      BY <2>1, <2>2
    <2>5. IsLog(ms) /\ Range(ms) = Range(Donors(r)) \cap
                                       {p \in Range(Donors(r)) : Communicates(r, p) /\ dest[p] < 0}
      <3> HIDE DEF dest
      <3> QED
        BY <2>1, AmongIs
    <2>6. IsLog(ns) /\ Range(ns) = Range(Receivers(r)) \cap {p \in Range(Receivers(r)) : source[p] < 0}
      <3> HIDE DEF source
      <3> QED
        BY <2>1, AmongIs
    <2> HIDE DEF dest, source, ms, ns
    <2> QED
      BY <2>1, <2>3, <2>4, <2>5, <2>6
  <1> HIDE DEF dest, source, ms, ns
  <1>4. ms \in Seq(Used) /\ ns \in Seq(Used)
    <2>1. ASSUME NEW s, IsLog(s), Range(s) \subseteq Used
          PROVE  s \in Seq(Used)
      BY <2>1 DEF IsLog, Range
    <2> QED
      BY <1>3, <2>1
  <1>5. /\ stage' \in [Ranks -> Stages] /\ layout' \in Layouts /\ Early /\ Early' /\ NobodyAhead'
        /\ \A q \in Ranks : stage'[q] = IF q = r THEN "handshake" ELSE stage[q]
    BY <1>1 DEF LookupOK, NobodyAhead, Early, Stages
  <1>6. RegistersOK'
    <2> DEFINE both == [M |-> ms, N |-> ns]
    <2>1. both["M"] = ms /\ both["N"] = ns /\ both \in [Sides -> Seq(Used)]
      BY <1>4 DEF Sides
    <2> HIDE DEF both
    <2>2. registers \in [Ranks -> [Sides -> Seq(Used)]] /\ registers' = [registers EXCEPT ![r] = both]
      BY <1>1 DEF LookupOK, RegistersOK, both
    <2>3. registers' \in [Ranks -> [Sides -> Seq(Used)]]
      BY <2>1, <2>2
    <2>4. \A q \in Ranks : registers'[q] = IF q = r THEN both ELSE registers[q]
      BY <2>2
    <2> QED
      BY <1>1, <1>3, <1>5, <2>1, <2>3, <2>4 DEF LookupOK, RegistersOK, Used
  <1>7. TakenWasSent' /\ ChannelOK' /\ RecvsOK'
    <2>1. /\ channel = [q \in Ranks |-> [d \in Ranks |-> Nothing]]
          /\ Recvs = [d \in Ranks |-> [side \in Sides |-> [q \in Ranks |->
                          [Count |-> 0, PointIndices |-> <<>>]]]]
      BY <1>5, EarlyIsQuiet DEF LookupOK, Quiet
    <2>2. Early' => Quiet'
      BY EarlyIsQuiet, PTL
    <2> QED
      BY <1>1, <1>5, <2>1, <2>2 DEF Quiet
  <1>8. RanksOK'
    BY <1>1, <1>2, RanksFollow
  <1> QED
    BY <1>5, <1>6, <1>7, <1>8 DEF LookupOK
-----------------------------------------------------------------------------
LEMMA UntouchedKeeps ==
    ASSUME LookupOK, UNCHANGED lookupVars
    PROVE  LookupOK'
  <1> USE DEF lookupVars
  <1>1. layout' \in Layouts /\ stage' \in [Ranks -> Stages] /\ NobodyAhead'
    BY DEF LookupOK, NobodyAhead
  <1>2. RegistersOK'
    BY DEF LookupOK, RegistersOK, Used
  <1>3. TakenWasSent'
    BY DEF LookupOK, TakenWasSent, Meant, SendsTo
  <1>4. ChannelOK'
    <2>1. ASSUME NEW q \in Ranks, NEW r \in Ranks, NEW side \in Sides
          PROVE  Line(UnderWay(q, r, side), Messages(q, r, side))' = channel'[q][r][side]
      <3>1. UnderWay(q, r, side)' = UnderWay(q, r, side)
        BY DEF UnderWay, Meant, SendsTo
      <3>2. Messages(q, r, side)' = Messages(q, r, side)
        BY DEF Messages, Data, CountFor, PointsFor, RankFor
      <3> QED
        BY <3>1, <3>2 DEF LookupOK, ChannelOK
    <2>2. channel' = [q \in Ranks |-> [r \in Ranks |-> [side \in Sides |-> channel'[q][r][side]]]]
      BY DEF LookupOK, ChannelOK
    <2> QED
      BY <2>1, <2>2 DEF ChannelOK
  <1>5. RecvsOK'
    BY DEF LookupOK, RecvsOK, RecvAt, RecvsFrom, SendsTo, CountFor, PointsFor
  <1>6. RanksOK'
    BY DEF LookupOK, RanksOK, DestinationsAt, SourcesAt, Known, Donors, Receivers, Communicates
  <1> QED
    BY <1>1, <1>2, <1>3, <1>4, <1>5, <1>6 DEF LookupOK

\* The sends, the receives and the waits leave what has been looked up alone.
LEMMA RequestsTouchNothing ==
    ASSUME NEW r, Wait(r) \/ Completed(r) \/ Disperse(r) \/ \E x \in Exchanges : Send(r, x) \/ Receive(r, x)
    PROVE  UNCHANGED lookupVars
  <1>1. CASE Wait(r)
    <2>1. \E requests : WaitAll(r, requests) \/ WaitAny(r, requests)
      BY <1>1 DEF Wait
    <2> QED
      BY <2>1 DEF WaitAll, WaitAny
  <1>2. CASE Completed(r) \/ Disperse(r)
    BY <1>2 DEF Completed, Disperse
  <1>3. CASE \E x \in Exchanges : Send(r, x) \/ Receive(r, x)
    BY <1>3 DEF Send, Receive
  <1> QED
    BY <1>1, <1>2, <1>3

\* The look-up's state follows from the layout and from how far each rank is:
\* the invariant of exchanger::UpdateSourceDestRanks_.
THEOREM LookupInvariance == Spec => []LookupOK
  <1>1. Init => LookupOK
    BY InitialLookup DEF Init
  <1>2. LookupOK /\ [Next]_vars => LookupOK'
    <2> SUFFICES ASSUME LookupOK, [Next]_vars
                 PROVE  LookupOK'
      OBVIOUS
    <2>1. ASSUME NEW r \in Ranks, Lookup(r)
          PROVE  LookupOK'
      BY <2>1, GatherKeeps, StartCountsKeeps, WaitCountsKeeps, WaitIndicesKeeps, WaitRanksKeeps DEF Lookup
    <2>2. ASSUME NEW r \in Ranks,
                 Wait(r) \/ Completed(r) \/ Disperse(r) \/ \E x \in Exchanges : Send(r, x) \/ Receive(r, x)
          PROVE  LookupOK'
      BY <2>2, RequestsTouchNothing, UntouchedKeeps
    <2>3. CASE Finished \/ UNCHANGED vars
      BY <2>3, UntouchedKeeps DEF Finished, vars
    <2> QED
      BY <2>1, <2>2, <2>3 DEF Next
  <1> QED
    BY <1>1, <1>2, PTL DEF Spec

\* Although a rank may be an exchange ahead of another, the next message it
\* takes is of the exchange it waits for and of the size it expects, for any
\* number of ranks and points: the two handshakes of tags 0 and 1 and the three
\* exchanges after them on one communicator (exchanger::UpdateSourceDestRanks_).
THEOREM ExchangesStayInStep == Spec => []StagesMatch
  <1>1. LookupOK => StagesMatch
    <2> SUFFICES ASSUME LookupOK, NEW r \in Ranks, stage[r] \in Waiting, NEW side \in Sides,
                        NEW q \in From(r, side), channel[q][r][side] # <<>>
                 PROVE  /\ Head(channel[q][r][side]).kind = stage[r]
                        /\ stage[r] = "indices" => Len(First(q, r, side)) = Recvs[r][side][q].Count
                        /\ stage[r] = "ranks" => Len(First(q, r, side)) = CountFor(r, side, q)
      BY DEF StagesMatch
    <2>1. First(q, r, side) = Data(stage[r], q, r, side) /\ Head(channel[q][r][side]).kind = stage[r]
      BY FirstDataIs
    <2>2. q \in Ranks
      BY FirstIsExpected
    <2>3. ASSUME stage[r] = "indices"
          PROVE  Len(First(q, r, side)) = Recvs[r][side][q].Count
      <3>1. "counts" \in TakenAt(stage[r]) /\ q \in RecvsFrom(r, side)
        BY <2>3, EarlierKinds DEF TakenAt, Waiting, From
      <3>2. Recvs[r][side][q] = RecvAt(TakenAt(stage[r]), r, side, q)
        BY <2>2 DEF LookupOK, RecvsOK
      <3>3. Recvs[r][side][q].Count = CountFor(q, side, r)
        BY <3>1, <3>2 DEF RecvAt
      <3> QED
        BY <2>1, <2>3, <3>3 DEF Data, CountFor
    <2>4. ASSUME stage[r] = "ranks"
          PROVE  Len(First(q, r, side)) = CountFor(r, side, q)
      <3> DEFINE points == PointsFor(r, side, q)
      <3>1. IsLog(points)
        BY PointsForIs DEF LookupOK
      <3>2. First(q, r, side) = [i \in DOMAIN points |-> RankFor(OtherSide(side), points[i])]
        BY <2>1, <2>4 DEF Data
      <3>3. DOMAIN points = 1 .. Len(points) /\ Len(points) \in Nat
        BY <3>1 DEF IsLog
      <3> HIDE DEF points
      <3>4. Len(First(q, r, side)) = Len(points)
        BY <3>2, <3>3
      <3> QED
        BY <3>4 DEF points, CountFor
    <2> QED
      BY <2>1, <2>3, <2>4
  <1> QED
    BY <1>1, LookupInvariance, PTL

\* At the end of the look-up donor and receiver of every point have found each
\* other's rank, and nobody else who stores the donor has found anything
\* ("Failed to connect donor cell (%i,%i,%i) of grid %s to receiver point.").
THEOREM DonorsFindReceivers == Spec => []PartnersFound
  <1>1. LookupOK => PartnersFound
    BY DEF LookupOK, RanksOK, PartnersFound, DestinationsAt, SourcesAt, Known, Communicates
  <1> QED
    BY <1>1, LookupInvariance, PTL

\* The points an owner is told of are of its own part of the linear partition:
\* MRanks(iPoint) and NRanks(iPoint) are never written or read outside of it.
PointsOfPartition ==
    \A r, q \in Ranks : \A side \in Sides : Range(Recvs[r][side][q].PointIndices) \subseteq Interval(r)

THEOREM OwnersKeepToTheirPart == Spec => []PointsOfPartition
  <1>1. LookupOK => PointsOfPartition
    <2> SUFFICES ASSUME LookupOK, NEW r \in Ranks, NEW q \in Ranks, NEW side \in Sides
                 PROVE  Range(Recvs[r][side][q].PointIndices) \subseteq Interval(r)
      BY DEF PointsOfPartition
    <2>1. Recvs[r][side][q] = RecvAt(TakenAt(stage[r]), r, side, q)
      BY DEF LookupOK, RecvsOK
    <2>2. Recvs[r][side][q].PointIndices \in {PointsFor(q, side, r), <<>>}
      BY <2>1 DEF RecvAt
    <2>3. Range(<<>>) = {}
      BY DEF Range
    <2>4. Range(PointsFor(q, side, r)) \subseteq Interval(r)
      <3>1. Range(registers[q][side]) \subseteq Points
        BY LayoutsAssumption DEF LookupOK, RegistersOK, Used, Range
      <3> QED
        BY <3>1, PointsForIs, OwnerExists DEF LookupOK
    <2> QED
      BY <2>2, <2>3, <2>4
  <1> QED
    BY <1>1, LookupInvariance, PTL
-----------------------------------------------------------------------------
\* A sequence with any elements is one of its own elements, and the other way round.
LEMMA LogIsSeq ==
    ASSUME NEW s, IsLog(s)
    PROVE  s \in Seq({s[i] : i \in 1 .. Len(s)}) /\ DOMAIN s = 1 .. Len(s) /\ Len(s) \in Nat
  BY DEF IsLog

\* The last element comes, the others stay.
LEMMA AppendedTo ==
    ASSUME NEW s, IsLog(s), NEW e
    PROVE  /\ IsLog(Append(s, e)) /\ Len(Append(s, e)) = Len(s) + 1
           /\ Append(s, e)[Len(s) + 1] = e
           /\ \A i \in 1 .. Len(s) : Append(s, e)[i] = s[i]
  <1> DEFINE E == {s[i] : i \in 1 .. Len(s)} \cup {e}
  <1>1. s \in Seq(E) /\ e \in E /\ Len(s) \in Nat
    BY DEF IsLog
  <1> HIDE DEF E
  <1>2. IsLog(Append(s, e))
    BY <1>1, AppendProperties, SeqIsLog
  <1> QED
    BY <1>1, <1>2, AppendProperties

\* One element goes, the ones behind it move up.
LEMMA RemovedAt ==
    ASSUME NEW s, IsLog(s), NEW m \in 1 .. Len(s)
    PROVE  /\ IsLog(RemoveAt(s, m)) /\ Len(RemoveAt(s, m)) = Len(s) - 1
           /\ \A i \in 1 .. Len(s) - 1 : RemoveAt(s, m)[i] = IF i < m THEN s[i] ELSE s[i + 1]
  <1> DEFINE E == {s[i] : i \in 1 .. Len(s)}
             a == SubSeq(s, 1, m - 1)
             b == SubSeq(s, m + 1, Len(s))
  <1>1. s \in Seq(E) /\ Len(s) \in Nat
    BY DEF IsLog
  <1> HIDE DEF E
  <1>2. a \in Seq(E) /\ Len(a) = m - 1 /\ \A i \in 1 .. m - 1 : a[i] = s[i]
    BY <1>1, SubSeqProperties
  <1>3. b \in Seq(E) /\ Len(b) = Len(s) - m /\ \A i \in 1 .. Len(s) - m : b[i] = s[m + i]
    <2>1. \A i \in m + 1 .. Len(s) : s[i] \in E
      BY <1>1
    <2>2. b \in Seq(E) /\ Len(b) = Len(s) - m
      BY <1>1, <2>1, SubSeqProperties
    <2>3. \A i \in 1 .. Len(s) - (m + 1) + 1 : b[i] = s[(m + 1) + i - 1]
      BY <1>1, <2>1, SubSeqProperties
    <2> HIDE DEF b
    <2> QED
      BY <1>1, <2>2, <2>3
  <1> HIDE DEF a, b
  <1>4. /\ a \o b \in Seq(E) /\ Len(a \o b) = Len(s) - 1
        /\ \A i \in 1 .. Len(s) - 1 : (a \o b)[i] = IF i <= m - 1 THEN a[i] ELSE b[i - (m - 1)]
    <2>1. Len(a) + Len(b) = Len(s) - 1
      BY <1>1, <1>2, <1>3
    <2>2. /\ a \o b \in Seq(E) /\ Len(a \o b) = Len(a) + Len(b)
          /\ \A i \in 1 .. Len(a) + Len(b) : (a \o b)[i] = IF i <= Len(a) THEN a[i] ELSE b[i - Len(a)]
      BY <1>2, <1>3, ConcatProperties
    <2> QED
      BY <1>2, <2>1, <2>2
  <1>5. ASSUME NEW i \in 1 .. Len(s) - 1
        PROVE  (a \o b)[i] = IF i < m THEN s[i] ELSE s[i + 1]
    <2>1. CASE i < m
      BY <1>1, <1>2, <1>4, <2>1
    <2>2. CASE i >= m
      <3>1. (a \o b)[i] = b[i - (m - 1)] /\ i - (m - 1) \in 1 .. Len(s) - m /\ m + (i - (m - 1)) = i + 1
        BY <1>1, <1>4, <2>2
      <3>2. b[i - (m - 1)] = s[m + (i - (m - 1))]
        BY <1>3, <3>1
      <3>3. (a \o b)[i] = s[i + 1]
        BY <3>1, <3>2
      <3>4. ~(i < m)
        BY <1>1, <2>2
      <3> QED
        BY <3>3, <3>4
    <2>3. i < m \/ i >= m
      BY <1>1
    <2> QED
      BY <2>1, <2>2, <2>3
  <1> QED
    BY <1>4, <1>5, SeqIsLog DEF RemoveAt, a, b

\* What is found first has the tag and nothing before it does.
LEMMA FirstTaggedIs ==
    ASSUME NEW s, IsLog(s), NEW tag
    PROVE  LET m == FirstTagged(s, tag)
           IN  /\ m = 0 => \A i \in 1 .. Len(s) : s[i].tag # tag
               /\ m # 0 => /\ m \in 1 .. Len(s) /\ s[m].tag = tag
                           /\ \A i \in 1 .. Len(s) : i < m => s[i].tag # tag
  <1> DEFINE I == {i \in 1 .. Len(s) : s[i].tag = tag}
  <1>1. FirstTagged(s, tag) = IF I # {} THEN Min(I) ELSE 0
    BY DEF FirstTagged, SelectInSeq
  <1>2. I \in SUBSET Nat /\ Len(s) \in Nat
    BY DEF IsLog
  <1>3. I # {} => Min(I) \in I /\ \A k \in I : Min(I) <= k
    BY <1>2, LeastOf
  <1> HIDE DEF I
  <1>4. CASE I = {}
    BY <1>1, <1>4 DEF I
  <1>5. CASE I # {}
    <2> DEFINE m == Min(I)
    <2>1. m \in I /\ \A k \in I : m <= k
      BY <1>3, <1>5
    <2> HIDE DEF m
    <2>2. m \in 1 .. Len(s) /\ s[m].tag = tag /\ m # 0
      BY <1>2, <2>1 DEF I
    <2>3. \A i \in 1 .. Len(s) : i < m => s[i].tag # tag
      BY <1>2, <2>1, <2>2 DEF I
    <2> QED
      BY <1>1, <1>5, <2>2, <2>3 DEF m
  <1> QED
    BY <1>4, <1>5

\* An increasing sequence has the elements of another up to where that one ends.
LEMMA OrderedPrefix ==
    ASSUME NEW s, NEW t, IsLog(s), IsLog(t), InOrder(s), InOrder(t),
           Range(s) \subseteq Int, Range(s) = Range(t)
    PROVE  Len(s) <= Len(t) /\ \A i \in 1 .. Len(s) : s[i] = t[i]
  <1>1. Len(s) \in Nat /\ Len(t) \in Nat /\ DOMAIN s = 1 .. Len(s) /\ DOMAIN t = 1 .. Len(t)
    BY DEF IsLog
  <1>2. /\ \A i \in 1 .. Len(s) : s[i] \in Int /\ \E j \in 1 .. Len(t) : t[j] = s[i]
        /\ \A i \in 1 .. Len(t) : t[i] \in Int /\ \E j \in 1 .. Len(s) : s[j] = t[i]
    BY <1>1 DEF Range
  <1> DEFINE Q == {k \in Nat : \A i \in 1 .. k : i <= Len(s) => i <= Len(t) /\ s[i] = t[i]}
  <1>3. 0 \in Q
    OBVIOUS
  <1>4. ASSUME NEW k \in 1 .. Len(s), k - 1 \in Q
        PROVE  k \in Q
    <2>1. \A i \in 1 .. k - 1 : i <= Len(t) /\ s[i] = t[i]
      BY <1>1, <1>4
    <2> s[k] \in Int
      BY <1>2
    <2>2. PICK j \in 1 .. Len(t) : t[j] = s[k]
      BY <1>2
    <2>3. ~(j < k)
      <3> SUFFICES ASSUME j < k PROVE FALSE
        OBVIOUS
      <3>1. s[j] = t[j] /\ j \in 1 .. Len(s)
        BY <1>1, <2>1
      <3>2. s[j] < s[k]
        BY <3>1 DEF InOrder
      <3> QED
        BY <2>2, <3>1, <3>2
    <2>4. k \in 1 .. Len(t) /\ (k = j \/ t[k] < t[j])
      BY <1>1, <2>3 DEF InOrder
    <2> t[k] \in Int
      BY <1>2, <2>4
    <2>5. PICK h \in 1 .. Len(s) : s[h] = t[k]
      BY <1>2, <2>4
    <2>6. ~(h < k)
      <3> SUFFICES ASSUME h < k PROVE FALSE
        OBVIOUS
      <3>1. s[h] = t[h] /\ h \in 1 .. Len(t)
        BY <1>1, <2>1
      <3>2. t[h] < t[k]
        BY <2>4, <3>1 DEF InOrder
      <3> QED
        BY <2>5, <3>1, <3>2
    <2>7. k = h \/ s[k] < s[h]
      BY <1>1, <2>6 DEF InOrder
    <2>8. s[k] \in Int /\ t[k] \in Int /\ s[h] \in Int /\ t[j] \in Int
      BY <1>2, <2>4
    <2>9. s[k] = t[k] /\ k <= Len(t)
      BY <2>2, <2>4, <2>5, <2>7, <2>8
    <2> HIDE DEF Q
    <2>10. \A i \in 1 .. k : i <= Len(t) /\ s[i] = t[i]
      BY <2>1, <2>9
    <2> QED
      BY <2>10 DEF Q
  <1> HIDE DEF Q
  <1>5. \A k \in 0 .. Len(s) : k \in Q
    BY <1>1, <1>3, <1>4, UpTo
  <1>6. Len(s) \in Q
    BY <1>1, <1>5
  <1> QED
    BY <1>1, <1>6 DEF Q

\* Two increasing sequences with the same elements are the same.
LEMMA OrderedAlike ==
    ASSUME NEW s, NEW t, IsLog(s), IsLog(t), InOrder(s), InOrder(t),
           Range(s) \subseteq Int, Range(s) = Range(t)
    PROVE  s = t
  <1>1. Len(s) <= Len(t) /\ Len(t) <= Len(s) /\ \A i \in 1 .. Len(s) : s[i] = t[i]
    BY OrderedPrefix
  <1> QED
    BY <1>1 DEF IsLog
-----------------------------------------------------------------------------
\* A sorted set of integers.
LEMMA SortedIntsIs ==
    ASSUME NEW K \in SUBSET Int, IsFiniteSet(K)
    PROVE  IsLog(SortedInts(K)) /\ Range(SortedInts(K)) = K /\ InOrder(SortedInts(K))
  <1> DEFINE s == SortedInts(K)
             n == Cardinality(K)
  <1>1. s = Sorted(K, IntOrder(K)) /\ StrictOrder(K, IntOrder(K))
    BY IntsInOrder
  <1> HIDE DEF s, n
  <1>2. /\ n \in Nat /\ s \in [1 .. n -> K]
        /\ \A k \in K : \E i \in 1 .. n : s[i] = k
        /\ \A i, j \in 1 .. n : i < j => <<s[i], s[j]>> \in IntOrder(K)
    BY <1>1, SortedInOrder DEF n
  <1>3. IsLog(s) /\ Len(s) = n
    BY <1>1, SortedIsLog DEF n
  <1>4. Range(s) = K
    BY <1>2 DEF Range
  <1>5. InOrder(s)
    BY <1>2, <1>3 DEF InOrder, IntOrder
  <1> QED
    BY <1>3, <1>4, <1>5 DEF s

\* Points taken from a sorted set are a sorted set.
LEMMA AmongSorted ==
    ASSUME NEW K \in SUBSET Int, IsFiniteSet(K), NEW S
    PROVE  Among(SortedInts(K), S) = SortedInts(K \cap S)
  <1>1. K \cap S \in SUBSET Int /\ IsFiniteSet(K \cap S)
    BY FS_Subset
  <1> DEFINE a == Among(SortedInts(K), S)
             b == SortedInts(K \cap S)
  <1>2. IsLog(SortedInts(K)) /\ Range(SortedInts(K)) = K /\ InOrder(SortedInts(K))
    BY SortedIntsIs
  <1>3. IsLog(a) /\ Range(a) = K \cap S /\ InOrder(a)
    BY <1>2, AmongIs
  <1>4. IsLog(b) /\ Range(b) = K \cap S /\ InOrder(b)
    BY <1>1, SortedIntsIs
  <1> HIDE DEF a, b
  <1>5. a = b
    BY <1>1, <1>3, <1>4, OrderedAlike
  <1> QED
    BY <1>5 DEF a, b
-----------------------------------------------------------------------------
\* The points that one rank has donors of and another the receivers.
Shared(l, q, d) == {p \in DOMAIN l.receiver : l.corner[p] = q /\ l.receiver[p] = d}
Linked(l, q, d) == Shared(l, q, d) # {}
Order(l, q, d) == SortedInts(Shared(l, q, d))

\* What q sends d on exchange x for the nth time.
ValuesOf(l, q, d, x, n) == [i \in DOMAIN Order(l, q, d) |-> Value(x, n, Order(l, q, d)[i])]
Message(l, q, d, x, n) == [x |-> x, tag |-> GlobalTag(x), data |-> ValuesOf(l, q, d, x, n)]
NumberOf(m) == m.data[1][3]

\* The points two ranks share, in order.
LEMMA OrderIs ==
    ASSUME NEW l \in Layouts, NEW q, NEW d
    PROVE  /\ IsLog(Order(l, q, d)) /\ InOrder(Order(l, q, d))
           /\ Range(Order(l, q, d)) = Shared(l, q, d) /\ Shared(l, q, d) \in SUBSET Int
           /\ Linked(l, q, d) => 1 \in DOMAIN Order(l, q, d)
  <1> DEFINE K == Shared(l, q, d)
             s == Order(l, q, d)
  <1>1. K \subseteq Points
    BY LayoutsAssumption DEF Shared
  <1>2. IsFiniteSet(Points) /\ Points \subseteq Int
    BY RankLookupAssumption, FS_Interval DEF Points
  <1>3. IsFiniteSet(K) /\ K \in SUBSET Int
    BY <1>1, <1>2, FS_Subset
  <1> HIDE DEF K
  <1>4. IsLog(s) /\ Range(s) = K /\ InOrder(s)
    BY <1>3, SortedIntsIs DEF Order, K
  <1> HIDE DEF s
  <1>5. ASSUME K # {}
        PROVE  1 \in DOMAIN s
    <2>1. DOMAIN s = 1 .. Len(s) /\ Len(s) \in Nat
      BY <1>4 DEF IsLog
    <2>2. PICK i \in DOMAIN s : TRUE
      BY <1>4, <1>5 DEF Range
    <2> QED
      BY <2>1, <2>2
  <1> QED
    BY <1>3, <1>4, <1>5 DEF K, s, Linked

\* Each of the points is at one place of a message.
LEMMA PlaceInOrder ==
    ASSUME NEW l \in Layouts, NEW q, NEW d, NEW p \in Shared(l, q, d), NEW x, NEW n
    PROVE  LET s == Order(l, q, d)
           IN  ValuesOf(l, q, d, x, n)[CHOOSE i \in DOMAIN s : s[i] = p] = Value(x, n, p)
  <1> DEFINE s == Order(l, q, d)
             c == CHOOSE i \in DOMAIN s : s[i] = p
  <1>1. \E i \in DOMAIN s : s[i] = p
    BY OrderIs DEF Range
  <1>2. c \in DOMAIN s /\ s[c] = p
    BY <1>1
  <1> HIDE DEF c
  <1>3. ValuesOf(l, q, d, x, n)[c] = Value(x, n, s[c])
    BY <1>2 DEF ValuesOf
  <1> QED
    BY <1>2, <1>3 DEF c

\* A message says by its first value which one it is.
LEMMA NumberIs ==
    ASSUME NEW l \in Layouts, NEW q, NEW d, Linked(l, q, d), NEW x, NEW n
    PROVE  NumberOf(Message(l, q, d, x, n)) = n
  <1>1. 1 \in DOMAIN Order(l, q, d)
    BY OrderIs
  <1>2. ValuesOf(l, q, d, x, n)[1] = Value(x, n, Order(l, q, d)[1])
    BY <1>1 DEF ValuesOf
  <1>3. Message(l, q, d, x, n).data = ValuesOf(l, q, d, x, n)
    BY DEF Message
  <1> QED
    BY <1>2, <1>3 DEF NumberOf, Value

\* Exchanges have tags of their own.
LEMMA TagsDiffer ==
    ASSUME NEW l \in Layouts, NEW x \in l.exchanges, NEW y \in l.exchanges, GlobalTag(x) = GlobalTag(y)
    PROVE  x = y
  <1> DEFINE n == x.connectivities
             a == x.tag
             b == y.tag
             i == x.place
             j == y.place
  <1>1. n \in Nat /\ i \in 0 .. n-1 /\ j \in 0 .. n-1 /\ a \in Nat /\ b \in Nat /\ y.connectivities = n
    BY ExchangesAssumption
  <1>2. n * a + i = n * b + j
    BY <1>1 DEF GlobalTag
  <1> HIDE DEF n, a, b, i, j
  <1>3. ASSUME NEW u \in Nat, NEW v \in Nat, u < v
        PROVE  n * v >= n * u + n
    <2>1. v = u + 1 + (v - u - 1) /\ v - u - 1 \in Nat
      BY <1>3
    <2> DEFINE w == v - u - 1
    <2> HIDE DEF w
    <2>2. n * v = n * u + n + n * w /\ n * w >= 0
      BY <1>1, <2>1 DEF w
    <2>3. n * v \in Int /\ n * u \in Int /\ n * w \in Int
      BY <1>1, <2>1 DEF w
    <2> QED
      BY <1>1, <2>2, <2>3
  <1>4. ~(a < b) /\ ~(b < a)
    <2>1. n * a \in Int /\ n * b \in Int
      BY <1>1
    <2> DEFINE f == n * a
               g == n * b
    <2>2. (a < b => g >= f + n) /\ (b < a => f >= g + n)
      BY <1>1, <1>3
    <2> HIDE DEF f, g
    <2>3. f \in Int /\ g \in Int /\ f + i = g + j
      BY <1>2, <2>1 DEF f, g
    <2> QED
      BY <1>1, <2>2, <2>3
  <1>5. a = b /\ i = j
    BY <1>1, <1>2, <1>4
  <1> QED
    BY <1>1, <1>5, ExchangesAssumption DEF n, a, b, i, j
-----------------------------------------------------------------------------
\* When the look-up has ended, both ends have the same ranks and order.
LEMMA EndsAgree ==
    ASSUME LookupOK, AllDone, NEW r \in Ranks
    PROVE  /\ SendRanks(r) = {d \in Ranks : Linked(layout, r, d)}
           /\ RecvRanks(r) = {q \in Ranks : Linked(layout, q, r)}
           /\ \A d \in Ranks : Packed(r, d) = Order(layout, r, d)
           /\ \A q \in Ranks : Expected(r, q) = Order(layout, q, r)
           /\ \A p \in Used : layout.receiver[p] = r => SourceRanks[r][p] = layout.corner[p]
  <1> DEFINE dest == DestinationRanks[r]
             source == SourceRanks[r]
             D == Range(Donors(r))
             R == Range(Receivers(r))
  <1>1. layout \in Layouts /\ stage[r] = "done"
    BY DEF LookupOK, AllDone
  <1>2. /\ D = {p \in Used : r \in {layout.corner[p], layout.other[p]}}
        /\ R = {p \in Used : layout.receiver[p] = r}
    BY <1>1, DonorsAndReceivers
  <1>3. /\ dest = [p \in D |-> IF layout.corner[p] = r THEN layout.receiver[p] ELSE -1]
        /\ source = [p \in R |-> layout.corner[p]]
    BY <1>1 DEF LookupOK, RanksOK, DestinationsAt, SourcesAt, Known, Communicates
  <1>4. \A p \in Used : layout.corner[p] \in Ranks /\ layout.receiver[p] \in Ranks
    BY <1>1, LayoutsAssumption DEF Used
  <1>5. -1 \notin Ranks
    BY DEF Ranks
  <1>6. Used \in SUBSET Int /\ IsFiniteSet(Used)
    <2>1. Used \subseteq Points
      BY <1>1, LayoutsAssumption DEF Used
    <2>2. IsFiniteSet(Points) /\ Points \subseteq Int
      BY RankLookupAssumption, FS_Interval DEF Points
    <2> QED
      BY <2>1, <2>2, FS_Subset
  <1>7. D \in SUBSET Int /\ IsFiniteSet(D) /\ R \in SUBSET Int /\ IsFiniteSet(R)
    BY <1>2, <1>6, FS_Subset
  <1>8. SendOrder(r) = SortedInts(D) /\ RecvOrder(r) = SortedInts(R)
    BY DEF SendOrder, RecvOrder, SendRecvOrder
  <1>9. SendRanks(r) = Range(dest) \ {-1} /\ RecvRanks(r) = Range(source) \ {-1}
    BY DEF SendRanks, RecvRanks
  <1>10. \A d : Packed(r, d) = Among(SendOrder(r), {p \in Range(SendOrder(r)) : dest[p] = d})
    BY DEF Packed
  <1>11. \A q : Expected(r, q) = Among(RecvOrder(r), {p \in Range(RecvOrder(r)) : source[p] = q})
    BY DEF Expected
  <1> HIDE DEF D, R, dest, source
  <1>12. Range(SendOrder(r)) = D /\ Range(RecvOrder(r)) = R
    BY <1>7, <1>8, SortedIntsIs
  <1>13. ASSUME NEW d \in Ranks
         PROVE  Packed(r, d) = Order(layout, r, d)
    <2>1. D \cap {p \in D : dest[p] = d} = Shared(layout, r, d)
      BY <1>2, <1>3, <1>5 DEF Shared, Used
    <2>2. Packed(r, d) = Among(SortedInts(D), {p \in D : dest[p] = d})
      BY <1>8, <1>10, <1>12
    <2>3. Packed(r, d) = SortedInts(D \cap {p \in D : dest[p] = d})
      BY <1>7, <2>2, AmongSorted
    <2> QED
      BY <2>1, <2>3 DEF Order
  <1>14. ASSUME NEW q \in Ranks
         PROVE  Expected(r, q) = Order(layout, q, r)
    <2>1. R \cap {p \in R : source[p] = q} = Shared(layout, q, r)
      BY <1>2, <1>3 DEF Shared, Used
    <2>2. Expected(r, q) = Among(SortedInts(R), {p \in R : source[p] = q})
      BY <1>8, <1>11, <1>12
    <2>3. Expected(r, q) = SortedInts(R \cap {p \in R : source[p] = q})
      BY <1>7, <2>2, AmongSorted
    <2> QED
      BY <2>1, <2>3 DEF Order
  <1>15. SendRanks(r) = {d \in Ranks : Linked(layout, r, d)}
    <2>1. Range(dest) = {IF layout.corner[p] = r THEN layout.receiver[p] ELSE -1 : p \in D}
      BY <1>3 DEF Range
    <2> QED
      BY <1>2, <1>4, <1>5, <1>9, <2>1 DEF Linked, Shared, Used
  <1>16. RecvRanks(r) = {q \in Ranks : Linked(layout, q, r)}
    <2>1. Range(source) = {layout.corner[p] : p \in R}
      BY <1>3 DEF Range
    <2> QED
      BY <1>2, <1>4, <1>5, <1>9, <2>1 DEF Linked, Shared, Used
  <1>17. \A p \in Used : layout.receiver[p] = r => source[p] = layout.corner[p]
    BY <1>2, <1>3
  <1> QED
    BY <1>13, <1>14, <1>15, <1>16, <1>17 DEF source
-----------------------------------------------------------------------------
\* The mail from q to d, when d has called its receive of each exchange x lo[x]
\* times and q its send hi[x] times: what is sent and not received, in order, and
\* what is received and not sent.
InLine(l, q, d, w, lo, hi) ==
    /\ IsLog(w)
    /\ \A i \in 1 .. Len(w) : \E x \in l.exchanges : \E n \in Nat :
          lo[x] < n /\ n <= hi[x] /\ w[i] = Message(l, q, d, x, n)
    /\ \A i, j \in 1 .. Len(w) : i < j /\ w[i].x = w[j].x => NumberOf(w[i]) < NumberOf(w[j])
    /\ \A x \in l.exchanges : \A n \in Nat : lo[x] < n /\ n <= hi[x] =>
          \E i \in 1 .. Len(w) : w[i] = Message(l, q, d, x, n)

InWait(l, s, lo, hi) ==
    /\ IsLog(s)
    /\ \A i \in 1 .. Len(s) : /\ s[i].x \in l.exchanges /\ s[i].tag = GlobalTag(s[i].x)
                              /\ hi[s[i].x] < lo[s[i].x]
    /\ \A i, j \in 1 .. Len(s) : i < j => s[i].x # s[j].x
    /\ \A x \in l.exchanges : hi[x] < lo[x] => \E i \in 1 .. Len(s) : s[i].x = x

\* All are counts, and one of them goes up by one.
Counted(l, count) == \A y \in l.exchanges : count[y] \in Nat
OneMore(l, x, from, to) ==
    \A y \in l.exchanges : from[y] \in Nat /\ to[y] = IF y = x THEN from[y] + 1 ELSE from[y]

\* Only what lies between the counts matters.
LEMMA LineKept ==
    ASSUME NEW l \in Layouts, NEW q, NEW d, NEW w, NEW lo, NEW hi, NEW lo2, NEW hi2,
           InLine(l, q, d, w, lo, hi),
           \A x \in l.exchanges : \A n \in Nat : lo[x] < n /\ n <= hi[x] <=> lo2[x] < n /\ n <= hi2[x]
    PROVE  InLine(l, q, d, w, lo2, hi2)
  BY DEF InLine

LEMMA WaitKept ==
    ASSUME NEW l \in Layouts, NEW s, NEW lo, NEW hi, NEW lo2, NEW hi2, InWait(l, s, lo, hi),
           \A x \in l.exchanges : hi[x] < lo[x] <=> hi2[x] < lo2[x]
    PROVE  InWait(l, s, lo2, hi2)
  BY DEF InWait

\* A message says what exchange it is of, and its tag does too.
LEMMA MessageIs ==
    ASSUME NEW l, NEW q, NEW d, NEW x, NEW n
    PROVE  /\ Message(l, q, d, x, n).x = x /\ Message(l, q, d, x, n).tag = GlobalTag(x)
           /\ Message(l, q, d, x, n).data = ValuesOf(l, q, d, x, n)
  BY DEF Message

\* A send puts the next message of its exchange at the end.
LEMMA LineGrows ==
    ASSUME NEW l \in Layouts, NEW q, NEW d, Linked(l, q, d), NEW w,
           NEW lo, NEW hi, NEW up,
           InLine(l, q, d, w, lo, hi), NEW x \in l.exchanges, Counted(l, lo), OneMore(l, x, hi, up),
           lo[x] <= hi[x]
    PROVE  InLine(l, q, d, Append(w, Message(l, q, d, x, hi[x] + 1)), lo, up)
  <1> DEFINE m == Message(l, q, d, x, hi[x] + 1)
             v == Append(w, m)
             N == Len(w)
  <1>1. IsLog(w) /\ N \in Nat
    BY DEF InLine, IsLog
  <1>2. IsLog(v) /\ Len(v) = N + 1 /\ v[N + 1] = m /\ \A i \in 1 .. N : v[i] = w[i]
    BY <1>1, AppendedTo
  <1>3. up[x] = hi[x] + 1 /\ hi[x] \in Nat /\ lo[x] \in Nat
    BY DEF Counted, OneMore
  <1>4. \A y \in l.exchanges : hi[y] \in Nat /\ up[y] \in Nat /\ hi[y] <= up[y] /\ (y # x => up[y] = hi[y])
    BY DEF Counted, OneMore
  <1>5. m.x = x /\ NumberOf(m) = hi[x] + 1
    BY MessageIs, NumberIs
  <1> HIDE DEF v, m
  <1>6. ASSUME NEW i \in 1 .. Len(v)
        PROVE  \E y \in l.exchanges : \E n \in Nat : lo[y] < n /\ n <= up[y] /\ v[i] = Message(l, q, d, y, n)
    <2>1. CASE i \in 1 .. N
      <3>1. PICK y \in l.exchanges, n \in Nat : lo[y] < n /\ n <= hi[y] /\ w[i] = Message(l, q, d, y, n)
        BY <2>1 DEF InLine
      <3>2. n <= up[y]
        BY <1>4, <3>1
      <3> QED
        BY <1>2, <2>1, <3>1, <3>2
    <2>2. CASE i = N + 1
      <3>1. hi[x] + 1 \in Nat /\ lo[x] < hi[x] + 1 /\ hi[x] + 1 <= up[x]
        BY <1>3
      <3> QED
        BY <1>2, <2>2, <3>1 DEF m
    <2> QED
      BY <1>1, <1>2, <2>1, <2>2
  <1>7. ASSUME NEW i \in 1 .. Len(v), NEW j \in 1 .. Len(v), i < j, v[i].x = v[j].x
        PROVE  NumberOf(v[i]) < NumberOf(v[j])
    <2>1. i \in 1 .. N /\ v[i] = w[i]
      BY <1>1, <1>2, <1>7
    <2>2. CASE j \in 1 .. N
      BY <1>2, <1>7, <2>1, <2>2 DEF InLine
    <2>3. CASE j = N + 1
      <3>1. PICK y \in l.exchanges, n \in Nat : lo[y] < n /\ n <= hi[y] /\ w[i] = Message(l, q, d, y, n)
        BY <2>1 DEF InLine
      <3>2. y = x
        BY <1>2, <1>5, <1>7, <2>1, <2>3, <3>1, MessageIs
      <3>3. NumberOf(w[i]) = n
        BY <3>1, NumberIs
      <3> QED
        BY <1>2, <1>3, <1>5, <2>1, <2>3, <3>1, <3>2, <3>3
    <2> QED
      BY <1>1, <1>2, <2>2, <2>3
  <1>8. ASSUME NEW y \in l.exchanges, NEW n \in Nat, lo[y] < n, n <= up[y]
        PROVE  \E i \in 1 .. Len(v) : v[i] = Message(l, q, d, y, n)
    <2>1. CASE n <= hi[y]
      <3>1. PICK i \in 1 .. N : w[i] = Message(l, q, d, y, n)
        BY <1>8, <2>1 DEF InLine
      <3> QED
        BY <1>1, <1>2, <3>1
    <2>2. CASE ~(n <= hi[y])
      <3>1. y = x /\ n = hi[x] + 1
        BY <1>3, <1>4, <1>8, <2>2
      <3>2. N + 1 \in 1 .. Len(v)
        BY <1>1, <1>2
      <3> QED
        BY <1>2, <3>1, <3>2 DEF m
    <2> QED
      BY <2>1, <2>2
  <1> QED
    BY <1>2, <1>6, <1>7, <1>8 DEF InLine, v, m

\* A receive finds no message, or the next one of its exchange.
LEMMA NoneInLine ==
    ASSUME NEW l \in Layouts, NEW q, NEW d, NEW w, NEW lo, NEW hi, InLine(l, q, d, w, lo, hi),
           NEW x \in l.exchanges, lo[x] \in Nat, hi[x] \in Nat, hi[x] <= lo[x]
    PROVE  FirstTagged(w, GlobalTag(x)) = 0
  <1> DEFINE m == FirstTagged(w, GlobalTag(x))
  <1> SUFFICES ASSUME m # 0 PROVE FALSE
    OBVIOUS
  <1>1. m \in 1 .. Len(w) /\ w[m].tag = GlobalTag(x)
    BY FirstTaggedIs DEF InLine
  <1> HIDE DEF m
  <1>2. PICK y \in l.exchanges, n \in Nat : lo[y] < n /\ n <= hi[y] /\ w[m] = Message(l, q, d, y, n)
    BY <1>1 DEF InLine
  <1>3. y = x
    BY <1>1, <1>2, MessageIs, TagsDiffer
  <1> QED
    BY <1>2, <1>3

\* The first message with the tag of an exchange is its next.
LEMMA FirstInLine ==
    ASSUME NEW l \in Layouts, NEW q, NEW d, Linked(l, q, d), NEW w, NEW lo, NEW hi,
           InLine(l, q, d, w, lo, hi),
           NEW x \in l.exchanges, lo[x] \in Nat, hi[x] \in Nat, lo[x] < hi[x]
    PROVE  LET m == FirstTagged(w, GlobalTag(x))
           IN  /\ m \in 1 .. Len(w) /\ m # 0 /\ w[m] = Message(l, q, d, x, lo[x] + 1)
               /\ \A i \in 1 .. Len(w) : i < m => w[i].x # x
  <1> DEFINE m == FirstTagged(w, GlobalTag(x))
  <1>1. IsLog(w) /\ Len(w) \in Nat
    BY DEF InLine, IsLog
  <1>2. lo[x] + 1 \in Nat /\ lo[x] < lo[x] + 1 /\ lo[x] + 1 <= hi[x]
    OBVIOUS
  <1>3. PICK k \in 1 .. Len(w) : w[k] = Message(l, q, d, x, lo[x] + 1)
    BY <1>2 DEF InLine
  <1>4. w[k].tag = GlobalTag(x)
    BY <1>3, MessageIs
  <1>5. /\ m # 0 /\ m \in 1 .. Len(w) /\ w[m].tag = GlobalTag(x)
        /\ \A i \in 1 .. Len(w) : i < m => w[i].tag # GlobalTag(x)
    BY <1>1, <1>4, FirstTaggedIs
  <1> HIDE DEF m
  <1>6. m <= k
    BY <1>1, <1>4, <1>5
  <1>7. PICK y \in l.exchanges, n \in Nat : lo[y] < n /\ n <= hi[y] /\ w[m] = Message(l, q, d, y, n)
    BY <1>5 DEF InLine
  <1>8. y = x
    BY <1>5, <1>7, MessageIs, TagsDiffer
  <1>9. m = k
    <2> SUFFICES ASSUME m < k PROVE FALSE
      BY <1>1, <1>5, <1>6
    <2>1. w[m].x = x /\ w[k].x = x
      BY <1>3, <1>7, <1>8, MessageIs
    <2>2. NumberOf(w[m]) < NumberOf(w[k])
      BY <1>5, <2>1 DEF InLine
    <2>3. NumberOf(w[m]) = n /\ NumberOf(w[k]) = lo[x] + 1
      BY <1>3, <1>7, NumberIs
    <2> QED
      BY <1>2, <1>7, <1>8, <2>2, <2>3
  <1>10. ASSUME NEW i \in 1 .. Len(w), i < m
         PROVE  w[i].x # x
    <2>1. PICK z \in l.exchanges, h \in Nat : w[i] = Message(l, q, d, z, h)
      BY DEF InLine
    <2>2. w[i].tag = GlobalTag(z) /\ w[i].x = z
      BY <2>1, MessageIs
    <2> QED
      BY <1>5, <1>10, <2>2
  <1> QED
    BY <1>3, <1>5, <1>9, <1>10 DEF m

\* A receive takes the first message of its exchange out.
LEMMA LineShrinks ==
    ASSUME NEW l \in Layouts, NEW q, NEW d, Linked(l, q, d), NEW w,
           NEW lo, NEW hi, NEW up,
           InLine(l, q, d, w, lo, hi), NEW x \in l.exchanges, Counted(l, hi), OneMore(l, x, lo, up),
           lo[x] < hi[x]
    PROVE  InLine(l, q, d, RemoveAt(w, FirstTagged(w, GlobalTag(x))), up, hi)
  <1> DEFINE m == FirstTagged(w, GlobalTag(x))
             v == RemoveAt(w, m)
             N == Len(w)
             old(i) == IF i < m THEN i ELSE i + 1
  <1>1. IsLog(w) /\ N \in Nat
    BY DEF InLine, IsLog
  <1>2. /\ m \in 1 .. N /\ w[m] = Message(l, q, d, x, lo[x] + 1)
        /\ \A i \in 1 .. N : i < m => w[i].x # x
    <2>1. lo[x] \in Nat /\ hi[x] \in Nat
      BY DEF Counted, OneMore
    <2> QED
      BY <2>1, FirstInLine
  <1> HIDE DEF m
  <1>3. /\ IsLog(v) /\ Len(v) = N - 1
        /\ \A i \in 1 .. N - 1 : v[i] = IF i < m THEN w[i] ELSE w[i + 1]
    BY <1>1, <1>2, RemovedAt
  <1>4. /\ \A i \in 1 .. Len(v) : old(i) \in 1 .. N /\ old(i) # m /\ v[i] = w[old(i)]
        /\ \A i, j \in 1 .. Len(v) : i < j => old(i) < old(j)
    BY <1>1, <1>2, <1>3
  <1>5. \A k \in 1 .. N : k # m => \E i \in 1 .. Len(v) : v[i] = w[k]
    <2> TAKE k \in 1 .. N
    <2>1. CASE k < m
      BY <1>1, <1>2, <1>3, <2>1
    <2>2. CASE k > m
      <3>1. k - 1 \in 1 .. N - 1 /\ ~(k - 1 < m) /\ (k - 1) + 1 = k
        BY <1>1, <1>2, <2>2
      <3> QED
        BY <1>3, <3>1
    <2> QED
      BY <1>1, <1>2, <2>1, <2>2
  <1> HIDE DEF v, old
  <1>6. /\ up[x] = lo[x] + 1 /\ lo[x] \in Nat
        /\ \A y \in l.exchanges : lo[y] \in Nat /\ lo[y] <= up[y] /\ up[y] \in Nat /\ (y # x => up[y] = lo[y])
    BY DEF Counted, OneMore
  <1>7. w[m].x = x /\ NumberOf(w[m]) = lo[x] + 1
    BY <1>2, MessageIs, NumberIs
  <1>8. ASSUME NEW i \in 1 .. Len(v)
        PROVE  \E y \in l.exchanges : \E n \in Nat : up[y] < n /\ n <= hi[y] /\ v[i] = Message(l, q, d, y, n)
    <2>1. PICK k \in 1 .. N : k # m /\ v[i] = w[k]
      BY <1>4
    <2>2. PICK y \in l.exchanges, n \in Nat : lo[y] < n /\ n <= hi[y] /\ w[k] = Message(l, q, d, y, n)
      BY DEF InLine
    <2>3. up[y] < n
      <3>1. CASE y # x
        BY <1>6, <2>2, <3>1
      <3>2. CASE y = x
        <4>1. w[k].x = x /\ NumberOf(w[k]) = n
          BY <2>2, <3>2, MessageIs, NumberIs
        <4>2. m < k
          BY <1>1, <1>2, <2>1, <4>1
        <4>3. NumberOf(w[m]) < NumberOf(w[k])
          BY <1>2, <1>7, <4>1, <4>2 DEF InLine
        <4> QED
          BY <1>6, <1>7, <3>2, <4>1, <4>3
      <3> QED
        BY <3>1, <3>2
    <2> QED
      BY <2>1, <2>2, <2>3
  <1>9. ASSUME NEW i \in 1 .. Len(v), NEW j \in 1 .. Len(v), i < j, v[i].x = v[j].x
        PROVE  NumberOf(v[i]) < NumberOf(v[j])
    <2>1. /\ old(i) \in 1 .. N /\ old(j) \in 1 .. N /\ old(i) < old(j)
          /\ v[i] = w[old(i)] /\ v[j] = w[old(j)]
      BY <1>4, <1>9
    <2> QED
      BY <1>9, <2>1 DEF InLine
  <1>10. ASSUME NEW y \in l.exchanges, NEW n \in Nat, up[y] < n, n <= hi[y]
         PROVE  \E i \in 1 .. Len(v) : v[i] = Message(l, q, d, y, n)
    <2>1. lo[y] < n
      BY <1>6, <1>10
    <2>2. PICK k \in 1 .. N : w[k] = Message(l, q, d, y, n)
      BY <1>10, <2>1 DEF InLine
    <2>3. k # m
      <3> SUFFICES ASSUME k = m PROVE FALSE
        OBVIOUS
      <3>1. y = x /\ n = lo[x] + 1
        BY <1>7, <2>2, MessageIs, NumberIs
      <3> QED
        BY <1>6, <1>10, <3>1
    <2> QED
      BY <1>5, <2>2, <2>3
  <1> QED
    BY <1>3, <1>8, <1>9, <1>10 DEF InLine, v, m
-----------------------------------------------------------------------------
\* A receive waits only if it has been called more often than its send.
LEMMA NoneInWait ==
    ASSUME NEW l \in Layouts, NEW s, NEW lo, NEW hi, InWait(l, s, lo, hi),
           NEW x \in l.exchanges, lo[x] \in Nat, hi[x] \in Nat, lo[x] <= hi[x]
    PROVE  FirstTagged(s, GlobalTag(x)) = 0
  <1> DEFINE m == FirstTagged(s, GlobalTag(x))
  <1> SUFFICES ASSUME m # 0 PROVE FALSE
    OBVIOUS
  <1>1. m \in 1 .. Len(s) /\ s[m].tag = GlobalTag(x)
    BY FirstTaggedIs DEF InWait
  <1> HIDE DEF m
  <1>2. s[m].x \in l.exchanges /\ s[m].tag = GlobalTag(s[m].x) /\ hi[s[m].x] < lo[s[m].x]
    BY <1>1 DEF InWait
  <1>3. s[m].x = x
    BY <1>1, <1>2, TagsDiffer
  <1> QED
    BY <1>2, <1>3

\* The first that has the tag of an exchange is the one that waits for it.
LEMMA FirstInWait ==
    ASSUME NEW l \in Layouts, NEW s, NEW lo, NEW hi, InWait(l, s, lo, hi),
           NEW x \in l.exchanges, hi[x] < lo[x]
    PROVE  LET m == FirstTagged(s, GlobalTag(x)) IN m \in 1 .. Len(s) /\ m # 0 /\ s[m].x = x
  <1> DEFINE m == FirstTagged(s, GlobalTag(x))
  <1>1. PICK k \in 1 .. Len(s) : s[k].x = x
    BY DEF InWait
  <1>2. s[k].tag = GlobalTag(x)
    BY <1>1 DEF InWait
  <1>3. m # 0 /\ m \in 1 .. Len(s) /\ s[m].tag = GlobalTag(x)
    BY <1>2, FirstTaggedIs DEF InWait
  <1> HIDE DEF m
  <1>4. s[m].x \in l.exchanges /\ s[m].tag = GlobalTag(s[m].x)
    BY <1>3 DEF InWait
  <1>5. s[m].x = x
    BY <1>3, <1>4, TagsDiffer
  <1> QED
    BY <1>3, <1>5 DEF m

\* A receive called before its send is one more to wait,
LEMMA WaitGrows ==
    ASSUME NEW l \in Layouts, NEW s, NEW lo, NEW hi, NEW up,
           InWait(l, s, lo, hi), NEW x \in l.exchanges, Counted(l, hi), OneMore(l, x, lo, up),
           lo[x] = hi[x]
    PROVE  InWait(l, Append(s, [x |-> x, tag |-> GlobalTag(x)]), up, hi)
  <1> DEFINE e == [x |-> x, tag |-> GlobalTag(x)]
             v == Append(s, e)
             N == Len(s)
  <1>1. IsLog(s) /\ N \in Nat
    BY DEF InWait, IsLog
  <1>2. IsLog(v) /\ Len(v) = N + 1 /\ v[N + 1] = e /\ \A i \in 1 .. N : v[i] = s[i]
    BY <1>1, AppendedTo
  <1>3. /\ up[x] = lo[x] + 1 /\ hi[x] < up[x]
        /\ \A y \in l.exchanges : lo[y] \in Nat /\ hi[y] \in Nat /\ (y # x => up[y] = lo[y])
    BY DEF Counted, OneMore
  <1>4. e.x = x /\ e.tag = GlobalTag(x)
    OBVIOUS
  <1> HIDE DEF e, v
  <1>5. \A i \in 1 .. N : s[i].x \in l.exchanges /\ s[i].tag = GlobalTag(s[i].x) /\ hi[s[i].x] < lo[s[i].x]
    BY DEF InWait
  <1>6. \A i \in 1 .. N : s[i].x # x
    BY <1>3, <1>5
  <1>7. ASSUME NEW i \in 1 .. Len(v)
        PROVE  v[i].x \in l.exchanges /\ v[i].tag = GlobalTag(v[i].x) /\ hi[v[i].x] < up[v[i].x]
    <2>1. CASE i \in 1 .. N
      BY <1>2, <1>3, <1>5, <1>6, <2>1
    <2>2. CASE i = N + 1
      BY <1>2, <1>3, <1>4, <2>2
    <2> QED
      BY <1>1, <1>2, <2>1, <2>2
  <1>8. ASSUME NEW i \in 1 .. Len(v), NEW j \in 1 .. Len(v), i < j
        PROVE  v[i].x # v[j].x
    <2>1. i \in 1 .. N /\ v[i] = s[i]
      BY <1>1, <1>2, <1>8
    <2>2. CASE j \in 1 .. N
      BY <1>2, <1>8, <2>1, <2>2 DEF InWait
    <2>3. CASE j = N + 1
      BY <1>2, <1>4, <1>6, <2>1, <2>3
    <2> QED
      BY <1>1, <1>2, <2>2, <2>3
  <1>9. ASSUME NEW y \in l.exchanges, hi[y] < up[y]
        PROVE  \E i \in 1 .. Len(v) : v[i].x = y
    <2>1. CASE y = x
      <3>1. N + 1 \in 1 .. Len(v)
        BY <1>1, <1>2
      <3> QED
        BY <1>2, <1>4, <2>1, <3>1
    <2>2. CASE y # x
      <3>1. PICK i \in 1 .. N : s[i].x = y
        BY <1>3, <1>9, <2>2 DEF InWait
      <3>2. i \in 1 .. Len(v) /\ v[i] = s[i]
        BY <1>1, <1>2
      <3> QED
        BY <3>1, <3>2
    <2> QED
      BY <2>1, <2>2
  <1> QED
    BY <1>2, <1>7, <1>8, <1>9 DEF InWait, v, e

\* and the send ends that.
LEMMA WaitShrinks ==
    ASSUME NEW l \in Layouts, NEW s, NEW lo, NEW hi, NEW up,
           InWait(l, s, lo, hi), NEW x \in l.exchanges, Counted(l, lo), OneMore(l, x, hi, up),
           lo[x] = hi[x] + 1
    PROVE  InWait(l, RemoveAt(s, FirstTagged(s, GlobalTag(x))), lo, up)
  <1> DEFINE m == FirstTagged(s, GlobalTag(x))
             v == RemoveAt(s, m)
             N == Len(s)
             old(i) == IF i < m THEN i ELSE i + 1
  <1>1. IsLog(s) /\ N \in Nat
    BY DEF InWait, IsLog
  <1>2. m \in 1 .. N /\ s[m].x = x
    <2>1. hi[x] < lo[x]
      BY DEF Counted, OneMore
    <2> QED
      BY <2>1, FirstInWait
  <1> HIDE DEF m
  <1>3. /\ IsLog(v) /\ Len(v) = N - 1
        /\ \A i \in 1 .. N - 1 : v[i] = IF i < m THEN s[i] ELSE s[i + 1]
    BY <1>1, <1>2, RemovedAt
  <1>4. /\ \A i \in 1 .. Len(v) : old(i) \in 1 .. N /\ old(i) # m /\ v[i] = s[old(i)]
        /\ \A i, j \in 1 .. Len(v) : i < j => old(i) < old(j)
    BY <1>1, <1>2, <1>3
  <1>5. \A k \in 1 .. N : k # m => \E i \in 1 .. Len(v) : v[i] = s[k]
    <2> TAKE k \in 1 .. N
    <2>1. CASE k < m
      BY <1>1, <1>2, <1>3, <2>1
    <2>2. CASE k > m
      <3>1. k - 1 \in 1 .. N - 1 /\ ~(k - 1 < m) /\ (k - 1) + 1 = k
        BY <1>1, <1>2, <2>2
      <3> QED
        BY <1>3, <3>1
    <2> QED
      BY <1>1, <1>2, <2>1, <2>2
  <1> HIDE DEF v, old
  <1>6. /\ up[x] = lo[x]
        /\ \A y \in l.exchanges : hi[y] \in Nat /\ lo[y] \in Nat /\ (y # x => up[y] = hi[y])
    BY DEF Counted, OneMore
  <1>7. \A i, j \in 1 .. N : i # j => s[i].x # s[j].x
    BY <1>1 DEF InWait
  <1>8. ASSUME NEW i \in 1 .. Len(v)
        PROVE  v[i].x \in l.exchanges /\ v[i].tag = GlobalTag(v[i].x) /\ up[v[i].x] < lo[v[i].x]
    <2>1. PICK k \in 1 .. N : k # m /\ v[i] = s[k]
      BY <1>4
    <2>2. s[k].x \in l.exchanges /\ s[k].tag = GlobalTag(s[k].x) /\ hi[s[k].x] < lo[s[k].x]
      BY DEF InWait
    <2>3. s[k].x # x
      BY <1>2, <1>7, <2>1
    <2> QED
      BY <1>6, <2>1, <2>2, <2>3
  <1>9. ASSUME NEW i \in 1 .. Len(v), NEW j \in 1 .. Len(v), i < j
        PROVE  v[i].x # v[j].x
    <2>1. /\ old(i) \in 1 .. N /\ old(j) \in 1 .. N /\ old(i) < old(j)
          /\ v[i] = s[old(i)] /\ v[j] = s[old(j)]
      BY <1>4, <1>9
    <2> QED
      BY <2>1 DEF InWait
  <1>10. ASSUME NEW y \in l.exchanges, up[y] < lo[y]
         PROVE  \E i \in 1 .. Len(v) : v[i].x = y
    <2>1. y # x /\ hi[y] < lo[y]
      BY <1>6, <1>10
    <2>2. PICK k \in 1 .. N : s[k].x = y
      BY <2>1 DEF InWait
    <2>3. k # m
      BY <1>2, <2>1, <2>2
    <2>4. PICK i \in 1 .. Len(v) : v[i] = s[k]
      BY <1>5, <2>3
    <2> QED
      BY <2>2, <2>4
  <1> QED
    BY <1>3, <1>8, <1>9, <1>10 DEF InWait, v, m
-----------------------------------------------------------------------------
\* What is in the buffer, if something is, of the last receive called.
InHand(l, q, d, g, lo, hi) ==
    \A x \in l.exchanges :
        g[x] = IF 0 < lo[x] /\ lo[x] <= hi[x] THEN <<ValuesOf(l, q, d, x, lo[x])>> ELSE <<>>

Mail(l, q, d, w, s, g, lo, hi) ==
    IF Linked(l, q, d) THEN InLine(l, q, d, w, lo, hi) /\ InWait(l, s, lo, hi) /\ InHand(l, q, d, g, lo, hi)
    ELSE w = <<>> /\ s = <<>> /\ \A x \in l.exchanges : g[x] = <<>>

\* The buffer of one exchange is filled or emptied, those of others stay.
Filled(l, x, h, g, v) == h[x] = <<v>> /\ \A y \in l.exchanges : y # x => h[y] = g[y]
Emptied(l, x, h, g) == h[x] = <<>> /\ \A y \in l.exchanges : y # x => h[y] = g[y]

\* A send whose receive has not been called leaves its message on the wire.
LEMMA MailQueued ==
    ASSUME NEW l \in Layouts, NEW q, NEW d, Linked(l, q, d), NEW w, NEW s, NEW g, NEW lo, NEW hi, NEW up,
           Mail(l, q, d, w, s, g, lo, hi), NEW x \in l.exchanges, Counted(l, lo), OneMore(l, x, hi, up),
           lo[x] <= hi[x] + 1, FirstTagged(s, GlobalTag(x)) = 0
    PROVE  Mail(l, q, d, Append(w, Message(l, q, d, x, hi[x] + 1)), s, g, lo, up)
  <1>1. InLine(l, q, d, w, lo, hi) /\ InWait(l, s, lo, hi) /\ InHand(l, q, d, g, lo, hi)
    BY DEF Mail
  <1>2. /\ up[x] = hi[x] + 1 /\ hi[x] \in Nat /\ lo[x] \in Nat
        /\ \A y \in l.exchanges : lo[y] \in Nat /\ hi[y] \in Nat /\ (y # x => up[y] = hi[y])
    BY DEF Counted, OneMore
  <1>3. ~(hi[x] < lo[x])
    BY <1>1, FirstInWait
  <1>4. lo[x] <= hi[x]
    BY <1>2, <1>3
  <1>5. InLine(l, q, d, Append(w, Message(l, q, d, x, hi[x] + 1)), lo, up)
    BY <1>1, <1>4, LineGrows
  <1>6. InWait(l, s, lo, up)
    <2>1. \A y \in l.exchanges : hi[y] < lo[y] <=> up[y] < lo[y]
      BY <1>2, <1>4
    <2> QED
      BY <1>1, <2>1, WaitKept
  <1>7. InHand(l, q, d, g, lo, up)
    <2>1. \A y \in l.exchanges : lo[y] <= hi[y] <=> lo[y] <= up[y]
      BY <1>2, <1>4
    <2> QED
      BY <1>1, <2>1 DEF InHand
  <1> QED
    BY <1>5, <1>6, <1>7 DEF Mail

\* A receive that waits for a send is of its exchange, and has nothing yet.
LEMMA MailAwaited ==
    ASSUME NEW l \in Layouts, NEW q, NEW d, Linked(l, q, d), NEW w, NEW s, NEW g, NEW lo, NEW hi, NEW up,
           Mail(l, q, d, w, s, g, lo, hi), NEW x \in l.exchanges, Counted(l, lo), OneMore(l, x, hi, up),
           lo[x] <= hi[x] + 1, FirstTagged(s, GlobalTag(x)) # 0
    PROVE  lo[x] = hi[x] + 1 /\ s[FirstTagged(s, GlobalTag(x))].x = x /\ g[x] = <<>>
  <1>1. InLine(l, q, d, w, lo, hi) /\ InWait(l, s, lo, hi) /\ InHand(l, q, d, g, lo, hi)
    BY DEF Mail
  <1>2. /\ up[x] = hi[x] + 1 /\ hi[x] \in Nat /\ lo[x] \in Nat
        /\ \A y \in l.exchanges : lo[y] \in Nat /\ hi[y] \in Nat /\ (y # x => up[y] = hi[y])
    BY DEF Counted, OneMore
  <1>3. ~(lo[x] <= hi[x])
    BY <1>1, <1>2, NoneInWait
  <1>4. s[FirstTagged(s, GlobalTag(x))].x = x
    <2>1. hi[x] < lo[x]
      BY <1>2, <1>3
    <2> QED
      BY <1>1, <2>1, FirstInWait
  <1>5. g[x] = <<>>
    BY <1>1, <1>3 DEF InHand
  <1> QED
    BY <1>2, <1>3, <1>4, <1>5

\* A send hands its message to the receive that waits for it.
LEMMA MailHandedOver ==
    ASSUME NEW l \in Layouts, NEW q, NEW d, Linked(l, q, d), NEW w, NEW s, NEW g, NEW lo, NEW hi, NEW up,
           Mail(l, q, d, w, s, g, lo, hi), NEW x \in l.exchanges, Counted(l, lo), OneMore(l, x, hi, up),
           lo[x] <= hi[x] + 1, FirstTagged(s, GlobalTag(x)) # 0,
           NEW h, Filled(l, x, h, g, ValuesOf(l, q, d, x, hi[x] + 1))
    PROVE  Mail(l, q, d, w, RemoveAt(s, FirstTagged(s, GlobalTag(x))), h, lo, up)
  <1>1. InLine(l, q, d, w, lo, hi) /\ InWait(l, s, lo, hi) /\ InHand(l, q, d, g, lo, hi)
    BY DEF Mail
  <1>2. /\ up[x] = hi[x] + 1 /\ hi[x] \in Nat /\ lo[x] \in Nat
        /\ \A y \in l.exchanges : lo[y] \in Nat /\ hi[y] \in Nat /\ (y # x => up[y] = hi[y])
    BY DEF Counted, OneMore
  <1>3. lo[x] = hi[x] + 1
    BY MailAwaited
  <1>4. InWait(l, RemoveAt(s, FirstTagged(s, GlobalTag(x))), lo, up)
    BY <1>1, <1>3, WaitShrinks
  <1>5. InLine(l, q, d, w, lo, up)
    <2>1. \A y \in l.exchanges : \A n \in Nat : lo[y] < n /\ n <= hi[y] <=> lo[y] < n /\ n <= up[y]
      BY <1>2, <1>3
    <2> QED
      BY <1>1, <2>1, LineKept
  <1>6. InHand(l, q, d, h, lo, up)
    <2>1. 0 < lo[x] /\ lo[x] <= up[x]
      BY <1>2, <1>3
    <2> QED
      BY <1>1, <1>2, <1>3, <2>1 DEF InHand, Filled
  <1> QED
    BY <1>4, <1>5, <1>6 DEF Mail

\* A receive finds no message if it is called before the send.
LEMMA MailExpected ==
    ASSUME NEW l \in Layouts, NEW q, NEW d, Linked(l, q, d), NEW w, NEW s, NEW g, NEW lo, NEW hi, NEW up,
           Mail(l, q, d, w, s, g, lo, hi), NEW x \in l.exchanges, Counted(l, hi), OneMore(l, x, lo, up),
           lo[x] <= hi[x], NEW h,
           FirstTagged(w, GlobalTag(x)) = 0, Emptied(l, x, h, g)
    PROVE  Mail(l, q, d, w, Append(s, [x |-> x, tag |-> GlobalTag(x)]), h, up, hi)
  <1>1. InLine(l, q, d, w, lo, hi) /\ InWait(l, s, lo, hi) /\ InHand(l, q, d, g, lo, hi)
    BY DEF Mail
  <1>2. /\ up[x] = lo[x] + 1 /\ hi[x] \in Nat /\ lo[x] \in Nat
        /\ \A y \in l.exchanges : lo[y] \in Nat /\ hi[y] \in Nat /\ (y # x => up[y] = lo[y])
    BY DEF Counted, OneMore
  <1>3. ~(lo[x] < hi[x])
    BY <1>1, <1>2, FirstInLine
  <1>4. lo[x] = hi[x]
    BY <1>2, <1>3
  <1>5. InWait(l, Append(s, [x |-> x, tag |-> GlobalTag(x)]), up, hi)
    BY <1>1, <1>4, WaitGrows
  <1>6. InLine(l, q, d, w, up, hi)
    <2>1. \A y \in l.exchanges : \A n \in Nat : lo[y] < n /\ n <= hi[y] <=> up[y] < n /\ n <= hi[y]
      BY <1>2, <1>4
    <2> QED
      BY <1>1, <2>1, LineKept
  <1>7. InHand(l, q, d, h, up, hi)
    <2>1. ~(up[x] <= hi[x])
      BY <1>2, <1>4
    <2> QED
      BY <1>1, <1>2, <2>1 DEF InHand, Emptied
  <1> QED
    BY <1>5, <1>6, <1>7 DEF Mail

\* The message a receive finds is the next of its exchange.
LEMMA MailTaken ==
    ASSUME NEW l \in Layouts, NEW q, NEW d, Linked(l, q, d), NEW w, NEW s, NEW g, NEW lo, NEW hi, NEW up,
           Mail(l, q, d, w, s, g, lo, hi), NEW x \in l.exchanges, Counted(l, hi), OneMore(l, x, lo, up),
           lo[x] <= hi[x], NEW h,
           FirstTagged(w, GlobalTag(x)) # 0, Filled(l, x, h, g, w[FirstTagged(w, GlobalTag(x))].data)
    PROVE  Mail(l, q, d, RemoveAt(w, FirstTagged(w, GlobalTag(x))), s, h, up, hi)
  <1>1. InLine(l, q, d, w, lo, hi) /\ InWait(l, s, lo, hi) /\ InHand(l, q, d, g, lo, hi)
    BY DEF Mail
  <1>2. /\ up[x] = lo[x] + 1 /\ hi[x] \in Nat /\ lo[x] \in Nat
        /\ \A y \in l.exchanges : lo[y] \in Nat /\ hi[y] \in Nat /\ (y # x => up[y] = lo[y])
    BY DEF Counted, OneMore
  <1>3. ~(hi[x] <= lo[x])
    BY <1>1, <1>2, NoneInLine
  <1>4. lo[x] < hi[x]
    BY <1>2, <1>3
  <1>5. w[FirstTagged(w, GlobalTag(x))].data = ValuesOf(l, q, d, x, lo[x] + 1)
    BY <1>1, <1>2, <1>4, FirstInLine, MessageIs
  <1>6. InLine(l, q, d, RemoveAt(w, FirstTagged(w, GlobalTag(x))), up, hi)
    BY <1>1, <1>4, LineShrinks
  <1>7. InWait(l, s, up, hi)
    <2>1. \A y \in l.exchanges : hi[y] < lo[y] <=> hi[y] < up[y]
      BY <1>2, <1>4
    <2> QED
      BY <1>1, <2>1, WaitKept
  <1>8. InHand(l, q, d, h, up, hi)
    <2>1. 0 < up[x] /\ up[x] <= hi[x] /\ up[x] = lo[x] + 1
      BY <1>2, <1>4
    <2> QED
      BY <1>1, <1>2, <1>5, <2>1 DEF InHand, Filled
  <1> QED
    BY <1>6, <1>7, <1>8 DEF Mail
-----------------------------------------------------------------------------
\* How often a rank has called its send, or its receive, of each exchange.
Called(r, request) == \E n \in 1 .. calls[r] : Program(r)[n] = request
TimesCalled(kind, r) ==
    [x \in Exchanges |-> IF Called(r, <<kind, x>>) THEN round[r] + 1 ELSE round[r]]

\* Nobody calls anything before all know each other, or once their rounds are over.
CallsOK ==
    /\ round \in [Ranks -> Nat] /\ calls \in [Ranks -> Nat]
    /\ \A r \in Ranks : /\ round[r] <= MaxRounds /\ calls[r] <= Len(Program(r))
                        /\ round[r] = MaxRounds => calls[r] = 0
    /\ AllDone \/ \A r \in Ranks : calls[r] = 0

\* A request is live only after its call.
LiveOK ==
    /\ DOMAIN live = Ranks
    /\ \A r \in Ranks : \A request \in DOMAIN live[r] : Called(r, request)

\* What d has in its buffers from q.
Got(q, d) == [x \in Exchanges |-> IF q \in DOMAIN buffer[d][x] THEN <<buffer[d][x][q]>> ELSE <<>>]

\* The mail of every two ranks follows from the calls of the two.
MailOK ==
    /\ DOMAIN wire = Ranks /\ DOMAIN posted = Ranks /\ DOMAIN buffer = Ranks
    /\ \A r \in Ranks : DOMAIN wire[r] = Ranks /\ DOMAIN posted[r] = Ranks /\ DOMAIN buffer[r] = Exchanges
    /\ \A r \in Ranks : \A x \in Exchanges : DOMAIN buffer[r][x] \subseteq Ranks
    /\ \A q, d \in Ranks : Mail(layout, q, d, wire[q][d], posted[d][q], Got(q, d),
                                TimesCalled("recv", d), TimesCalled("send", q))

\* Nobody is in a round before those who send to it have sent all of the last.
InStep ==
    \A q, d \in Ranks : Linked(layout, q, d) =>
        \A x \in Exchanges : round[d] <= TimesCalled("send", q)[x]

\* What is no longer waited for has come.
TakenOK ==
    \A q, d \in Ranks : Linked(layout, q, d) =>
        \A x \in Exchanges : Called(d, <<"recv", x>>) =>
            \/ <<"recv", x>> \in DOMAIN live[d] /\ q \in live[d][<<"recv", x>>]
            \/ q \in DOMAIN buffer[d][x]

\* A receive that is complete has put the values of this round in place.
ValuesOK ==
    /\ DOMAIN values = Ranks
    /\ \A r \in Ranks : \A x \in Exchanges : Called(r, <<"recv", x>>) /\ <<"recv", x>> \notin DOMAIN live[r] =>
          \A p \in Used : layout.receiver[p] = r => values[r][x][p] = Value(x, round[r] + 1, p)

\* A field has what its rounds have brought.
Held(x, n, p) ==
    IF x.op = "OVERWRITE" THEN IF n = 0 THEN {} ELSE {Value(x, n, p)}
    ELSE {Value(x, k, p) : k \in 1 .. n}

FieldOK ==
    field = [r \in Ranks |-> [x \in Exchanges |-> [p \in Range(Receivers(r)) |-> Held(x, round[r], p)]]]

\* The inductive invariant of look-up and transfer.
TransferOK ==
    LookupOK /\ CallsOK /\ LiveOK /\ MailOK /\ InStep /\ TakenOK /\ ValuesOK /\ FieldOK
-----------------------------------------------------------------------------
\* A rank has called each of its requests in all earlier rounds.
LEMMA CountsAre ==
    ASSUME CallsOK, NEW r \in Ranks, NEW kind
    PROVE  /\ TimesCalled(kind, r) \in [Exchanges -> Nat]
           /\ \A x \in Exchanges : round[r] <= TimesCalled(kind, r)[x] /\ TimesCalled(kind, r)[x] <= round[r] + 1
  <1>1. round[r] \in Nat
    BY DEF CallsOK
  <1> QED
    BY <1>1 DEF TimesCalled

\* A program has its requests once each, those of a donor or a receiver among them.
LEMMA ProgramIs ==
    ASSUME layout \in Layouts, NEW r \in Ranks
    PROVE  /\ Len(Program(r)) \in Nat /\ DOMAIN Program(r) = 1 .. Len(Program(r))
           /\ \A m, n \in 1 .. Len(Program(r)) : m # n => Program(r)[m] # Program(r)[n]
           /\ \A x \in Exchanges : \A q \in Ranks :
                 /\ Linked(layout, r, q) => \E n \in 1 .. Len(Program(r)) : Program(r)[n] = <<"send", x>>
                 /\ Linked(layout, q, r) => \E n \in 1 .. Len(Program(r)) : Program(r)[n] = <<"recv", x>>
  <1> DEFINE P == layout.program[r]
  <1>1. P \in Seq({"send", "recv"} \X layout.exchanges)
    BY ExchangesAssumption
  <1>2. Len(P) \in Nat /\ DOMAIN P = 1 .. Len(P)
    BY <1>1, LenProperties
  <1>3. \A m, n \in DOMAIN P : m # n => P[m] # P[n]
    BY ExchangesAssumption
  <1>4. \A x \in layout.exchanges : \A p \in DOMAIN layout.receiver :
            /\ layout.corner[p] = r => \E n \in DOMAIN P : P[n] = <<"send", x>>
            /\ layout.receiver[p] = r => \E n \in DOMAIN P : P[n] = <<"recv", x>>
    <2>1. ASSUME NEW x \in layout.exchanges, NEW p \in DOMAIN layout.receiver
          PROVE  /\ \E n \in DOMAIN layout.program[layout.corner[p]] :
                       layout.program[layout.corner[p]][n] = <<"send", x>>
                 /\ \E n \in DOMAIN layout.program[layout.receiver[p]] :
                       layout.program[layout.receiver[p]][n] = <<"recv", x>>
      BY ExchangesAssumption
    <2> QED
      BY <2>1
  <1> QED
    BY <1>2, <1>3, <1>4 DEF Program, Exchanges, Linked, Shared

\* A call adds itself to those made, and was not among them.
LEMMA CallMade ==
    ASSUME layout \in Layouts, CallsOK, NEW r \in Ranks, NEW request, MayCall(r, request),
           calls' = [calls EXCEPT ![r] = @ + 1], UNCHANGED <<layout, round, stage>>
    PROVE  /\ CallsOK' /\ AllDone /\ ~Called(r, request)
           /\ \A q \in Ranks : \A other : Called(q, other)' <=> Called(q, other) \/ (q = r /\ other = request)
  <1>1. /\ AllDone /\ calls[r] < Len(Program(r)) /\ round[r] < MaxRounds
        /\ Program(r)[calls[r] + 1] = request
    BY DEF MayCall
  <1>2. \A q \in Ranks : calls[q] \in Nat /\ round[q] \in Nat /\ calls'[q] = IF q = r THEN calls[q] + 1 ELSE calls[q]
    BY DEF CallsOK
  <1>3. Len(Program(r)) \in Nat /\ \A m, n \in 1 .. Len(Program(r)) : m # n => Program(r)[m] # Program(r)[n]
    BY ProgramIs
  <1>4. ~Called(r, request)
    <2> SUFFICES ASSUME NEW n \in 1 .. calls[r], Program(r)[n] = request PROVE FALSE
      BY DEF Called
    <2>1. n \in 1 .. Len(Program(r)) /\ calls[r] + 1 \in 1 .. Len(Program(r)) /\ n # calls[r] + 1
      BY <1>1, <1>2, <1>3
    <2> QED
      BY <1>1, <1>3, <2>1
  <1>5. \A q : Program(q)' = Program(q)
    BY DEF Program
  <1>6. ASSUME NEW q \in Ranks, NEW other
        PROVE  Called(q, other)' <=> Called(q, other) \/ (q = r /\ other = request)
    <2>1. Called(q, other)' <=> \E n \in 1 .. calls'[q] : Program(q)[n] = other
      BY <1>5 DEF Called
    <2>2. CASE q # r
      BY <1>2, <2>1, <2>2 DEF Called
    <2>3. CASE q = r
      <3>1. 1 .. calls'[q] = 1 .. calls[q] \cup {calls[q] + 1}
        BY <1>2, <2>3
      <3> QED
        BY <1>1, <2>1, <2>3, <3>1 DEF Called
    <2> QED
      BY <2>2, <2>3
  <1>7. CallsOK'
    <2>1. calls' \in [Ranks -> Nat] /\ round' \in [Ranks -> Nat]
      BY <1>2 DEF CallsOK
    <2>2. MaxRounds' = MaxRounds /\ AllDone' = AllDone
      BY DEF MaxRounds, AllDone
    <2>3. ASSUME NEW q \in Ranks
          PROVE  /\ round[q] <= MaxRounds /\ calls'[q] <= Len(Program(q))
                 /\ round[q] = MaxRounds => calls'[q] = 0
      <3>1. CASE q # r
        BY <1>2, <3>1 DEF CallsOK
      <3>2. CASE q = r
        <4>1. calls[q] + 1 <= Len(Program(q)) /\ round[q] # MaxRounds
          BY <1>1, <1>2, <1>3, <3>2, ExchangesAssumption DEF MaxRounds
        <4> QED
          BY <1>2, <3>2, <4>1 DEF CallsOK
      <3> QED
        BY <3>1, <3>2
    <2> QED
      BY <1>1, <1>5, <2>1, <2>2, <2>3 DEF CallsOK
  <1> QED
    BY <1>1, <1>4, <1>6, <1>7

\* A call is counted once.
LEMMA CallCounted ==
    ASSUME layout \in Layouts, CallsOK, NEW r \in Ranks, NEW kind, NEW x \in Exchanges, MayCall(r, <<kind, x>>),
           calls' = [calls EXCEPT ![r] = @ + 1], UNCHANGED <<layout, round, stage>>
    PROVE  /\ TimesCalled(kind, r)[x] = round[r]
           /\ OneMore(layout, x, TimesCalled(kind, r), TimesCalled(kind, r)')
           /\ \A q \in Ranks : \A k : q # r \/ k # kind => TimesCalled(k, q)' = TimesCalled(k, q)
  <1>1. /\ ~Called(r, <<kind, x>>)
        /\ \A q \in Ranks : \A other :
              Called(q, other)' <=> Called(q, other) \/ (q = r /\ other = <<kind, x>>)
    BY CallMade
  <1>2. TimesCalled(kind, r)[x] = round[r]
    BY <1>1 DEF TimesCalled
  <1>3. \A q \in Ranks : \A k :
            TimesCalled(k, q)' = [y \in Exchanges |-> IF Called(q, <<k, y>>)' THEN round[q] + 1 ELSE round[q]]
    BY DEF TimesCalled, Exchanges
  <1>4. ASSUME NEW q \in Ranks, NEW k, q # r \/ k # kind
        PROVE  TimesCalled(k, q)' = TimesCalled(k, q)
    <2>1. \A y \in Exchanges : Called(q, <<k, y>>)' <=> Called(q, <<k, y>>)
      BY <1>1, <1>4
    <2> QED
      BY <1>3, <2>1 DEF TimesCalled
  <1>5. OneMore(layout, x, TimesCalled(kind, r), TimesCalled(kind, r)')
    <2>1. TimesCalled(kind, r) \in [Exchanges -> Nat]
      BY CountsAre
    <2>2. ASSUME NEW y \in Exchanges, y # x
          PROVE  TimesCalled(kind, r)'[y] = TimesCalled(kind, r)[y]
      <3>1. Called(r, <<kind, y>>)' <=> Called(r, <<kind, y>>)
        BY <1>1, <2>2
      <3> QED
        BY <1>3, <3>1 DEF TimesCalled
    <2>3. TimesCalled(kind, r)'[x] = round[r] + 1
      BY <1>1, <1>3
    <2> QED
      BY <1>2, <2>1, <2>2, <2>3 DEF OneMore, Exchanges
  <1> QED
    BY <1>2, <1>4, <1>5

\* The new request is live, with its ranks; the others stay as they are.
LEMMA LiveAfterCall ==
    ASSUME LiveOK, NEW r \in Ranks, NEW request, ~Called(r, request), NEW peers,
           live' = [live EXCEPT ![r] = With(@, request, peers)]
    PROVE  /\ DOMAIN live' = Ranks /\ \A q \in Ranks : q # r => live'[q] = live[q]
           /\ DOMAIN live'[r] = DOMAIN live[r] \cup {request}
           /\ live'[r][request] = peers
           /\ \A other \in DOMAIN live[r] : live'[r][other] = live[r][other]
  <1>1. request \notin DOMAIN live[r] /\ DOMAIN live = Ranks
    BY DEF LiveOK
  <1>2. live'[r] = With(live[r], request, peers) /\ DOMAIN live' = Ranks /\ \A q \in Ranks : q # r => live'[q] = live[q]
    BY <1>1
  <1>3. live'[r] = [o \in DOMAIN live[r] \cup {request} |-> IF o \in DOMAIN live[r] THEN live[r][o] ELSE peers]
    BY <1>2 DEF With
  <1> QED
    BY <1>1, <1>2, <1>3
-----------------------------------------------------------------------------
\* Maps with one more entry.
LEMMA WithDomain ==
    ASSUME NEW f, NEW key, NEW value
    PROVE  DOMAIN With(f, key, value) = DOMAIN f \cup {key}
  BY DEF With

LEMMA WithNew ==
    ASSUME NEW f, NEW key, NEW value, key \notin DOMAIN f
    PROVE  With(f, key, value)[key] = value
  BY DEF With

LEMMA WithOld ==
    ASSUME NEW f, NEW key, NEW value, NEW k \in DOMAIN f
    PROVE  With(f, key, value)[k] = f[k]
  BY DEF With

\* What is got is what is in the buffers, before and after a step.
LEMMA GotIs ==
    ASSUME NEW q, NEW d, NEW y \in Exchanges
    PROVE  Got(q, d)[y] = IF q \in DOMAIN buffer[d][y] THEN <<buffer[d][y][q]>> ELSE <<>>
  BY DEF Got

LEMMA GotBecomes ==
    ASSUME Exchanges' = Exchanges, NEW q, NEW d, NEW y \in Exchanges
    PROVE  Got(q, d)'[y] = IF q \in DOMAIN buffer'[d][y] THEN <<buffer'[d][y][q]>> ELSE <<>>
  BY DEF Got

LEMMA GotKept ==
    ASSUME Exchanges' = Exchanges, NEW q, NEW d, NEW y \in Exchanges,
           q \in DOMAIN buffer'[d][y] <=> q \in DOMAIN buffer[d][y],
           q \in DOMAIN buffer[d][y] => buffer'[d][y][q] = buffer[d][y][q]
    PROVE  Got(q, d)'[y] = Got(q, d)[y]
  <1>1. Got(q, d)'[y] = IF q \in DOMAIN buffer'[d][y] THEN <<buffer'[d][y][q]>> ELSE <<>>
    BY GotBecomes
  <1>2. Got(q, d)[y] = IF q \in DOMAIN buffer[d][y] THEN <<buffer[d][y][q]>> ELSE <<>>
    BY GotIs
  <1> QED
    BY <1>1, <1>2

LEMMA GotStays ==
    ASSUME Exchanges' = Exchanges, NEW q, NEW d, \A y \in Exchanges : Got(q, d)'[y] = Got(q, d)[y]
    PROVE  Got(q, d)' = Got(q, d)
  BY DEF Got

\* A send goes to those it is for, and nowhere else.
LEMMA SendKeepsMail ==
    ASSUME LookupOK, CallsOK, MailOK, InStep, NEW r \in Ranks, NEW x \in Exchanges, Send(r, x)
    PROVE  MailOK'
  <1> DEFINE tag == GlobalTag(x)
             data(d) == ValuesOf(layout, r, d, x, round[r] + 1)
             match(d) == FirstTagged(posted[d][r], tag)
             Peers == {d \in Ranks : Linked(layout, r, d)}
             matched == {d \in Peers : match(d) # 0}
  <1>1. /\ UNCHANGED <<layout, round, stage, lookupVars, waiting, values>>
        /\ MayCall(r, <<"send", x>>) /\ calls' = [calls EXCEPT ![r] = @ + 1] /\ AllDone
        /\ live' = [live EXCEPT ![r] = With(@, <<"send", x>>, SendRanks(r))]
    BY DEF Send, Create, MayCall, lookupVars
  <1>2. SendRanks(r) = Peers /\ \A d \in Ranks : Packed(r, d) = Order(layout, r, d)
    BY <1>1, EndsAgree
  <1>3. \A d \in Ranks : [i \in DOMAIN Packed(r, d) |-> Value(x, round[r] + 1, Packed(r, d)[i])] = data(d)
    BY <1>2 DEF ValuesOf
  <1> HIDE DEF data
  <1>4. /\ wire' = [wire EXCEPT ![r] = [d \in Ranks |->
              IF d \in Peers \ matched THEN Append(@[d], [x |-> x, tag |-> tag, data |-> data(d)]) ELSE @[d]]]
        /\ buffer' = [d \in Ranks |-> IF d \in matched
              THEN [buffer[d] EXCEPT ![posted[d][r][match(d)].x] = With(@, r, data(d))] ELSE buffer[d]]
        /\ posted' = [d \in Ranks |->
              IF d \in matched THEN [posted[d] EXCEPT ![r] = RemoveAt(@, match(d))] ELSE posted[d]]
    BY <1>2, <1>3 DEF Send
  <1> HIDE DEF match, tag, Peers
  <1>5. matched \subseteq Ranks
    BY DEF Peers
  <1> HIDE DEF matched
  <1>6. /\ DOMAIN wire = Ranks /\ DOMAIN posted = Ranks /\ DOMAIN buffer = Ranks
        /\ \A q \in Ranks : DOMAIN wire[q] = Ranks /\ DOMAIN posted[q] = Ranks /\ DOMAIN buffer[q] = Exchanges
        /\ \A q \in Ranks : \A y \in Exchanges : DOMAIN buffer[q][y] \subseteq Ranks
    BY DEF MailOK
  <1>7. /\ DOMAIN wire' = Ranks
        /\ \A q \in Ranks : DOMAIN wire'[q] = Ranks
        /\ \A q, d \in Ranks : wire'[q][d] = IF q = r /\ d \in Peers \ matched
              THEN Append(wire[q][d], [x |-> x, tag |-> tag, data |-> data(d)]) ELSE wire[q][d]
    BY <1>4, <1>6
  <1>8. /\ DOMAIN posted' = Ranks
        /\ \A q \in Ranks : DOMAIN posted'[q] = Ranks
        /\ \A q, d \in Ranks : posted'[d][q] = IF q = r /\ d \in matched
              THEN RemoveAt(posted[d][q], match(d)) ELSE posted[d][q]
    BY <1>4, <1>6
  <1>9. /\ DOMAIN buffer' = Ranks
        /\ \A q \in Ranks : DOMAIN buffer'[q] = Exchanges
        /\ \A d \in Ranks : \A y \in Exchanges : buffer'[d][y] =
              IF d \in matched /\ y = posted[d][r][match(d)].x THEN With(buffer[d][y], r, data(d)) ELSE buffer[d][y]
    BY <1>4, <1>6
  <1>10. \A q \in Ranks : \A y \in Exchanges : DOMAIN buffer'[q][y] \subseteq Ranks
    <2> SUFFICES ASSUME NEW q \in Ranks, NEW y \in Exchanges PROVE DOMAIN buffer'[q][y] \subseteq Ranks
      OBVIOUS
    <2>1. DOMAIN With(buffer[q][y], r, data(q)) = DOMAIN buffer[q][y] \cup {r}
      BY WithDomain
    <2>2. buffer'[q][y] \in {buffer[q][y], With(buffer[q][y], r, data(q))}
      BY <1>9
    <2> QED
      BY <1>6, <2>1, <2>2
  <1>11. Exchanges' = Exchanges
    BY <1>1 DEF Exchanges
  <1>12. ASSUME NEW d \in Ranks, NEW q \in Ranks, q # r
         PROVE  Got(q, d)' = Got(q, d)
    <2>1. ASSUME NEW y \in Exchanges
          PROVE  Got(q, d)'[y] = Got(q, d)[y]
      <3>1. buffer'[d][y] \in {buffer[d][y], With(buffer[d][y], r, data(d))}
        BY <1>9
      <3>2. DOMAIN With(buffer[d][y], r, data(d)) = DOMAIN buffer[d][y] \cup {r}
        BY WithDomain
      <3>3. q \in DOMAIN buffer[d][y] => With(buffer[d][y], r, data(d))[q] = buffer[d][y][q]
        BY WithOld
      <3> QED
        BY <1>11, <1>12, <3>1, <3>2, <3>3, GotKept
    <2> QED
      BY <1>11, <2>1, GotStays
  <1>13. ASSUME NEW d \in Ranks, d \notin matched
         PROVE  Got(r, d)' = Got(r, d)
    <2>1. ASSUME NEW y \in Exchanges
          PROVE  Got(r, d)'[y] = Got(r, d)[y]
      <3>1. buffer'[d][y] = buffer[d][y]
        BY <1>9, <1>13
      <3> QED
        BY <1>11, <3>1, GotKept
    <2> QED
      BY <1>11, <2>1, GotStays
  <1>14. ASSUME NEW d \in matched, posted[d][r][match(d)].x = x, Got(r, d)[x] = <<>>
         PROVE  /\ Got(r, d)'[x] = <<data(d)>>
                /\ \A y \in Exchanges : y # x => Got(r, d)'[y] = Got(r, d)[y]
    <2>1. d \in Ranks /\ \A y \in Exchanges : buffer'[d][y] = IF y = x THEN With(buffer[d][y], r, data(d)) ELSE buffer[d][y]
      BY <1>5, <1>9, <1>14
    <2>2. r \notin DOMAIN buffer[d][x]
      <3>1. Got(r, d)[x] = IF r \in DOMAIN buffer[d][x] THEN <<buffer[d][x][r]>> ELSE <<>>
        BY GotIs
      <3> QED
        BY <1>14, <3>1
    <2>3. r \in DOMAIN buffer'[d][x] /\ buffer'[d][x][r] = data(d)
      <3>1. buffer'[d][x] = With(buffer[d][x], r, data(d))
        BY <2>1
      <3>2. DOMAIN With(buffer[d][x], r, data(d)) = DOMAIN buffer[d][x] \cup {r}
        BY WithDomain
      <3>3. With(buffer[d][x], r, data(d))[r] = data(d)
        BY <2>2, WithNew
      <3> QED
        BY <3>1, <3>2, <3>3
    <2>4. Got(r, d)'[x] = <<data(d)>>
      <3>1. Got(r, d)'[x] = IF r \in DOMAIN buffer'[d][x] THEN <<buffer'[d][x][r]>> ELSE <<>>
        BY <1>11, GotBecomes
      <3> QED
        BY <2>3, <3>1
    <2>5. ASSUME NEW y \in Exchanges, y # x
          PROVE  Got(r, d)'[y] = Got(r, d)[y]
      <3>1. buffer'[d][y] = buffer[d][y]
        BY <2>1, <2>5
      <3> QED
        BY <1>11, <3>1, GotKept
    <2> QED
      BY <2>4, <2>5
  <1>15. \A d : [x |-> x, tag |-> tag, data |-> data(d)] = Message(layout, r, d, x, round[r] + 1)
    BY DEF Message, data, tag
  <1>16. ASSUME NEW d \in Ranks
         PROVE  /\ d \in Peers <=> Linked(layout, r, d)
                /\ d \in matched <=> Linked(layout, r, d) /\ match(d) # 0
                /\ match(d) = FirstTagged(posted[d][r], GlobalTag(x))
    BY DEF Peers, matched, match, tag
  <1>17. ASSUME NEW d \in Ranks
         PROVE  LET m == FirstTagged(posted[d][r], GlobalTag(x)) IN
                 /\ ~Linked(layout, r, d) \/ m = 0 => posted'[d][r] = posted[d][r] /\ Got(r, d)' = Got(r, d)
                 /\ ~Linked(layout, r, d) \/ m # 0 => wire'[r][d] = wire[r][d]
                 /\ Linked(layout, r, d) /\ m = 0 =>
                       wire'[r][d] = Append(wire[r][d], Message(layout, r, d, x, round[r] + 1))
                 /\ Linked(layout, r, d) /\ m # 0 =>
                       /\ posted'[d][r] = RemoveAt(posted[d][r], m)
                       /\ posted[d][r][m].x = x /\ Got(r, d)[x] = <<>> =>
                             /\ Got(r, d)'[x] = <<ValuesOf(layout, r, d, x, round[r] + 1)>>
                             /\ \A y \in Exchanges : y # x => Got(r, d)'[y] = Got(r, d)[y]
    <2>1. data(d) = ValuesOf(layout, r, d, x, round[r] + 1)
      BY DEF data
    <2> DEFINE m == FirstTagged(posted[d][r], GlobalTag(x))
    <2>2. /\ d \in Peers <=> Linked(layout, r, d)
          /\ d \in matched <=> Linked(layout, r, d) /\ m # 0
          /\ match(d) = m
      BY <1>16
    <2>3. [x |-> x, tag |-> tag, data |-> data(d)] = Message(layout, r, d, x, round[r] + 1)
      BY <1>15
    <2>4. ASSUME ~Linked(layout, r, d) \/ m = 0
          PROVE  posted'[d][r] = posted[d][r] /\ Got(r, d)' = Got(r, d)
      BY <1>8, <1>13, <2>2, <2>4
    <2>5. ASSUME ~Linked(layout, r, d) \/ m # 0
          PROVE  wire'[r][d] = wire[r][d]
      BY <1>7, <2>2, <2>5
    <2>6. ASSUME Linked(layout, r, d), m = 0
          PROVE  wire'[r][d] = Append(wire[r][d], Message(layout, r, d, x, round[r] + 1))
      BY <1>7, <2>2, <2>3, <2>6
    <2>7. ASSUME Linked(layout, r, d), m # 0
          PROVE  posted'[d][r] = RemoveAt(posted[d][r], m)
      BY <1>8, <2>2, <2>7
    <2>8. ASSUME Linked(layout, r, d), m # 0, posted[d][r][m].x = x, Got(r, d)[x] = <<>>
          PROVE  /\ Got(r, d)'[x] = <<ValuesOf(layout, r, d, x, round[r] + 1)>>
                 /\ \A y \in Exchanges : y # x => Got(r, d)'[y] = Got(r, d)[y]
      BY <1>14, <2>1, <2>2, <2>8
    <2> HIDE DEF m
    <2> QED
      BY <2>4, <2>5, <2>6, <2>7, <2>8 DEF m
  <1>18. layout \in Layouts
    BY DEF LookupOK
  <1>19. /\ TimesCalled("send", r)[x] = round[r]
         /\ OneMore(layout, x, TimesCalled("send", r), TimesCalled("send", r)')
         /\ \A q \in Ranks : TimesCalled("recv", q)' = TimesCalled("recv", q)
         /\ \A q \in Ranks : q # r => TimesCalled("send", q)' = TimesCalled("send", q)
    <2>1. /\ TimesCalled("send", r)[x] = round[r]
          /\ OneMore(layout, x, TimesCalled("send", r), TimesCalled("send", r)')
          /\ \A q \in Ranks : \A k : q # r \/ k # "send" => TimesCalled(k, q)' = TimesCalled(k, q)
      BY <1>1, <1>18, CallCounted
    <2> QED
      BY <2>1
  <1>20. ASSUME NEW q \in Ranks, NEW d \in Ranks
        PROVE  Mail(layout, q, d, wire'[q][d], posted'[d][q], Got(q, d)', TimesCalled("recv", d)', TimesCalled("send", q)')
    <2> DEFINE lo == TimesCalled("recv", d)
               hi == TimesCalled("send", q)
    <2>1. Mail(layout, q, d, wire[q][d], posted[d][q], Got(q, d), lo, hi)
      BY DEF MailOK
    <2>2. /\ Counted(layout, lo) /\ x \in layout.exchanges
          /\ lo[x] \in Nat /\ hi[x] \in Nat
      <3>1. lo \in [layout.exchanges -> Nat] /\ hi \in [layout.exchanges -> Nat] /\ x \in layout.exchanges
        BY CountsAre DEF Exchanges
      <3> QED
        BY <3>1 DEF Counted
    <2>3. CASE q # r
      BY <1>7, <1>8, <1>12, <1>19, <2>1, <2>3
    <2>4. CASE q = r /\ ~Linked(layout, r, d)
      <3>1. wire'[q][d] = wire[q][d] /\ posted'[d][q] = posted[d][q] /\ Got(q, d)' = Got(q, d)
        BY <1>17, <2>4
      <3> QED
        BY <2>1, <2>4, <3>1 DEF Mail
    <2>5. CASE q = r /\ Linked(layout, r, d)
      <3>1. lo[x] <= hi[x] + 1 /\ hi[x] = round[r]
        <4>1. lo[x] <= round[d] + 1 /\ round[d] <= hi[x] /\ lo[x] \in Nat /\ hi[x] \in Nat /\ round[d] \in Nat
          BY <2>2, <2>5, CountsAre DEF InStep, Exchanges, CallsOK
        <4> QED
          BY <1>19, <2>5, <4>1
      <3>2. lo = TimesCalled("recv", d)' /\ OneMore(layout, x, hi, TimesCalled("send", q)') /\ Linked(layout, q, d)
        BY <1>19, <2>5
      <3> HIDE DEF lo, hi
      <3> DEFINE m == FirstTagged(posted[d][q], GlobalTag(x))
                 up == TimesCalled("send", q)'
      <3> HIDE DEF up
      <3>3. lo = TimesCalled("recv", d)' /\ OneMore(layout, x, hi, up) /\ Linked(layout, q, d)
        BY <3>2 DEF up
      <3>4. CASE m = 0
        <4>1. /\ posted'[d][q] = posted[d][q] /\ Got(q, d)' = Got(q, d)
              /\ wire'[q][d] = Append(wire[q][d], Message(layout, q, d, x, hi[x] + 1))
          BY <1>17, <2>5, <3>1, <3>4
        <4>2. Mail(layout, q, d, Append(wire[q][d], Message(layout, q, d, x, hi[x] + 1)),
                   posted[d][q], Got(q, d), lo, up)
          BY <1>18, <2>1, <2>2, <3>1, <3>3, <3>4, MailQueued
        <4> QED
          BY <3>3, <4>1, <4>2 DEF up
      <3>5. CASE m # 0
        <4>1. posted[d][q][m].x = x /\ Got(q, d)[x] = <<>>
          BY <1>18, <2>1, <2>2, <3>1, <3>3, <3>5, MailAwaited
        <4>2. /\ wire'[q][d] = wire[q][d] /\ posted'[d][q] = RemoveAt(posted[d][q], m)
              /\ Filled(layout, x, Got(q, d)', Got(q, d), ValuesOf(layout, q, d, x, hi[x] + 1))
          BY <1>17, <2>5, <3>1, <3>5, <4>1 DEF Exchanges, Filled
        <4>3. Mail(layout, q, d, wire[q][d], RemoveAt(posted[d][q], m), Got(q, d)', lo, up)
          BY <1>18, <2>1, <2>2, <3>1, <3>3, <3>5, <4>2, MailHandedOver
        <4> QED
          BY <3>3, <4>2, <4>3 DEF up
      <3> QED
        BY <3>4, <3>5
    <2> QED
      BY <2>3, <2>4, <2>5
  <1> QED
    BY <1>1, <1>7, <1>8, <1>9, <1>10, <1>11, <1>20 DEF MailOK
-----------------------------------------------------------------------------
\* A receive is for those that send, and takes from nobody else.
LEMMA ReceiveKeepsMail ==
    ASSUME LookupOK, CallsOK, MailOK, InStep, NEW r \in Ranks, NEW x \in Exchanges, Receive(r, x)
    PROVE  MailOK'
  <1> DEFINE tag == GlobalTag(x)
             match(s) == FirstTagged(wire[s][r], tag)
             Peers == {s \in Ranks : Linked(layout, s, r)}
             matched == {s \in Peers : match(s) # 0}
  <1>1. /\ UNCHANGED <<layout, round, stage>> /\ layout \in Layouts /\ AllDone
        /\ MayCall(r, <<"recv", x>>) /\ calls' = [calls EXCEPT ![r] = @ + 1]
    BY DEF Receive, Create, MayCall, lookupVars, LookupOK
  <1>2. RecvRanks(r) = Peers
    BY <1>1, EndsAgree
  <1>3. /\ posted' = [posted EXCEPT ![r] = [s \in Ranks |->
              IF s \in Peers \ matched THEN Append(@[s], [x |-> x, tag |-> tag]) ELSE @[s]]]
        /\ buffer' = [buffer EXCEPT ![r][x] = [s \in matched |-> wire[s][r][match(s)].data]]
        /\ wire' = [s \in Ranks |->
              IF s \in matched THEN [wire[s] EXCEPT ![r] = RemoveAt(@, match(s))] ELSE wire[s]]
    BY <1>2 DEF Receive
  <1>4. matched \subseteq Ranks
    OBVIOUS
  <1> HIDE DEF match, tag, Peers, matched
  <1>5. /\ DOMAIN wire = Ranks /\ DOMAIN posted = Ranks /\ DOMAIN buffer = Ranks
        /\ \A q \in Ranks : DOMAIN wire[q] = Ranks /\ DOMAIN posted[q] = Ranks /\ DOMAIN buffer[q] = Exchanges
        /\ \A q \in Ranks : \A y \in Exchanges : DOMAIN buffer[q][y] \subseteq Ranks
    BY DEF MailOK
  <1>6. /\ DOMAIN posted' = Ranks
        /\ \A q \in Ranks : DOMAIN posted'[q] = Ranks
        /\ \A q, d \in Ranks : posted'[d][q] = IF d = r /\ q \in Peers \ matched
              THEN Append(posted[d][q], [x |-> x, tag |-> tag]) ELSE posted[d][q]
    BY <1>3, <1>5
  <1>7. /\ DOMAIN wire' = Ranks
        /\ \A q \in Ranks : DOMAIN wire'[q] = Ranks
        /\ \A q, d \in Ranks : wire'[q][d] = IF d = r /\ q \in matched
              THEN RemoveAt(wire[q][d], match(q)) ELSE wire[q][d]
    BY <1>3, <1>5
  <1>8. /\ DOMAIN buffer' = Ranks
        /\ \A q \in Ranks : DOMAIN buffer'[q] = Exchanges
        /\ \A d \in Ranks : \A y \in Exchanges : d # r \/ y # x => buffer'[d][y] = buffer[d][y]
        /\ buffer'[r][x] = [s \in matched |-> wire[s][r][match(s)].data]
    BY <1>3, <1>5
  <1>9. \A q \in Ranks : \A y \in Exchanges : DOMAIN buffer'[q][y] \subseteq Ranks
    BY <1>4, <1>5, <1>8
  <1>10. Exchanges' = Exchanges
    BY <1>1 DEF Exchanges
  <1>11. ASSUME NEW d \in Ranks, NEW q \in Ranks, NEW y \in Exchanges, d # r \/ y # x
         PROVE  Got(q, d)'[y] = Got(q, d)[y]
    <2>1. buffer'[d][y] = buffer[d][y]
      BY <1>8, <1>11
    <2> QED
      BY <1>10, <2>1, GotKept
  <1>12. ASSUME NEW d \in Ranks, NEW q \in Ranks, d # r
         PROVE  Got(q, d)' = Got(q, d)
    <2>1. \A y \in Exchanges : Got(q, d)'[y] = Got(q, d)[y]
      BY <1>11, <1>12
    <2> QED
      BY <1>10, <2>1, GotStays
  <1>13. ASSUME NEW q \in Ranks
         PROVE  Got(q, r)'[x] = IF q \in matched THEN <<wire[q][r][match(q)].data>> ELSE <<>>
    <2>1. Got(q, r)'[x] = IF q \in DOMAIN buffer'[r][x] THEN <<buffer'[r][x][q]>> ELSE <<>>
      BY <1>10, GotBecomes
    <2> QED
      BY <1>8, <2>1
  <1>14. ASSUME NEW q \in Ranks
         PROVE  /\ q \in Peers <=> Linked(layout, q, r)
                /\ q \in matched <=> Linked(layout, q, r) /\ match(q) # 0
                /\ match(q) = FirstTagged(wire[q][r], GlobalTag(x)) /\ tag = GlobalTag(x)
    BY DEF Peers, matched, match, tag
  <1>15. /\ TimesCalled("recv", r)[x] = round[r]
         /\ OneMore(layout, x, TimesCalled("recv", r), TimesCalled("recv", r)')
         /\ \A q \in Ranks : TimesCalled("send", q)' = TimesCalled("send", q)
         /\ \A q \in Ranks : q # r => TimesCalled("recv", q)' = TimesCalled("recv", q)
    <2>1. /\ TimesCalled("recv", r)[x] = round[r]
          /\ OneMore(layout, x, TimesCalled("recv", r), TimesCalled("recv", r)')
          /\ \A q \in Ranks : \A k : q # r \/ k # "recv" => TimesCalled(k, q)' = TimesCalled(k, q)
      BY <1>1, CallCounted
    <2> QED
      BY <2>1
  <1>16. ASSUME NEW q \in Ranks, NEW d \in Ranks
        PROVE  Mail(layout, q, d, wire'[q][d], posted'[d][q], Got(q, d)', TimesCalled("recv", d)', TimesCalled("send", q)')
    <2> DEFINE lo == TimesCalled("recv", d)
               hi == TimesCalled("send", q)
    <2>1. Mail(layout, q, d, wire[q][d], posted[d][q], Got(q, d), lo, hi)
      BY DEF MailOK
    <2>2. /\ Counted(layout, hi) /\ x \in layout.exchanges
          /\ lo[x] \in Nat /\ hi[x] \in Nat
      <3>1. lo \in [layout.exchanges -> Nat] /\ hi \in [layout.exchanges -> Nat] /\ x \in layout.exchanges
        BY CountsAre DEF Exchanges
      <3> QED
        BY <3>1 DEF Counted
    <2>3. CASE d # r
      BY <1>6, <1>7, <1>12, <1>15, <2>1, <2>3
    <2>4. CASE d = r /\ ~Linked(layout, q, r)
      <3>1. wire'[q][d] = wire[q][d] /\ posted'[d][q] = posted[d][q]
        BY <1>6, <1>7, <1>14, <2>4
      <3>2. \A y \in layout.exchanges : Got(q, d)'[y] = <<>>
        <4>1. \A y \in layout.exchanges : Got(q, d)[y] = <<>>
          BY <2>1, <2>4 DEF Mail
        <4>2. Got(q, d)'[x] = <<>>
          BY <1>13, <1>14, <2>4
        <4>3. \A y \in layout.exchanges : y # x => Got(q, d)'[y] = Got(q, d)[y]
          BY <1>11 DEF Exchanges
        <4> QED
          BY <4>1, <4>2, <4>3
      <3> QED
        BY <2>1, <2>4, <3>1, <3>2 DEF Mail
    <2>5. CASE d = r /\ Linked(layout, q, r)
      <3>1. lo[x] <= hi[x]
        <4>1. lo[x] = round[d] /\ round[d] <= hi[x]
          BY <1>15, <2>5 DEF InStep
        <4> QED
          BY <2>2, <4>1
      <3>2. hi = TimesCalled("send", q)' /\ OneMore(layout, x, lo, TimesCalled("recv", d)') /\ Linked(layout, q, d)
        BY <1>15, <2>5
      <3> HIDE DEF lo, hi
      <3> DEFINE m == FirstTagged(wire[q][d], GlobalTag(x))
                 up == TimesCalled("recv", d)'
      <3> HIDE DEF up
      <3>3. hi = TimesCalled("send", q)' /\ OneMore(layout, x, lo, up) /\ Linked(layout, q, d)
        BY <3>2 DEF up
      <3>4. CASE m = 0
        <4>1. wire'[q][d] = wire[q][d] /\ posted'[d][q] = Append(posted[d][q], [x |-> x, tag |-> GlobalTag(x)])
          BY <1>6, <1>7, <1>14, <2>5, <3>4
        <4>2. Emptied(layout, x, Got(q, d)', Got(q, d))
          BY <1>11, <1>13, <1>14, <2>5, <3>4 DEF Emptied, Exchanges
        <4>3. Mail(layout, q, d, wire[q][d], Append(posted[d][q], [x |-> x, tag |-> GlobalTag(x)]),
                   Got(q, d)', up, hi)
          BY <1>1, <2>1, <2>2, <3>1, <3>3, <3>4, <4>2, MailExpected
        <4> QED
          BY <3>3, <4>1, <4>3 DEF up
      <3>5. CASE m # 0
        <4>1. wire'[q][d] = RemoveAt(wire[q][d], m) /\ posted'[d][q] = posted[d][q]
          BY <1>6, <1>7, <1>14, <2>5, <3>5
        <4>2. Filled(layout, x, Got(q, d)', Got(q, d), wire[q][d][m].data)
          BY <1>11, <1>13, <1>14, <2>5, <3>5 DEF Filled, Exchanges
        <4>3. Mail(layout, q, d, RemoveAt(wire[q][d], m), posted[d][q], Got(q, d)', up, hi)
          BY <1>1, <2>1, <2>2, <3>1, <3>3, <3>5, <4>2, MailTaken
        <4> QED
          BY <3>3, <4>1, <4>3 DEF up
      <3> QED
        BY <3>4, <3>5
    <2> QED
      BY <2>3, <2>4, <2>5
  <1> QED
    BY <1>1, <1>6, <1>7, <1>8, <1>9, <1>10, <1>16 DEF MailOK
-----------------------------------------------------------------------------
\* A call changes what is live and how often it was made, whichever it is.
LEMMA CallKeepsStep ==
    ASSUME layout \in Layouts, CallsOK, LiveOK, InStep, NEW r \in Ranks, NEW kind, NEW x \in Exchanges,
           NEW peers, MayCall(r, <<kind, x>>), Create(r, <<kind, x>>, peers), UNCHANGED <<layout, round, stage>>
    PROVE  /\ CallsOK' /\ LiveOK' /\ InStep'
           /\ \A q \in Ranks : \A other : Called(q, other)' <=> Called(q, other) \/ (q = r /\ other = <<kind, x>>)
           /\ \A q \in Ranks : DOMAIN live'[q] = DOMAIN live[q] \cup (IF q = r THEN {<<kind, x>>} ELSE {})
           /\ \A q \in Ranks : \A request \in DOMAIN live[q] : live'[q][request] = live[q][request]
           /\ live'[r][<<kind, x>>] = peers
  <1>1. /\ calls' = [calls EXCEPT ![r] = @ + 1] /\ Exchanges' = Exchanges
        /\ live' = [live EXCEPT ![r] = With(@, <<kind, x>>, peers)]
    BY DEF Create, Exchanges
  <1>2. /\ CallsOK' /\ ~Called(r, <<kind, x>>)
        /\ \A q \in Ranks : \A other : Called(q, other)' <=> Called(q, other) \/ (q = r /\ other = <<kind, x>>)
    BY <1>1, CallMade
  <1>3. /\ DOMAIN live' = Ranks /\ \A q \in Ranks : q # r => live'[q] = live[q]
        /\ DOMAIN live'[r] = DOMAIN live[r] \cup {<<kind, x>>}
        /\ live'[r][<<kind, x>>] = peers
        /\ \A other \in DOMAIN live[r] : live'[r][other] = live[r][other]
    BY <1>1, <1>2, LiveAfterCall
  <1>4. LiveOK'
    BY <1>2, <1>3 DEF LiveOK
  <1>5. InStep'
    <2> SUFFICES ASSUME NEW q \in Ranks, NEW d \in Ranks, Linked(layout, q, d), NEW y \in Exchanges
                 PROVE  round[d] <= TimesCalled("send", q)'[y]
      BY <1>1 DEF InStep
    <2>1. round[d] <= TimesCalled("send", q)[y]
      BY DEF InStep
    <2>2. /\ TimesCalled("send", q)[y] = IF Called(q, <<"send", y>>) THEN round[q] + 1 ELSE round[q]
          /\ TimesCalled("send", q)'[y] = IF Called(q, <<"send", y>>)' THEN round[q] + 1 ELSE round[q]
      BY <1>1 DEF TimesCalled
    <2>3. round[q] \in Nat /\ round[d] \in Nat
      BY DEF CallsOK
    <2>4. Called(q, <<"send", y>>) => Called(q, <<"send", y>>)'
      BY <1>2
    <2> QED
      BY <2>1, <2>2, <2>3, <2>4
  <1> QED
    BY <1>2, <1>3, <1>4, <1>5

\* When nothing of the look-up changes.
LEMMA SameLookup ==
    ASSUME LookupOK, UNCHANGED lookupVars
    PROVE  LookupOK' /\ UNCHANGED <<layout, stage>> /\ Exchanges' = Exchanges /\ Used' = Used
           /\ \A r : Receivers(r)' = Receivers(r)
  <1>1. UNCHANGED <<layout, stage>>
    BY DEF lookupVars
  <1> QED
    BY <1>1, UntouchedKeeps DEF Exchanges, Used, Receivers

\* Each operation keeps the invariant: a send,
LEMMA SendKeeps ==
    ASSUME TransferOK, NEW r \in Ranks, NEW x \in Exchanges, Send(r, x), UNCHANGED field
    PROVE  TransferOK'
  <1> DEFINE request == <<"send", x>>
  <1>1. /\ UNCHANGED <<lookupVars, round, values>> /\ MayCall(r, request)
        /\ Create(r, request, SendRanks(r))
    BY DEF Send
  <1>2. LookupOK' /\ UNCHANGED <<layout, stage>> /\ Exchanges' = Exchanges /\ Used' = Used
        /\ \A q : Receivers(q)' = Receivers(q)
    BY <1>1, SameLookup DEF TransferOK
  <1>3. layout \in Layouts /\ UNCHANGED <<layout, round, stage>>
    BY <1>1, <1>2 DEF TransferOK, LookupOK
  <1>4. /\ CallsOK' /\ LiveOK' /\ InStep'
        /\ \A q \in Ranks : \A other : Called(q, other)' <=> Called(q, other) \/ (q = r /\ other = request)
        /\ \A q \in Ranks : DOMAIN live'[q] = DOMAIN live[q] \cup (IF q = r THEN {request} ELSE {})
        /\ \A q \in Ranks : \A other \in DOMAIN live[q] : live'[q][other] = live[q][other]
    BY <1>1, <1>3, CallKeepsStep DEF TransferOK
  <1>5. MailOK'
    BY SendKeepsMail DEF TransferOK
  <1>6. \A d \in Ranks : \A y \in Exchanges : DOMAIN buffer[d][y] \subseteq DOMAIN buffer'[d][y]
    <2> SUFFICES ASSUME NEW d \in Ranks, NEW y \in Exchanges, NEW q \in DOMAIN buffer[d][y]
                 PROVE  q \in DOMAIN buffer'[d][y]
      OBVIOUS
    <2>1. \E z, v : buffer'[d] \in {buffer[d], [buffer[d] EXCEPT ![z] = With(@, r, v)]}
      BY DEF Send
    <2>2. PICK z, v : buffer'[d] \in {buffer[d], [buffer[d] EXCEPT ![z] = With(@, r, v)]}
      BY <2>1
    <2>3. buffer'[d][y] \in {buffer[d][y], With(buffer[d][y], r, v)}
      BY <2>2 DEF TransferOK, MailOK
    <2>4. DOMAIN With(buffer[d][y], r, v) = DOMAIN buffer[d][y] \cup {r}
      BY WithDomain
    <2> QED
      BY <2>3, <2>4
  <1>7. \A y : \A q \in Ranks : Called(q, <<"recv", y>>)' <=> Called(q, <<"recv", y>>)
    <2>1. \A y : <<"recv", y>> # request
      OBVIOUS
    <2> QED
      BY <1>4, <2>1
  <1> HIDE DEF request
  <1>8. TakenOK'
    <2> SUFFICES ASSUME NEW q \in Ranks, NEW d \in Ranks, Linked(layout, q, d), NEW y \in Exchanges,
                        Called(d, <<"recv", y>>)
                 PROVE  \/ <<"recv", y>> \in DOMAIN live'[d] /\ q \in live'[d][<<"recv", y>>]
                        \/ q \in DOMAIN buffer'[d][y]
      BY <1>2, <1>7 DEF TakenOK
    <2>1. \/ <<"recv", y>> \in DOMAIN live[d] /\ q \in live[d][<<"recv", y>>]
          \/ q \in DOMAIN buffer[d][y]
      BY DEF TransferOK, TakenOK
    <2> QED
      BY <1>4, <1>6, <2>1
  <1>9. ValuesOK'
    <2>1. \A q \in Ranks : \A y \in Exchanges :
              <<"recv", y>> \notin DOMAIN live'[q] => <<"recv", y>> \notin DOMAIN live[q]
      BY <1>4
    <2> QED
      BY <1>1, <1>2, <1>3, <1>7, <2>1 DEF TransferOK, ValuesOK
  <1>10. FieldOK'
    BY <1>2, <1>3 DEF TransferOK, FieldOK
  <1> QED
    BY <1>2, <1>4, <1>5, <1>8, <1>9, <1>10 DEF TransferOK

\* a receive,
LEMMA ReceiveKeeps ==
    ASSUME TransferOK, NEW r \in Ranks, NEW x \in Exchanges, Receive(r, x), UNCHANGED field
    PROVE  TransferOK'
  <1> DEFINE request == <<"recv", x>>
  <1>1. /\ UNCHANGED <<lookupVars, round, values>> /\ MayCall(r, request)
        /\ Create(r, request, RecvRanks(r))
    BY DEF Receive
  <1>2. LookupOK' /\ UNCHANGED <<layout, stage>> /\ Exchanges' = Exchanges /\ Used' = Used
        /\ \A q : Receivers(q)' = Receivers(q)
    BY <1>1, SameLookup DEF TransferOK
  <1>3. layout \in Layouts /\ UNCHANGED <<layout, round, stage>> /\ AllDone
    BY <1>1, <1>2 DEF TransferOK, LookupOK, MayCall
  <1>4. /\ CallsOK' /\ LiveOK' /\ InStep'
        /\ \A q \in Ranks : \A other : Called(q, other)' <=> Called(q, other) \/ (q = r /\ other = request)
        /\ \A q \in Ranks : DOMAIN live'[q] = DOMAIN live[q] \cup (IF q = r THEN {request} ELSE {})
        /\ \A q \in Ranks : \A other \in DOMAIN live[q] : live'[q][other] = live[q][other]
        /\ live'[r][request] = RecvRanks(r)
    BY <1>1, <1>3, CallKeepsStep DEF TransferOK
  <1>5. MailOK'
    BY ReceiveKeepsMail DEF TransferOK
  <1>6. \A d \in Ranks : \A y \in Exchanges : d # r \/ y # x => buffer'[d][y] = buffer[d][y]
    <2>1. \E v : buffer' = [buffer EXCEPT ![r][x] = v]
      BY DEF Receive
    <2>2. PICK v : buffer' = [buffer EXCEPT ![r][x] = v]
      BY <2>1
    <2> QED
      BY <2>2 DEF TransferOK, MailOK
  <1>7. \A y : <<"recv", y>> = request <=> y = x
    OBVIOUS
  <1>8. RecvRanks(r) = {q \in Ranks : Linked(layout, q, r)}
    BY <1>3, EndsAgree DEF TransferOK
  <1> HIDE DEF request
  <1>9. TakenOK'
    <2> SUFFICES ASSUME NEW q \in Ranks, NEW d \in Ranks, Linked(layout, q, d), NEW y \in Exchanges,
                        Called(d, <<"recv", y>>)'
                 PROVE  \/ <<"recv", y>> \in DOMAIN live'[d] /\ q \in live'[d][<<"recv", y>>]
                        \/ q \in DOMAIN buffer'[d][y]
      BY <1>2 DEF TakenOK
    <2>1. CASE d = r /\ y = x
      BY <1>4, <1>7, <1>8, <2>1
    <2>2. CASE d # r \/ y # x
      <3>1. Called(d, <<"recv", y>>)
        BY <1>4, <1>7, <2>2
      <3>2. \/ <<"recv", y>> \in DOMAIN live[d] /\ q \in live[d][<<"recv", y>>]
            \/ q \in DOMAIN buffer[d][y]
        BY <3>1 DEF TransferOK, TakenOK
      <3> QED
        BY <1>4, <1>6, <2>2, <3>2
    <2> QED
      BY <2>1, <2>2
  <1>10. ValuesOK'
    <2>1. \A q \in Ranks : \A y \in Exchanges :
              Called(q, <<"recv", y>>)' /\ <<"recv", y>> \notin DOMAIN live'[q] =>
                 Called(q, <<"recv", y>>) /\ <<"recv", y>> \notin DOMAIN live[q]
      BY <1>4
    <2> QED
      BY <1>1, <1>2, <1>3, <2>1 DEF TransferOK, ValuesOK
  <1>11. FieldOK'
    BY <1>2, <1>3 DEF TransferOK, FieldOK
  <1> QED
    BY <1>2, <1>4, <1>5, <1>9, <1>10, <1>11 DEF TransferOK
-----------------------------------------------------------------------------
\* A receive whose messages are all in puts the values of this round in place.
LEMMA UnpackIs ==
    ASSUME TransferOK, AllDone, NEW r \in Ranks, NEW x \in Exchanges, Called(r, <<"recv", x>>),
           \A q \in Ranks : Linked(layout, q, r) => q \in DOMAIN buffer[r][x],
           NEW p \in Used, layout.receiver[p] = r
    PROVE  Unpack(r, x)[p] = Value(x, round[r] + 1, p)
  <1> DEFINE s == layout.corner[p]
  <1>1. layout \in Layouts
    BY DEF TransferOK, LookupOK
  <1>2. s \in Ranks
    BY <1>1, LayoutsAssumption DEF Used
  <1>3. SourceRanks[r][p] = s /\ Expected(r, s) = Order(layout, s, r)
    BY <1>2, EndsAgree DEF TransferOK
  <1>4. s >= 0
    BY <1>2 DEF Ranks
  <1>5. p \in {q \in Range(Receivers(r)) : SourceRanks[r][q] >= 0}
    BY <1>1, <1>3, <1>4, DonorsAndReceivers
  <1>6. p \in Shared(layout, s, r) /\ Linked(layout, s, r)
    BY DEF Shared, Linked, Used
  <1> HIDE DEF s
  <1>7. buffer[r][x][s] = ValuesOf(layout, s, r, x, round[r] + 1)
    <2>1. s \in DOMAIN buffer[r][x]
      BY <1>2, <1>6
    <2>2. Got(s, r)[x] = <<buffer[r][x][s]>>
      <3>1. Got(s, r)[x] = IF s \in DOMAIN buffer[r][x] THEN <<buffer[r][x][s]>> ELSE <<>>
        BY GotIs
      <3> QED
        BY <2>1, <3>1
    <2>3. TimesCalled("recv", r)[x] = round[r] + 1
      BY DEF TimesCalled
    <2>4. InHand(layout, s, r, Got(s, r), TimesCalled("recv", r), TimesCalled("send", s))
      BY <1>2, <1>6 DEF TransferOK, MailOK, Mail
    <2>5. Got(s, r)[x] \in {<<ValuesOf(layout, s, r, x, round[r] + 1)>>, <<>>}
      BY <2>3, <2>4 DEF InHand, Exchanges
    <2> QED
      BY <2>2, <2>5
  <1>8. Unpack(r, x)[p] = buffer[r][x][s][CHOOSE i \in DOMAIN Expected(r, s) : Expected(r, s)[i] = p]
    BY <1>3, <1>5 DEF Unpack
  <1> QED
    BY <1>1, <1>3, <1>6, <1>7, <1>8, PlaceInOrder

\* Requests are completed when all they wait for has come.
LEMMA CompleteKeeps ==
    ASSUME TransferOK, AllDone, NEW r \in Ranks, NEW requests, NEW left, Complete(r, requests, left),
           requests \subseteq DOMAIN live[r], DOMAIN left = DOMAIN live[r],
           \A request \in requests : left[request] = {},
           \A request \in DOMAIN live[r] : \A q \in live[r][request] :
              q \in left[request] \/ (request[1] = "recv" => q \in DOMAIN buffer[r][request[2]]),
           UNCHANGED <<lookupVars, round, calls, posted, wire, buffer, field>>
    PROVE  TransferOK'
  <1>1. LookupOK' /\ UNCHANGED <<layout, stage>> /\ Exchanges' = Exchanges /\ Used' = Used
        /\ \A q : Receivers(q)' = Receivers(q)
    BY SameLookup DEF TransferOK
  <1>2. /\ \A q, other : Called(q, other)' <=> Called(q, other)
        /\ \A q, kind : TimesCalled(kind, q)' = TimesCalled(kind, q)
        /\ \A q, d : Got(q, d)' = Got(q, d)
    BY <1>1 DEF Called, TimesCalled, Got, Program, Exchanges
  <1>3. CallsOK'
    BY <1>1 DEF TransferOK, CallsOK, MaxRounds, Program, AllDone
  <1>4. MailOK'
    BY <1>1, <1>2 DEF TransferOK, MailOK
  <1>5. InStep'
    BY <1>1, <1>2 DEF TransferOK, InStep
  <1>6. FieldOK'
    BY <1>1 DEF TransferOK, FieldOK
  <1>7. /\ DOMAIN live' = Ranks /\ \A q \in Ranks : q # r => live'[q] = live[q]
        /\ DOMAIN live'[r] = DOMAIN live[r] \ requests
        /\ \A request \in DOMAIN live[r] \ requests : live'[r][request] = left[request]
    BY DEF TransferOK, LiveOK, Complete, Restrict
  <1>8. /\ DOMAIN values' = Ranks /\ \A q \in Ranks : q # r => values'[q] = values[q]
        /\ \A x \in Exchanges : values'[r][x] = IF <<"recv", x>> \in requests THEN Unpack(r, x) ELSE values[r][x]
    BY DEF TransferOK, ValuesOK, Complete
  <1>9. LiveOK'
    BY <1>2, <1>7 DEF TransferOK, LiveOK
  <1>10. ASSUME NEW q \in Ranks, NEW x \in Exchanges, <<"recv", x>> \in DOMAIN live[r], q \in live[r][<<"recv", x>>]
         PROVE  q \in left[<<"recv", x>>] \/ q \in DOMAIN buffer[r][x]
    <2> DEFINE request == <<"recv", x>>
    <2>1. request[1] = "recv" /\ request[2] = x
      OBVIOUS
    <2>2. request \in DOMAIN live[r] /\ q \in live[r][request]
      BY <1>10
    <2> HIDE DEF request
    <2>3. q \in left[request] \/ q \in DOMAIN buffer[r][x]
      BY <2>1, <2>2
    <2> QED
      BY <2>3 DEF request
  <1>11. TakenOK'
    <2> SUFFICES ASSUME NEW q \in Ranks, NEW d \in Ranks, Linked(layout, q, d), NEW x \in Exchanges,
                        Called(d, <<"recv", x>>)
                 PROVE  \/ <<"recv", x>> \in DOMAIN live'[d] /\ q \in live'[d][<<"recv", x>>]
                        \/ q \in DOMAIN buffer[d][x]
      BY <1>1, <1>2 DEF TakenOK
    <2>1. \/ <<"recv", x>> \in DOMAIN live[d] /\ q \in live[d][<<"recv", x>>]
          \/ q \in DOMAIN buffer[d][x]
      BY DEF TransferOK, TakenOK
    <2>2. CASE d # r
      BY <1>7, <2>1, <2>2
    <2>3. CASE d = r
      BY <1>7, <1>10, <2>1, <2>3
    <2> QED
      BY <2>2, <2>3
  <1>12. ValuesOK'
    <2> SUFFICES ASSUME NEW d \in Ranks, NEW x \in Exchanges, Called(d, <<"recv", x>>),
                        <<"recv", x>> \notin DOMAIN live'[d], NEW p \in Used, layout.receiver[p] = d
                 PROVE  values'[d][x][p] = Value(x, round[d] + 1, p)
      BY <1>1, <1>2, <1>8 DEF ValuesOK
    <2>1. CASE <<"recv", x>> \notin DOMAIN live[d]
      <3>1. values'[d][x] = values[d][x]
        BY <1>8, <2>1
      <3> QED
        BY <2>1, <3>1 DEF TransferOK, ValuesOK
    <2>2. CASE <<"recv", x>> \in DOMAIN live[d]
      <3>1. d = r /\ <<"recv", x>> \in requests
        BY <1>7, <2>2
      <3>2. left[<<"recv", x>>] = {}
        BY <3>1
      <3>3. \A q \in Ranks : Linked(layout, q, r) => q \in DOMAIN buffer[r][x]
        <4> SUFFICES ASSUME NEW q \in Ranks, Linked(layout, q, r) PROVE q \in DOMAIN buffer[r][x]
          OBVIOUS
        <4>1. \/ <<"recv", x>> \in DOMAIN live[r] /\ q \in live[r][<<"recv", x>>]
              \/ q \in DOMAIN buffer[r][x]
          BY <3>1 DEF TransferOK, TakenOK
        <4> QED
          BY <1>10, <3>2, <4>1
      <3>4. Unpack(r, x)[p] = Value(x, round[r] + 1, p)
        BY <3>1, <3>3, UnpackIs
      <3> QED
        BY <1>8, <3>1, <3>4
    <2> QED
      BY <2>1, <2>2
  <1> QED
    BY <1>1, <1>3, <1>4, <1>5, <1>6, <1>9, <1>11, <1>12 DEF TransferOK

\* a call of Wait, WaitAll or WaitAny,
LEMMA WaitKeeps ==
    ASSUME TransferOK, NEW r \in Ranks, Wait(r), UNCHANGED field
    PROVE  TransferOK'
  <1>1. PICK requests \in SUBSET DOMAIN live[r] : WaitAll(r, requests) \/ WaitAny(r, requests)
    BY DEF Wait
  <1> DEFINE I == {i \in 1 .. Len(Program(r)) : Program(r)[i] \in Trivial(r, requests)}
             first == IF I # {} THEN Min(I) ELSE 0
             done == IF first = 0 THEN {} ELSE {Program(r)[first]}
  <1>2. AllDone /\ UNCHANGED <<lookupVars, round, calls, posted, wire, buffer>>
    BY <1>1 DEF WaitAll, WaitAny, CalledAll
  <1>3. Complete(r, Trivial(r, requests), live[r]) \/ Complete(r, done, live[r])
    BY <1>1 DEF WaitAll, WaitAny, SelectInSeq
  <1>4. done \subseteq Trivial(r, requests)
    <2>1. I # {} => Min(I) \in I
      <3>1. I \in SUBSET Nat
        OBVIOUS
      <3> QED
        BY <3>1, LeastOf
    <2> QED
      BY <2>1
  <1> HIDE DEF done
  <1>5. PICK all \in SUBSET Trivial(r, requests) : Complete(r, all, live[r])
    BY <1>3, <1>4
  <1>6. all \subseteq DOMAIN live[r] /\ \A request \in all : live[r][request] = {}
    BY <1>5 DEF Trivial
  <1> QED
    BY <1>2, <1>5, <1>6, CompleteKeeps

\* an MPI request that completes,
LEMMA CompletedKeeps ==
    ASSUME TransferOK, NEW r \in Ranks, Completed(r), UNCHANGED field
    PROVE  TransferOK'
  <1>1. \E request \in DOMAIN live[r] : \E q \in live[r][request] :
            LET left == [live[r] EXCEPT ![request] = @ \ {q}]
                done == IF left[request] = {} THEN {request} ELSE {}
            IN  /\ MPIRequestDone(r, request, q)
                /\ Complete(r, done, left)
                /\ UNCHANGED <<lookupVars, round, calls, posted, wire, buffer>>
    BY DEF Completed
  <1> PICK request \in DOMAIN live[r] : \E q \in live[r][request] :
            LET left == [live[r] EXCEPT ![request] = @ \ {q}]
                done == IF left[request] = {} THEN {request} ELSE {}
            IN  /\ MPIRequestDone(r, request, q)
                /\ Complete(r, done, left)
                /\ UNCHANGED <<lookupVars, round, calls, posted, wire, buffer>>
    BY <1>1
  <1> PICK q \in live[r][request] :
            LET left == [live[r] EXCEPT ![request] = @ \ {q}]
                done == IF left[request] = {} THEN {request} ELSE {}
            IN  /\ MPIRequestDone(r, request, q)
                /\ Complete(r, done, left)
                /\ UNCHANGED <<lookupVars, round, calls, posted, wire, buffer>>
    OBVIOUS
  <1> DEFINE left == [live[r] EXCEPT ![request] = @ \ {q}]
             done == IF left[request] = {} THEN {request} ELSE {}
  <1>2. DOMAIN left = DOMAIN live[r] /\ done \subseteq DOMAIN live[r] /\ \A other \in done : left[other] = {}
    OBVIOUS
  <1>3. \A other \in DOMAIN live[r] : \A d \in live[r][other] :
            d \in left[other] \/ (other[1] = "recv" => d \in DOMAIN buffer[r][other[2]])
    <2>1. request[1] = "recv" => q \in DOMAIN buffer[r][request[2]]
      BY DEF MPIRequestDone
    <2> QED
      BY <2>1
  <1>4. AllDone
    <2>1. Called(r, request)
      BY DEF TransferOK, LiveOK
    <2>2. calls[r] # 0
      BY <2>1 DEF Called
    <2> QED
      BY <2>2 DEF TransferOK, CallsOK
  <1>5. Complete(r, done, left) /\ UNCHANGED <<lookupVars, round, calls, posted, wire, buffer>>
    OBVIOUS
  <1> HIDE DEF left, done
  <1> QED
    BY <1>2, <1>3, <1>4, <1>5, CompleteKeeps
-----------------------------------------------------------------------------
\* While ranks look each other up nobody has sent or received anything.
LEMMA LookupKeeps ==
    ASSUME TransferOK, NEW r \in Ranks, Lookup(r), UNCHANGED <<requestVars, field>>, LookupOK'
    PROVE  TransferOK'
  <1>1. layout' = layout /\ ~AllDone
    BY DEF Lookup, Gather, StartCounts, WaitCounts, WaitIndices, WaitRanks, AllDone
  <1>2. UNCHANGED <<layout, round, calls, live, posted, wire, buffer, values, field>>
    BY <1>1 DEF requestVars
  <1>3. Exchanges' = Exchanges /\ Used' = Used /\ MaxRounds' = MaxRounds
        /\ \A q : Receivers(q)' = Receivers(q) /\ Program(q)' = Program(q)
    BY <1>1 DEF Exchanges, Used, MaxRounds, Receivers, Program
  <1>4. /\ \A q, other : Called(q, other)' <=> Called(q, other)
        /\ \A q, kind : TimesCalled(kind, q)' = TimesCalled(kind, q)
        /\ \A q, d : Got(q, d)' = Got(q, d)
    BY <1>2, <1>3 DEF Called, TimesCalled, Got
  <1>5. CallsOK'
    BY <1>1, <1>2, <1>3 DEF TransferOK, CallsOK
  <1>6. LiveOK' /\ TakenOK' /\ InStep'
    BY <1>2, <1>3, <1>4 DEF TransferOK, LiveOK, TakenOK, InStep
  <1>7. MailOK'
    BY <1>2, <1>3, <1>4 DEF TransferOK, MailOK
  <1>8. ValuesOK' /\ FieldOK'
    BY <1>2, <1>3, <1>4 DEF TransferOK, ValuesOK, FieldOK
  <1> QED
    BY <1>5, <1>6, <1>7, <1>8 DEF TransferOK

\* Another round's value replaces what is held or joins it.
LEMMA HeldNext ==
    ASSUME layout \in Layouts, NEW x \in Exchanges, NEW n \in Nat, NEW p
    PROVE  Dispersed(x, Held(x, n, p), Value(x, n + 1, p)) = Held(x, n + 1, p)
  <1>1. x.op \in {"OVERWRITE", "APPEND"}
    BY ExchangesAssumption DEF Exchanges
  <1>2. CASE x.op = "OVERWRITE"
    BY <1>2 DEF Dispersed, Overwrite, Held
  <1>3. CASE x.op = "APPEND"
    <2> DEFINE v(k) == Value(x, k, p)
    <2> HIDE DEF v
    <2>1. {v(k) : k \in 1 .. n} \cup {v(n + 1)} = {v(k) : k \in 1 .. n + 1}
      <3>1. 1 .. n + 1 = (1 .. n) \cup {n + 1}
        OBVIOUS
      <3> QED
        BY <3>1
    <2> QED
      BY <1>3, <2>1 DEF Dispersed, AddTo, Held, v
  <1> QED
    BY <1>1, <1>2, <1>3

\* and a disperse.
LEMMA DisperseKeeps ==
    ASSUME TransferOK, NEW r \in Ranks, Disperse(r)
    PROVE  TransferOK'
  <1>1. /\ UNCHANGED <<lookupVars, live, waiting, posted, wire, buffer, values>>
        /\ AllDone /\ round[r] < MaxRounds /\ calls[r] = Len(Program(r)) /\ live[r] = <<>>
        /\ round' = [round EXCEPT ![r] = @ + 1] /\ calls' = [calls EXCEPT ![r] = 0]
    BY DEF Disperse, CalledAll
  <1>2. LookupOK' /\ UNCHANGED <<layout, stage>> /\ Exchanges' = Exchanges /\ Used' = Used
        /\ \A q : Receivers(q)' = Receivers(q)
    BY <1>1, SameLookup DEF TransferOK
  <1>3. layout \in Layouts /\ MaxRounds \in Nat /\ MaxRounds' = MaxRounds /\ AllDone' = AllDone
        /\ \A q : Program(q)' = Program(q)
    BY <1>2, ExchangesAssumption DEF TransferOK, LookupOK, MaxRounds, AllDone, Program
  <1>4. /\ \A q \in Ranks : round[q] \in Nat /\ calls[q] \in Nat
        /\ \A q \in Ranks : round'[q] = IF q = r THEN round[q] + 1 ELSE round[q]
        /\ \A q \in Ranks : calls'[q] = IF q = r THEN 0 ELSE calls[q]
    BY <1>1 DEF TransferOK, CallsOK
  <1>5. CallsOK'
    <2>1. calls' \in [Ranks -> Nat] /\ round' \in [Ranks -> Nat]
      BY <1>1, <1>4 DEF TransferOK, CallsOK
    <2>2. ASSUME NEW q \in Ranks
          PROVE  /\ round'[q] <= MaxRounds /\ calls'[q] <= Len(Program(q))
                 /\ round'[q] = MaxRounds => calls'[q] = 0
      <3>1. CASE q # r
        BY <1>4, <3>1 DEF TransferOK, CallsOK
      <3>2. CASE q = r
        BY <1>1, <1>3, <1>4, <3>2, ProgramIs
      <3> QED
        BY <3>1, <3>2
    <2> QED
      BY <1>1, <1>3, <2>1, <2>2 DEF CallsOK
  \* Nothing has been called in the new round, everything in the old one.
  <1>6. /\ \A other : ~Called(r, other)'
        /\ \A q \in Ranks : q # r => \A other : Called(q, other)' <=> Called(q, other)
    BY <1>3, <1>4 DEF Called
  <1>7. \A x \in Exchanges : \A q \in Ranks :
            /\ Linked(layout, r, q) => Called(r, <<"send", x>>)
            /\ Linked(layout, q, r) => Called(r, <<"recv", x>>)
    BY <1>1, <1>3, ProgramIs DEF Called
  <1>8. ASSUME NEW kind, \A x \in Exchanges : Called(r, <<kind, x>>)
        PROVE  TimesCalled(kind, r)' = TimesCalled(kind, r)
    <2>1. TimesCalled(kind, r)' = [x \in Exchanges |-> round[r] + 1]
      BY <1>2, <1>4, <1>6 DEF TimesCalled
    <2>2. TimesCalled(kind, r) = [x \in Exchanges |-> round[r] + 1]
      BY <1>8 DEF TimesCalled
    <2> QED
      BY <2>1, <2>2
  <1>9. ASSUME NEW q \in Ranks, q # r, NEW kind
        PROVE  TimesCalled(kind, q)' = TimesCalled(kind, q)
    BY <1>2, <1>4, <1>6, <1>9 DEF TimesCalled
  <1>10. ASSUME NEW q \in Ranks, NEW d \in Ranks, Linked(layout, q, d)
         PROVE  /\ TimesCalled("recv", d)' = TimesCalled("recv", d)
                /\ TimesCalled("send", q)' = TimesCalled("send", q)
    <2>1. TimesCalled("recv", d)' = TimesCalled("recv", d)
      <3>1. CASE d = r
        <4>1. \A x \in Exchanges : Called(r, <<"recv", x>>)
          BY <1>7, <1>10, <3>1
        <4> QED
          BY <1>8, <3>1, <4>1
      <3> QED
        BY <1>9, <3>1
    <2>2. TimesCalled("send", q)' = TimesCalled("send", q)
      <3>1. CASE q = r
        <4>1. \A x \in Exchanges : Called(r, <<"send", x>>)
          BY <1>7, <1>10, <3>1
        <4> QED
          BY <1>8, <3>1, <4>1
      <3> QED
        BY <1>9, <3>1
    <2> QED
      BY <2>1, <2>2
  <1>11. \A q, d : Got(q, d)' = Got(q, d)
    BY <1>1, <1>2 DEF Got
  <1>12. MailOK'
    <2>1. ASSUME NEW q \in Ranks, NEW d \in Ranks
          PROVE  Mail(layout, q, d, wire[q][d], posted[d][q], Got(q, d), TimesCalled("recv", d)', TimesCalled("send", q)')
      <3>1. Mail(layout, q, d, wire[q][d], posted[d][q], Got(q, d), TimesCalled("recv", d), TimesCalled("send", q))
        BY DEF TransferOK, MailOK
      <3>2. CASE Linked(layout, q, d)
        BY <1>10, <3>1, <3>2
      <3>3. CASE ~Linked(layout, q, d)
        BY <3>1, <3>3 DEF Mail
      <3> QED
        BY <3>2, <3>3
    <2> QED
      BY <1>1, <1>2, <1>11, <2>1 DEF TransferOK, MailOK
  <1>13. LiveOK'
    <2>1. DOMAIN live[r] = {}
      BY <1>1
    <2> QED
      BY <1>1, <1>6, <2>1 DEF TransferOK, LiveOK
  <1>14. TakenOK'
    BY <1>1, <1>2, <1>6 DEF TransferOK, TakenOK
  <1>15. ValuesOK'
    BY <1>1, <1>2, <1>4, <1>6 DEF TransferOK, ValuesOK
  <1>16. InStep'
    <2> SUFFICES ASSUME NEW q \in Ranks, NEW d \in Ranks, Linked(layout, q, d), NEW x \in Exchanges
                 PROVE  round'[d] <= TimesCalled("send", q)[x]
      BY <1>2, <1>10 DEF InStep
    <2>1. CASE d # r
      BY <1>4, <2>1 DEF TransferOK, InStep
    <2>2. CASE d = r
      <3>1. Called(r, <<"recv", x>>) /\ <<"recv", x>> \notin DOMAIN live[r]
        <4>1. Called(r, <<"recv", x>>)
          BY <1>7, <2>2
        <4> QED
          BY <1>1, <4>1
      <3>2. q \in DOMAIN buffer[r][x]
        <4>1. \/ <<"recv", x>> \in DOMAIN live[r] /\ q \in live[r][<<"recv", x>>]
              \/ q \in DOMAIN buffer[r][x]
          BY <2>2, <3>1 DEF TransferOK, TakenOK
        <4> QED
          BY <3>1, <4>1
      <3>3. Got(q, r)[x] # <<>>
        <4>1. Got(q, r)[x] = IF q \in DOMAIN buffer[r][x] THEN <<buffer[r][x][q]>> ELSE <<>>
          BY GotIs
        <4> QED
          BY <3>2, <4>1
      <3>4. InHand(layout, q, r, Got(q, r), TimesCalled("recv", r), TimesCalled("send", q))
        BY <2>2 DEF TransferOK, MailOK, Mail
      <3>5. TimesCalled("recv", r)[x] <= TimesCalled("send", q)[x]
        BY <3>3, <3>4 DEF InHand, Exchanges
      <3>6. TimesCalled("recv", r)[x] = round[r] + 1
        BY <3>1 DEF TimesCalled
      <3> QED
        BY <1>4, <2>2, <3>5, <3>6
    <2> QED
      BY <2>1, <2>2
  <1>17. FieldOK'
    <2>1. field' = [field EXCEPT ![r] = [x \in Exchanges |->
              [p \in DOMAIN @[x] |-> Dispersed(x, @[x][p], values[r][x][p])]]]
      BY DEF Disperse
    <2>2. field = [q \in Ranks |-> [x \in Exchanges |-> [p \in Range(Receivers(q)) |-> Held(x, round[q], p)]]]
      BY DEF TransferOK, FieldOK
    <2>3. ASSUME NEW x \in Exchanges, NEW p \in Range(Receivers(r))
          PROVE  Dispersed(x, Held(x, round[r], p), values[r][x][p]) = Held(x, round'[r], p)
      <3>1. p \in Used /\ layout.receiver[p] = r
        BY <1>3, DonorsAndReceivers
      <3>2. Linked(layout, layout.corner[p], r) /\ layout.corner[p] \in Ranks
        BY <1>3, <3>1, LayoutsAssumption DEF Linked, Shared, Used
      <3>3. Called(r, <<"recv", x>>) /\ <<"recv", x>> \notin DOMAIN live[r]
        <4>1. Called(r, <<"recv", x>>)
          BY <1>7, <3>2
        <4> QED
          BY <1>1, <4>1
      <3>4. values[r][x][p] = Value(x, round[r] + 1, p)
        BY <3>1, <3>3 DEF TransferOK, ValuesOK
      <3> QED
        BY <1>3, <1>4, <3>4, HeldNext
    <2>4. field' = [q \in Ranks |-> [x \in Exchanges |-> [p \in Range(Receivers(q)) |-> Held(x, round'[q], p)]]]
      <3> DEFINE new(q) == [x \in Exchanges |-> [p \in Range(Receivers(q)) |-> Held(x, round'[q], p)]]
      <3>1. field'[r] = new(r)
        <4>1. field'[r] = [x \in Exchanges |->
                  [p \in DOMAIN field[r][x] |-> Dispersed(x, field[r][x][p], values[r][x][p])]]
          BY <2>1, <2>2
        <4>2. \A x \in Exchanges : field[r][x] = [p \in Range(Receivers(r)) |-> Held(x, round[r], p)]
          BY <2>2
        <4>3. ASSUME NEW x \in Exchanges
              PROVE  [p \in DOMAIN field[r][x] |-> Dispersed(x, field[r][x][p], values[r][x][p])] =
                     [p \in Range(Receivers(r)) |-> Held(x, round'[r], p)]
          <5>1. DOMAIN field[r][x] = Range(Receivers(r))
                /\ \A p \in Range(Receivers(r)) : field[r][x][p] = Held(x, round[r], p)
            BY <4>2
          <5>2. \A p \in Range(Receivers(r)) :
                    Dispersed(x, field[r][x][p], values[r][x][p]) = Held(x, round'[r], p)
            BY <2>3, <5>1
          <5> QED
            BY <5>1, <5>2
        <4> QED
          BY <4>1, <4>3
      <3>2. \A q \in Ranks : q # r => field'[q] = new(q)
        BY <1>4, <2>1, <2>2
      <3>3. field' = [q \in Ranks |-> field'[q]]
        BY <2>1, <2>2
      <3> HIDE DEF new
      <3>4. \A q \in Ranks : field'[q] = new(q)
        BY <3>1, <3>2
      <3>5. field' = [q \in Ranks |-> new(q)]
        BY <3>3, <3>4
      <3> QED
        BY <3>5 DEF new
    <2> QED
      BY <1>2, <2>4 DEF FieldOK
  <1> QED
    BY <1>2, <1>5, <1>12, <1>13, <1>14, <1>15, <1>16, <1>17 DEF TransferOK
-----------------------------------------------------------------------------
LEMMA InitialTransfer ==
    ASSUME Init
    PROVE  TransferOK
  <1>1. LookupOK /\ layout \in Layouts
    BY InitialLookup DEF Init, LookupOK
  <1>2. /\ round = [r \in Ranks |-> 0] /\ calls = [r \in Ranks |-> 0]
        /\ live = [r \in Ranks |-> <<>>]
        /\ posted = [r \in Ranks |-> [q \in Ranks |-> <<>>]]
        /\ wire = [q \in Ranks |-> [r \in Ranks |-> <<>>]]
        /\ buffer = [r \in Ranks |-> [x \in Exchanges |-> <<>>]]
        /\ values = [r \in Ranks |-> [x \in Exchanges |-> <<>>]]
        /\ field = [r \in Ranks |-> [x \in Exchanges |-> [p \in Range(Receivers(r)) |-> {}]]]
    BY DEF Init, RequestsInit
  <1>3. \A r \in Ranks : \A request : ~Called(r, request)
    BY <1>2 DEF Called
  <1>4. \A r \in Ranks : \A kind : TimesCalled(kind, r) = [x \in Exchanges |-> 0]
    BY <1>2, <1>3 DEF TimesCalled
  <1>5. CallsOK
    <2>1. MaxRounds \in Nat
      BY <1>1, ExchangesAssumption DEF MaxRounds
    <2>2. \A r \in Ranks : Len(Program(r)) \in Nat
      BY <1>1, ProgramIs
    <2> QED
      BY <1>2, <2>1, <2>2 DEF CallsOK
  <1>6. LiveOK
    BY <1>2 DEF LiveOK
  <1>7. MailOK
    <2> SUFFICES ASSUME NEW q \in Ranks, NEW d \in Ranks
                 PROVE  Mail(layout, q, d, wire[q][d], posted[d][q], Got(q, d),
                             TimesCalled("recv", d), TimesCalled("send", q))
      BY <1>2 DEF MailOK
    <2>1. wire[q][d] = <<>> /\ posted[d][q] = <<>>
      BY <1>2
    <2>2. \A x \in Exchanges : Got(q, d)[x] = <<>>
      <3>1. \A x \in Exchanges : buffer[d][x] = <<>>
        BY <1>2
      <3>2. DOMAIN <<>> = {}
        OBVIOUS
      <3> QED
        BY <3>1, <3>2 DEF Got
    <2>3. \A x \in layout.exchanges : TimesCalled("recv", d)[x] = 0 /\ TimesCalled("send", q)[x] = 0
      BY <1>4 DEF Exchanges
    <2>4. IsLog(<<>>) /\ Len(<<>>) = 0
      BY DEF IsLog
    <2> DEFINE lo == TimesCalled("recv", d)
               hi == TimesCalled("send", q)
               g == Got(q, d)
    <2> HIDE DEF lo, hi, g
    <2>5. \A x \in layout.exchanges : lo[x] = 0 /\ hi[x] = 0 /\ g[x] = <<>>
      BY <2>2, <2>3 DEF lo, hi, g, Exchanges
    <2>6. InLine(layout, q, d, <<>>, lo, hi)
      BY <2>4, <2>5 DEF InLine
    <2>7. InWait(layout, <<>>, lo, hi)
      BY <2>4, <2>5 DEF InWait
    <2>8. InHand(layout, q, d, g, lo, hi)
      BY <2>5 DEF InHand
    <2>9. Mail(layout, q, d, <<>>, <<>>, g, lo, hi)
      BY <2>5, <2>6, <2>7, <2>8 DEF Mail
    <2> QED
      BY <2>1, <2>9 DEF lo, hi, g
  <1>8. InStep
    BY <1>2, <1>4 DEF InStep
  <1>9. TakenOK /\ ValuesOK
    BY <1>2, <1>3 DEF TakenOK, ValuesOK
  <1>10. FieldOK
    <2>1. ASSUME NEW x \in Exchanges, NEW p
          PROVE  Held(x, 0, p) = {}
      BY DEF Held
    <2> QED
      BY <1>2, <2>1 DEF FieldOK
  <1> QED
    BY <1>1, <1>5, <1>6, <1>7, <1>8, <1>9, <1>10 DEF TransferOK

LEMMA UntouchedTransfer ==
    ASSUME TransferOK, UNCHANGED vars
    PROVE  TransferOK'
  <1>1. UNCHANGED lookupVars /\ UNCHANGED <<layout, round, calls, live, posted, wire, buffer, values, field>>
    BY DEF vars, requestVars, lookupVars
  <1>2. LookupOK' /\ Exchanges' = Exchanges /\ Used' = Used /\ UNCHANGED <<layout, stage>>
        /\ \A q : Receivers(q)' = Receivers(q)
    BY <1>1, SameLookup DEF TransferOK
  <1>3. MaxRounds' = MaxRounds /\ AllDone' = AllDone /\ \A q : Program(q)' = Program(q)
    BY <1>2 DEF MaxRounds, Program, AllDone
  <1>4. /\ \A q, other : Called(q, other)' <=> Called(q, other)
        /\ \A q, kind : TimesCalled(kind, q)' = TimesCalled(kind, q)
        /\ \A q, d : Got(q, d)' = Got(q, d)
    BY <1>1, <1>2, <1>3 DEF Called, TimesCalled, Got
  <1>5. CallsOK'
    BY <1>1, <1>3 DEF TransferOK, CallsOK
  <1>6. LiveOK' /\ TakenOK' /\ InStep'
    BY <1>1, <1>2, <1>4 DEF TransferOK, LiveOK, TakenOK, InStep
  <1>7. MailOK'
    BY <1>1, <1>2, <1>4 DEF TransferOK, MailOK
  <1>8. ValuesOK' /\ FieldOK'
    BY <1>1, <1>2, <1>4 DEF TransferOK, ValuesOK, FieldOK
  <1> QED
    BY <1>2, <1>5, <1>6, <1>7, <1>8 DEF TransferOK

\* Whatever is on its way between two ranks follows from how often one has called
\* its sends and the other its receives, and what a rank has taken and put into its
\* grid from the rounds it has been through: the invariant of the sends, the receives
\* and the waits (send_impl::Send, recv_impl::Recv, WaitAll, WaitAny).
THEOREM TransferInvariance == Spec => []TransferOK
  <1>1. Init => TransferOK
    BY InitialTransfer
  <1>2. TransferOK /\ [Next]_vars => TransferOK'
    <2> SUFFICES ASSUME TransferOK, [Next]_vars
                 PROVE  TransferOK'
      OBVIOUS
    <2>1. ASSUME NEW r \in Ranks, Lookup(r), UNCHANGED <<requestVars, field>>
          PROVE  TransferOK'
      <3>1. LookupOK'
        BY <2>1, GatherKeeps, StartCountsKeeps, WaitCountsKeeps, WaitIndicesKeeps, WaitRanksKeeps
           DEF Lookup, TransferOK
      <3> QED
        BY <2>1, <3>1, LookupKeeps
    <2>2. ASSUME NEW r \in Ranks, NEW x \in Exchanges, Send(r, x) \/ Receive(r, x), UNCHANGED field
          PROVE  TransferOK'
      BY <2>2, SendKeeps, ReceiveKeeps
    <2>3. ASSUME NEW r \in Ranks, Wait(r) \/ Completed(r), UNCHANGED field
          PROVE  TransferOK'
      BY <2>3, WaitKeeps, CompletedKeeps
    <2>4. ASSUME NEW r \in Ranks, Disperse(r)
          PROVE  TransferOK'
      BY <2>4, DisperseKeeps
    <2>5. CASE Finished \/ UNCHANGED vars
      BY <2>5, UntouchedTransfer DEF Finished
    <2> QED
      BY <2>1, <2>2, <2>3, <2>4, <2>5 DEF Next
  <1> QED
    BY <1>1, <1>2, PTL DEF Spec

\* Every receiver has the value of its own donor, of this round or one of each
\* round, for any number of ranks, points, exchanges and rounds and any order of the
\* calls: what exchanger::Disperse puts into the receiver grid.
THEOREM ValuesReachTheirReceivers == Spec => []ValuesArrive
  <1>1. TransferOK => ValuesArrive
    <2> SUFFICES ASSUME TransferOK, NEW r \in Ranks, NEW x \in Exchanges, round[r] > 0,
                        NEW p \in Range(Receivers(r))
                 PROVE  field[r][x][p] = IF x.op = "OVERWRITE" THEN {Value(x, round[r], p)}
                                         ELSE {Value(x, n, p) : n \in 1 .. round[r]}
      BY DEF ValuesArrive
    <2>1. field[r][x][p] = Held(x, round[r], p)
      BY DEF TransferOK, FieldOK
    <2>2. round[r] # 0
      OBVIOUS
    <2> QED
      BY <2>1, <2>2 DEF Held
  <1> QED
    BY <1>1, TransferInvariance, PTL

\* A receive gets what was sent on its own connectivity, with its tag and in its
\* round, and nothing is left when all have finished ("Only sends/receives with the
\* same grid pair specification may potentially match.").
THEOREM MessagesMeetTheirReceives == Spec => []MessagesMatch
  <1>1. TransferOK => OnlySamePairMatches
    <2> SUFFICES ASSUME TransferOK, NEW r \in Ranks, NEW x \in Exchanges, NEW s \in DOMAIN buffer[r][x],
                        NEW i \in DOMAIN buffer[r][x][s]
                 PROVE  LET v == buffer[r][x][s][i]
                        IN  v[1] = x.place /\ v[2] = x.tag
                            /\ v[3] = IF \E n \in 1 .. calls[r] : Program(r)[n] = <<"recv", x>>
                                      THEN round[r] + 1 ELSE round[r]
      BY DEF OnlySamePairMatches
    <2> DEFINE n == TimesCalled("recv", r)[x]
    <2>1. s \in Ranks
      BY DEF TransferOK, MailOK
    <2>2. Got(s, r)[x] = <<buffer[r][x][s]>>
      BY GotIs
    <2>3. <<buffer[r][x][s]>> # <<>>
      OBVIOUS
    <2>4. Mail(layout, s, r, wire[s][r], posted[r][s], Got(s, r), TimesCalled("recv", r), TimesCalled("send", s))
      BY <2>1 DEF TransferOK, MailOK
    <2>5. InHand(layout, s, r, Got(s, r), TimesCalled("recv", r), TimesCalled("send", s))
      BY <2>2, <2>3, <2>4 DEF Mail, Exchanges
    <2>6. <<buffer[r][x][s]>> = <<ValuesOf(layout, s, r, x, n)>>
      BY <2>2, <2>3, <2>5 DEF InHand, Exchanges
    <2>7. buffer[r][x][s] = ValuesOf(layout, s, r, x, n)
      BY <2>6
    <2>8. buffer[r][x][s][i] = Value(x, n, Order(layout, s, r)[i])
      BY <2>7 DEF ValuesOf
    <2>9. n = IF \E k \in 1 .. calls[r] : Program(r)[k] = <<"recv", x>> THEN round[r] + 1 ELSE round[r]
      BY DEF TimesCalled, Called
    <2> HIDE DEF n
    <2> QED
      BY <2>8, <2>9 DEF Value
  <1>2. TransferOK => NothingLeftOver
    <2> SUFFICES ASSUME TransferOK, \A r \in Ranks : round[r] = MaxRounds, NEW q \in Ranks, NEW d \in Ranks
                 PROVE  wire[q][d] = <<>> /\ posted[d][q] = <<>>
      BY DEF NothingLeftOver
    <2> DEFINE lo == TimesCalled("recv", d)
               hi == TimesCalled("send", q)
               g == Got(q, d)
    <2>1. Mail(layout, q, d, wire[q][d], posted[d][q], g, lo, hi)
      BY DEF TransferOK, MailOK
    <2>2. ASSUME NEW r \in Ranks, NEW request
          PROVE  ~Called(r, request)
      <3>1. calls[r] = 0
        BY DEF TransferOK, CallsOK
      <3> QED
        BY <3>1 DEF Called
    <2>3. \A x \in layout.exchanges : lo[x] = MaxRounds /\ hi[x] = MaxRounds
      BY <2>2 DEF TimesCalled, Exchanges
    <2>4. MaxRounds \in Nat
      BY ExchangesAssumption DEF TransferOK, LookupOK, MaxRounds
    <2> HIDE DEF lo, hi, g
    <2>5. CASE ~Linked(layout, q, d)
      BY <2>1, <2>5 DEF Mail
    <2>6. CASE Linked(layout, q, d)
      <3>1. InLine(layout, q, d, wire[q][d], lo, hi) /\ InWait(layout, posted[d][q], lo, hi)
        BY <2>1, <2>6 DEF Mail
      <3>2. \A n \in Nat : ~(MaxRounds < n /\ n <= MaxRounds)
        BY <2>4
      <3>3. IsLog(wire[q][d]) /\ ~\E i \in 1 .. Len(wire[q][d]) : TRUE
        BY <2>3, <3>1, <3>2 DEF InLine
      <3>4. IsLog(posted[d][q]) /\ ~\E i \in 1 .. Len(posted[d][q]) : TRUE
        BY <2>3, <2>4, <3>1 DEF InWait
      <3>5. ASSUME NEW s, IsLog(s), ~\E i \in 1 .. Len(s) : TRUE
            PROVE  s = <<>>
        <4>1. Len(s) = 0
          BY <3>5 DEF IsLog
        <4> QED
          BY <3>5, <4>1 DEF IsLog
      <3> QED
        BY <3>3, <3>4, <3>5
    <2> QED
      BY <2>5, <2>6
  <1> QED
    BY <1>1, <1>2, TransferInvariance, PTL DEF MessagesMatch
=============================================================================
