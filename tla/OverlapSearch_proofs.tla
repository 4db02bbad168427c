------------------------- MODULE OverlapSearch_proofs -------------------------
(***************************************************************************)
(* The loop in which ranks fetch the fragments that their points may lie   *)
(* in, for any number of ranks, fragments, slots and messages of a         *)
(* fragment: the buffers of a slot hold what was asked for with it, and    *)
(* each fragment is searched once.  Messages and receives have no tags     *)
(* that tell fragments apart: that they meet rests on both ranks having    *)
(* the fragments in the same order, on one rank sending in the order of    *)
(* signals, and on the other posting receives in that order.  So messages  *)
(* have places: the parts of the first fragment a rank gets from another,  *)
(* then those of the second, and so on; and so have receives.              *)
(*                                                                         *)
(* Of the three, the code sees to the first and the last.  The second is   *)
(* up to the MPI library, which may list the signals it has seen in any    *)
(* order: what is between ranks is stated for as long as it has listed     *)
(* them in the order in which they were sent.  That each fragment is       *)
(* searched once is proved whatever the order.                             *)
(***************************************************************************)
EXTENDS OverlapSearch, Events_proofs

\* The place of a part of the nth fragment, in the order in which parts are sent.
At(n, part) == Parts * (n - 1) + part

\* A place is in the lot of its fragment, and says which part it is.
LEMMA AtIs ==
    ASSUME NEW n \in Nat \ {0}, NEW p \in 1 .. Parts
    PROVE  /\ At(n, p) \in Nat \ {0}
           /\ At(n, p) <= Parts * n
           /\ (At(n, p) - 1) \div Parts = n - 1
           /\ (At(n, p) - 1) % Parts = p - 1
  <1> Parts \in Nat \ {0}
    BY OverlapSearchAssumption
  <1> DEFINE k == Parts * (n - 1)
  <1>1. k \in Nat /\ Parts * n = k + Parts
    OBVIOUS
  <1>2. (k + (p - 1)) \div Parts = n - 1 /\ (k + (p - 1)) % Parts = p - 1
    OBVIOUS
  <1> QED
    BY <1>1, <1>2 DEF At

\* Lots of parts do not overlap.
LEMMA AtLater ==
    ASSUME NEW n \in Nat \ {0}, NEW m \in Nat \ {0}, n < m
    PROVE  Parts * n <= Parts * (m - 1) /\ Parts * n \in Nat /\ Parts * (m - 1) \in Nat
  <1> Parts \in Nat \ {0}
    BY OverlapSearchAssumption
  <1> DEFINE w == m - 1 - n
  <1>1. w \in Nat /\ m - 1 = n + w
    OBVIOUS
  <1>2. Parts * (n + w) = Parts * n + Parts * w /\ Parts * w \in Nat /\ Parts * n \in Nat
    BY <1>1
  <1> QED
    BY <1>1, <1>2

\* Every place is one of some part of some fragment.
LEMMA AtPlace ==
    ASSUME NEW N \in Nat, NEW j \in 1 .. Parts * N
    PROVE  \E n \in 1 .. N, p \in 1 .. Parts : j = At(n, p)
  <1> Parts \in Nat \ {0}
    BY OverlapSearchAssumption
  <1> DEFINE q == (j - 1) \div Parts
             t == (j - 1) % Parts
  <1>1. q \in Int /\ t \in 0 .. Parts - 1 /\ j - 1 = Parts * q + t
    OBVIOUS
  <1> HIDE DEF q, t
  <1>2. ~(q < 0)
    <2> DEFINE w == -1 - q
    <2> SUFFICES ASSUME q < 0 PROVE FALSE
      OBVIOUS
    <2>1. w \in Nat /\ q = -1 - w
      BY <1>1
    <2> HIDE DEF w
    <2>2. Parts * (-1 - w) = -Parts - Parts * w /\ Parts * w \in Nat
      BY <2>1
    <2> QED
      BY <1>1, <2>1, <2>2
  <1>3. ~(q >= N)
    <2> DEFINE w == q - N
    <2> SUFFICES ASSUME q >= N PROVE FALSE
      OBVIOUS
    <2>1. w \in Nat /\ q = N + w
      BY <1>1
    <2> HIDE DEF w
    <2>2. Parts * (N + w) = Parts * N + Parts * w /\ Parts * w \in Nat /\ Parts * N \in Nat
      BY <2>1
    <2> QED
      BY <1>1, <2>1, <2>2
  <1>4. q + 1 \in 1 .. N /\ t + 1 \in 1 .. Parts /\ j = At(q + 1, t + 1)
    BY <1>1, <1>2, <1>3 DEF At
  <1> QED
    BY <1>4
-----------------------------------------------------------------------------
\* Of the first n of the fragments w, how many are from s; the number of the ith among those
\* from its rank; the place of a part of it.
Asked(w, s, n) == Cardinality({i \in 1 .. n : w[i][2] = s})
Number(w, i) == Asked(w, w[i][2], i)
Place(w, i, part) == At(Number(w, i), part)

\* One more is asked for when, and only when, the next is from s.
LEMMA AskedIs ==
    ASSUME NEW w, NEW s, NEW n \in Nat
    PROVE  /\ Asked(w, s, n) \in Nat
           /\ n = 0 => Asked(w, s, n) = 0
           /\ n > 0 /\ w[n][2] = s => Asked(w, s, n) = Asked(w, s, n - 1) + 1
           /\ n > 0 /\ w[n][2] # s => Asked(w, s, n) = Asked(w, s, n - 1)
  <1> DEFINE S(k) == {i \in 1 .. k : w[i][2] = s}
  <1>1. ASSUME NEW k \in Nat
        PROVE  IsFiniteSet(S(k))
    <2>1. IsFiniteSet(1 .. k) /\ S(k) \in SUBSET (1 .. k)
      BY FS_Interval
    <2> QED
      BY <2>1, FS_Subset
  <1>2. Cardinality(S(n)) \in Nat
    BY <1>1, FS_CardinalityType
  <1>3. ASSUME n = 0
        PROVE  Cardinality(S(n)) = 0
    <2>1. S(n) = {}
      BY <1>3
    <2> QED
      BY <2>1, FS_EmptySet
  <1>4. ASSUME n > 0, w[n][2] = s
        PROVE  Cardinality(S(n)) = Cardinality(S(n - 1)) + 1
    <2>1. S(n) = S(n - 1) \cup {n} /\ n \notin S(n - 1) /\ n - 1 \in Nat
      BY <1>4
    <2>2. IsFiniteSet(S(n - 1))
      BY <1>1, <2>1
    <2> HIDE DEF S
    <2> QED
      BY <2>1, <2>2, FS_AddElement
  <1>5. ASSUME n > 0, w[n][2] # s
        PROVE  S(n) = S(n - 1)
    BY <1>5
  <1> QED
    BY <1>2, <1>3, <1>4, <1>5 DEF Asked

\* As more is asked for, no less is asked of anyone.
LEMMA AskedGrows ==
    ASSUME NEW w, NEW s, NEW m \in Nat, NEW n \in Nat, m <= n
    PROVE  Asked(w, s, m) <= Asked(w, s, n)
  <1> DEFINE S == {i \in 1 .. m : w[i][2] = s}
             T == {i \in 1 .. n : w[i][2] = s}
  <1>1. IsFiniteSet(1 .. n) /\ T \in SUBSET (1 .. n) /\ S \in SUBSET T
    BY FS_Interval
  <1>2. IsFiniteSet(T)
    BY <1>1, FS_Subset
  <1>3. Cardinality(S) <= Cardinality(T)
    BY <1>1, <1>2, FS_Subset
  <1> QED
    BY <1>3 DEF Asked

\* Fragments from one rank are numbered in the order in which they are asked for.
LEMMA NumberIs ==
    ASSUME NEW w, NEW i \in Nat \ {0}
    PROVE  /\ Number(w, i) \in Nat \ {0}
           /\ \A n \in Nat : i <= n => Number(w, i) <= Asked(w, w[i][2], n)
           /\ \A j \in Nat \ {0} : i < j /\ w[j][2] = w[i][2] => Number(w, i) < Number(w, j)
  <1> DEFINE s == w[i][2]
  <1>1. Number(w, i) = Asked(w, s, i - 1) + 1 /\ Asked(w, s, i - 1) \in Nat
    BY AskedIs DEF Number
  <1>2. \A n \in Nat : i <= n => Number(w, i) <= Asked(w, s, n)
    BY AskedGrows DEF Number
  <1>3. ASSUME NEW j \in Nat \ {0}, i < j, w[j][2] = s
        PROVE  Number(w, i) < Number(w, j)
    <2>1. Number(w, j) = Asked(w, s, j - 1) + 1 /\ Asked(w, s, j - 1) \in Nat
      BY <1>3, AskedIs DEF Number
    <2>2. Number(w, i) <= Asked(w, s, j - 1)
      BY <1>2, <1>3
    <2> QED
      BY <1>1, <2>1, <2>2
  <1> QED
    BY <1>1, <1>2, <1>3

\* Places of messages from s are among those of all that is asked for of it.
LEMMA PlaceIs ==
    ASSUME NEW w, NEW n \in Nat, NEW i \in 1 .. n, NEW p \in 1 .. Parts
    PROVE  /\ Place(w, i, p) \in Nat \ {0}
           /\ Place(w, i, p) <= Parts * Asked(w, w[i][2], n)
  <1> Parts \in Nat \ {0}
    BY OverlapSearchAssumption
  <1> DEFINE a == Asked(w, w[i][2], n)
  <1>1. Number(w, i) \in Nat \ {0} /\ Number(w, i) <= a /\ a \in Nat
    BY NumberIs, AskedIs
  <1> HIDE DEF a
  <1>2. Place(w, i, p) \in Nat \ {0} /\ Place(w, i, p) <= Parts * Number(w, i)
    BY <1>1, AtIs DEF Place
  <1>3. Parts * Number(w, i) <= Parts * a /\ Parts * Number(w, i) \in Nat /\ Parts * a \in Nat
    <2>1. CASE Number(w, i) = a
      BY <1>1, <2>1
    <2>2. CASE Number(w, i) < a
      <3>1. Number(w, i) < a + 1 /\ a + 1 \in Nat \ {0} /\ (a + 1) - 1 = a
        BY <1>1
      <3> QED
        BY <1>1, <3>1, AtLater
    <2> QED
      BY <1>1, <2>1, <2>2
  <1> QED
    BY <1>1, <1>2, <1>3 DEF a

\* The messages of a fragment have later places than those of one that was asked for before it.
LEMMA PlaceLater ==
    ASSUME NEW w, NEW k \in Nat \ {0}, NEW t \in 1 .. Parts, NEW j \in Nat \ {0}, NEW q \in 1 .. Parts,
           j < k, w[j][2] = w[k][2]
    PROVE  Place(w, j, q) < Place(w, k, t)
  <1> Parts \in Nat \ {0}
    BY OverlapSearchAssumption
  <1>1. Number(w, j) < Number(w, k) /\ Number(w, j) \in Nat \ {0} /\ Number(w, k) \in Nat \ {0}
    BY NumberIs
  <1>2. /\ Parts * Number(w, j) <= Parts * (Number(w, k) - 1)
        /\ Parts * Number(w, j) \in Nat /\ Parts * (Number(w, k) - 1) \in Nat
    BY <1>1, AtLater
  <1>3. Place(w, j, q) <= Parts * Number(w, j) /\ Place(w, j, q) \in Nat
    BY <1>1, AtIs DEF Place
  <1>4. Place(w, k, t) = Parts * (Number(w, k) - 1) + t
    BY DEF Place, At
  <1> QED
    BY <1>2, <1>3, <1>4

\* Two messages from one rank that have the same place are the same.
LEMMA PlaceOnce ==
    ASSUME NEW w, NEW n \in Nat, NEW i \in 1 .. n, NEW p \in 1 .. Parts,
           NEW j \in 1 .. n, NEW q \in 1 .. Parts,
           w[j][2] = w[i][2], Place(w, j, q) = Place(w, i, p)
    PROVE  j = i /\ q = p
  <1> Parts \in Nat \ {0}
    BY OverlapSearchAssumption
  <1> DEFINE P == Place(w, i, p)
  <1>1. P \in Nat /\ i \in Nat \ {0} /\ j \in Nat \ {0} /\ w[i][2] = w[j][2] /\ Place(w, j, q) = P
    BY PlaceIs
  <1>2. ~(j < i)
    <2> SUFFICES ASSUME j < i PROVE FALSE
      OBVIOUS
    <2>1. Place(w, j, q) < Place(w, i, p)
      BY <1>1, PlaceLater
    <2> HIDE DEF P
    <2> QED
      BY <1>1, <2>1 DEF P
  <1>3. ~(i < j)
    <2> SUFFICES ASSUME i < j PROVE FALSE
      OBVIOUS
    <2>1. Place(w, i, p) < Place(w, j, q)
      BY <1>1, PlaceLater
    <2> QED
      BY <1>1, <2>1
  <1>4. j = i
    BY <1>2, <1>3
  <1>5. Number(w, i) \in Nat \ {0}
    BY <1>1, NumberIs
  <1>6. Parts * (Number(w, i) - 1) \in Int
    BY <1>5
  <1>7. Parts * (Number(w, i) - 1) + q = Parts * (Number(w, i) - 1) + p
    BY <1>4 DEF Place, At
  <1> HIDE DEF P
  <1>8. q = p
    <2> DEFINE b == Parts * (Number(w, i) - 1)
    <2> HIDE DEF b
    <2> QED
      BY <1>6, <1>7 DEF b
  <1> QED
    BY <1>4, <1>8
-----------------------------------------------------------------------------
\* The messages from s that have not been received, m having been: those for the fragments it
\* has sent are in their places.
LineOK(w, s, m, a, line) ==
    /\ IsLog(line) /\ m \in Nat /\ Len(line) + m = Parts * a
    /\ \A i \in 1 .. Len(w), p \in 1 .. Parts :
         w[i][2] = s /\ Place(w, i, p) - m \in 1 .. Len(line) => line[Place(w, i, p) - m] = w[i]

\* The first message is received.
LEMMA LineShrinks ==
    ASSUME NEW w, Len(w) \in Nat, NEW s, NEW m, NEW a, NEW line, LineOK(w, s, m, a, line), Len(line) > 0
    PROVE  LineOK(w, s, m + 1, a, Tail(line))
  <1>1. Len(line) \in Nat /\ m \in Nat /\ IsLog(line)
    BY DEF LineOK, IsLog
  <1>2. /\ IsLog(Tail(line)) /\ Len(Tail(line)) = Len(line) - 1
        /\ \A i \in 1 .. Len(line) - 1 : Tail(line)[i] = line[i + 1]
    BY <1>1, LogTail
  <1>3. ASSUME NEW i \in 1 .. Len(w), NEW p \in 1 .. Parts, w[i][2] = s
        PROVE  Place(w, i, p) - (m + 1) \in 1 .. Len(line) - 1
                 => Tail(line)[Place(w, i, p) - (m + 1)] = w[i]
    <2> DEFINE k == Place(w, i, p)
    <2>1. k \in Nat
      BY PlaceIs
    <2>2. k - m \in 1 .. Len(line) => line[k - m] = w[i]
      BY <1>3 DEF LineOK
    <2> HIDE DEF k
    <2>4. ASSUME k - (m + 1) \in 1 .. Len(line) - 1
          PROVE  Tail(line)[k - (m + 1)] = w[i]
      <3>1. Tail(line)[k - (m + 1)] = line[(k - (m + 1)) + 1]
        BY <1>2, <2>4
      <3>2. (k - (m + 1)) + 1 = k - m /\ k - m \in 1 .. Len(line)
        BY <1>1, <2>1, <2>4
      <3> QED
        BY <2>2, <3>1, <3>2
    <2> QED
      BY <2>4 DEF k
  <1>4. m + 1 \in Nat /\ Len(Tail(line)) + (m + 1) = Parts * a
    <2> DEFINE P == Parts * a
               l == Len(line)
               t == Len(Tail(line))
    <2>1. l + m = P
      BY DEF LineOK
    <2>2. t = l - 1 /\ l \in Nat
      BY <1>1, <1>2
    <2> HIDE DEF P, l, t
    <2>3. m + 1 \in Nat /\ t + (m + 1) = P
      BY <1>1, <2>1, <2>2
    <2> QED
      BY <2>3 DEF P, t
  <1> QED
    BY <1>2, <1>3, <1>4 DEF LineOK

\* The first message is the part that comes after those that are received.
LEMMA LineHead ==
    ASSUME NEW w, Len(w) \in Nat, NEW s, NEW m, NEW a, NEW line, LineOK(w, s, m, a, line), Len(line) > 0,
           NEW i \in 1 .. Len(w), NEW p \in 1 .. Parts, w[i][2] = s, Place(w, i, p) = m + 1
    PROVE  Head(line) = w[i]
  <1>1. Len(line) \in Nat /\ m \in Nat /\ IsLog(line)
    BY DEF LineOK, IsLog
  <1>2. Head(line) = line[1]
    BY <1>1, LogTail
  <1>3. Place(w, i, p) - m = 1 /\ 1 \in 1 .. Len(line)
    BY <1>1
  <1>4. Place(w, i, p) - m \in 1 .. Len(line) => line[Place(w, i, p) - m] = w[i]
    BY DEF LineOK
  <1> QED
    BY <1>2, <1>3, <1>4

\* k more fragments are sent, after a.
Answered(more, answer, a, k) ==
    /\ IsLog(more) /\ Len(more) = Parts * k
    /\ \A j \in 1 .. Parts * k : more[j] = answer[a + 1 + (j - 1) \div Parts]

\* What is in the place of a part is what was asked for.
LEMMA AnswerOf ==
    ASSUME NEW answer, NEW a \in Nat, NEW k, NEW more, Answered(more, answer, a, k),
           NEW n \in Nat \ {0}, NEW p \in 1 .. Parts, At(n, p) - Parts * a \in 1 .. Parts * k
    PROVE  more[At(n, p) - Parts * a] = answer[n]
  <1> Parts \in Nat \ {0}
    BY OverlapSearchAssumption
  <1> DEFINE A == Parts * a
             j == At(n, p) - A
  <1>1. j \in 1 .. Parts * k
    OBVIOUS
  <1>2. more[j] = answer[a + 1 + (j - 1) \div Parts]
    BY <1>1, Zenon DEF Answered
  <1>3. At(n, p) \in Nat /\ At(n, p) <= Parts * n
    BY AtIs
  <1>4. A \in Nat
    OBVIOUS
  <1>5. n > a
    <2> SUFFICES ASSUME n < a + 1 PROVE FALSE
      OBVIOUS
    <2>1. a + 1 \in Nat \ {0} /\ (a + 1) - 1 = a
      OBVIOUS
    <2>2. Parts * n <= A /\ Parts * n \in Nat
      BY <2>1, AtLater
    <2> HIDE DEF A
    <2>3. At(n, p) - A >= 1
      BY <1>1
    <2> QED
      BY <1>3, <1>4, <2>2, <2>3
  <1>6. n - a \in Nat \ {0}
    BY <1>5
  <1>7. Parts * (n - 1) = A + Parts * ((n - a) - 1) /\ Parts * ((n - a) - 1) \in Int
    BY <1>6
  <1> HIDE DEF A
  <1>8. j = At(n - a, p)
    BY <1>4, <1>7 DEF At
  <1> HIDE DEF j
  <1>9. (j - 1) \div Parts = (n - a) - 1
    BY <1>6, <1>8, AtIs
  <1>10. a + 1 + (j - 1) \div Parts = n
    BY <1>6, <1>9
  <1> QED
    BY <1>2, <1>10 DEF j, A

\* One more fragment is one more lot of parts.
LEMMA PartsMore ==
    ASSUME NEW a \in Nat
    PROVE  Parts * (a + 1) = Parts * a + Parts /\ Parts * a \in Nat
  <1>1. Parts \in Nat
    BY OverlapSearchAssumption
  <1>2. Parts * a \in Nat
    BY <1>1
  <1>3. Parts * (a + 1) = Parts * a + Parts * 1 /\ Parts * 1 = Parts
    BY <1>1
  <1> QED
    BY <1>2, <1>3

\* What is answered is, in the order in which it was asked for, what was asked for.
AnswersFor(w, s, answer) == \A i \in 1 .. Len(w) : w[i][2] = s => answer[Number(w, i)] = w[i]

LEMMA LineGrows ==
    ASSUME NEW w, Len(w) \in Nat, NEW s, NEW m, NEW a \in Nat, NEW line, LineOK(w, s, m, a, line),
           NEW k \in Nat, NEW answer, NEW more, Answered(more, answer, a, k),
           AnswersFor(w, s, answer)
    PROVE  LineOK(w, s, m, a + k, line \o more)
  <1> Parts \in Nat \ {0}
    BY OverlapSearchAssumption
  <1>1. IsLog(line) /\ IsLog(more) /\ Len(line) \in Nat /\ Len(more) \in Nat /\ m \in Nat
    BY DEF LineOK, Answered, IsLog
  <1>2. /\ IsLog(line \o more) /\ Len(line \o more) = Len(line) + Len(more)
        /\ \A i \in 1 .. Len(line) : (line \o more)[i] = line[i]
        /\ \A i \in 1 .. Len(more) : (line \o more)[Len(line) + i] = more[i]
    BY <1>1, LogJoined
  <1> DEFINE A == Parts * a
             K == Parts * k
  <1>3. A \in Nat /\ K \in Nat /\ Parts * (a + k) = A + K
    OBVIOUS
  <1>4. Len(line) + m = A /\ Len(more) = K
    BY DEF LineOK, Answered
  <1>5. ASSUME NEW n \in Nat \ {0}, NEW p \in 1 .. Parts, At(n, p) - A \in 1 .. K
        PROVE  more[At(n, p) - A] = answer[n]
    BY <1>5, AnswerOf
  <1> HIDE DEF A, K
  <1>6. ASSUME NEW i \in 1 .. Len(w), NEW p \in 1 .. Parts, w[i][2] = s,
               Place(w, i, p) - m \in 1 .. Len(line \o more)
        PROVE  (line \o more)[Place(w, i, p) - m] = w[i]
    <2> DEFINE h == Place(w, i, p)
               n == Number(w, i)
    <2>1. h \in Nat
      BY PlaceIs
    <2>2. n \in Nat \ {0} /\ h = At(n, p)
      BY NumberIs DEF Place
    <2>3. h - m \in 1 .. Len(line) => line[h - m] = w[i]
      BY <1>6 DEF LineOK
    <2>4. answer[n] = w[i]
      BY <1>6 DEF AnswersFor
    <2>5. h - m \in 1 .. Len(line \o more)
      BY <1>6
    <2> DEFINE l == Len(line)
               q == Len(more)
    <2>10. l \in Nat /\ q \in Nat /\ h - m \in 1 .. l + q /\ l + m = A /\ q = K
      BY <1>1, <1>2, <1>4, <2>5
    <2> HIDE DEF h, n, l, q
    <2>6. CASE h - m <= l
      <3>1. h - m \in 1 .. l
        BY <1>1, <2>1, <2>6, <2>10
      <3> QED
        BY <1>2, <2>3, <3>1 DEF h, l
    <2>7. CASE ~(h - m <= l)
      <3>1. h - A \in 1 .. q /\ h - m = l + (h - A)
        BY <1>1, <2>1, <2>7, <2>10
      <3>2. (line \o more)[h - m] = more[h - A]
        BY <1>2, <3>1 DEF l, q
      <3>3. more[h - A] = answer[n]
        BY <1>5, <2>2, <2>10, <3>1
      <3> QED
        BY <2>4, <3>2, <3>3 DEF h
    <2> QED
      BY <2>6, <2>7
  <1>7. Len(line \o more) + m = Parts * (a + k)
    BY <1>1, <1>2, <1>3, <1>4
  <1> QED
    BY <1>1, <1>2, <1>6, <1>7 DEF LineOK
-----------------------------------------------------------------------------
\* Slots are for different fragments, of the n that have been asked for.
SlotsOK(w, n, S) ==
    /\ IsLog(w) /\ n \in 0 .. Len(w)
    /\ \A slot \in Slots : S[slot] \in 0 .. n
    /\ \A x, y \in Slots : x # y /\ S[x] # 0 => S[x] # S[y]

\* The slot is for a fragment from s.
HeldFrom(w, s, S, slot) == S[slot] # 0 /\ w[S[slot]][2] = s

\* A message for a part of a slot: it is waited for, or there.
Waiting(w, post, m, S, D, slot, part) ==
    /\ Place(w, S[slot], part) - m \in 1 .. Len(post)
    /\ post[Place(w, S[slot], part) - m] = <<slot, part>>
    /\ D[slot][part] = Nothing
There(w, m, S, D, slot, part) ==
    /\ Place(w, S[slot], part) <= m
    /\ D[slot][part] = w[S[slot]]

\* The receives from s that have not met their messages: for the parts, in order, of the fragments
\* in slots; those that have, m of them, have put what they are for where it belongs.
PostOK(w, s, n, post, m, S, D) ==
    /\ IsLog(post) /\ m \in Nat /\ Len(post) + m = Parts * Asked(w, s, n)
    /\ \A slot \in Slots, part \in 1 .. Parts : HeldFrom(w, s, S, slot) =>
         Waiting(w, post, m, S, D, slot, part) \/ There(w, m, S, D, slot, part)
    /\ \A h \in 1 .. Len(post) : \E slot \in Slots, part \in 1 .. Parts :
         HeldFrom(w, s, S, slot) /\ post[h] = <<slot, part>> /\ Place(w, S[slot], part) = h + m

\* The first receive is for the part that comes after those that are received.
LEMMA PostHead ==
    ASSUME NEW w, NEW s, NEW n, NEW post, NEW m, NEW S, NEW D, PostOK(w, s, n, post, m, S, D),
           Len(post) > 0
    PROVE  \E slot \in Slots, part \in 1 .. Parts :
             HeldFrom(w, s, S, slot) /\ Head(post) = <<slot, part>> /\ Place(w, S[slot], part) = m + 1
  <1>1. IsLog(post) /\ m \in Nat /\ Len(post) \in Nat
    BY DEF PostOK, IsLog
  <1>2. Head(post) = post[1]
    BY <1>1, LogTail
  <1>3. 1 \in 1 .. Len(post)
    BY <1>1
  <1>4. \E slot \in Slots, part \in 1 .. Parts :
          HeldFrom(w, s, S, slot) /\ post[1] = <<slot, part>> /\ Place(w, S[slot], part) = 1 + m
    BY <1>3, Zenon DEF PostOK
  <1>5. 1 + m = m + 1
    BY <1>1
  <1> QED
    BY <1>2, <1>4, <1>5

\* Two parts that are from one rank and have the same place are one part of one slot.
LEMMA SlotOnce ==
    ASSUME NEW w, NEW s, NEW n, NEW S, SlotsOK(w, n, S),
           NEW x \in Slots, NEW y \in 1 .. Parts, HeldFrom(w, s, S, x),
           NEW slot \in Slots, NEW part \in 1 .. Parts, HeldFrom(w, s, S, slot),
           Place(w, S[slot], part) = Place(w, S[x], y)
    PROVE  slot = x /\ part = y
  <1> DEFINE a == S[x]
             b == S[slot]
  <1>1. a \in 1 .. n /\ b \in 1 .. n /\ n \in Nat /\ a # 0
    BY DEF SlotsOK, HeldFrom, IsLog
  <1>2. w[b][2] = w[a][2] /\ Place(w, b, part) = Place(w, a, y)
    BY DEF HeldFrom
  <1> HIDE DEF a, b
  <1>3. b = a /\ part = y
    BY <1>1, <1>2, PlaceOnce
  <1>4. slot = x
    BY <1>1, <1>3 DEF SlotsOK, a, b
  <1> QED
    BY <1>3, <1>4

\* The first receive is met by the message that it is for.
LEMMA PostShrinks ==
    ASSUME NEW w, NEW s, NEW n, NEW post, NEW m, NEW S, NEW D, PostOK(w, s, n, post, m, S, D),
           SlotsOK(w, n, S), Len(post) > 0,
           NEW x \in Slots, NEW y \in 1 .. Parts, Head(post) = <<x, y>>,
           NEW D2, D2[x][y] = w[S[x]],
           \A slot \in Slots, part \in 1 .. Parts :
              <<slot, part>> # <<x, y>> => D2[slot][part] = D[slot][part]
    PROVE  PostOK(w, s, n, Tail(post), m + 1, S, D2)
  <1>1. IsLog(post) /\ m \in Nat /\ Len(post) \in Nat /\ m + 1 \in Nat
    BY DEF PostOK, IsLog
  <1>2. /\ IsLog(Tail(post)) /\ Len(Tail(post)) = Len(post) - 1
        /\ \A i \in 1 .. Len(post) - 1 : Tail(post)[i] = post[i + 1]
    BY <1>1, LogTail
  <1>3. HeldFrom(w, s, S, x) /\ Place(w, S[x], y) = m + 1
    BY PostHead
  <1>4. Len(Tail(post)) + (m + 1) = Parts * Asked(w, s, n)
    <2> DEFINE P == Parts * Asked(w, s, n)
               l == Len(post)
               t == Len(Tail(post))
    <2>1. l + m = P
      BY DEF PostOK
    <2>2. t = l - 1 /\ l \in Nat
      BY <1>1, <1>2
    <2> HIDE DEF P, l, t
    <2>3. t + (m + 1) = P
      BY <1>1, <2>1, <2>2
    <2> QED
      BY <2>3 DEF P, t
  <1>5. ASSUME NEW slot \in Slots, NEW part \in 1 .. Parts, HeldFrom(w, s, S, slot)
        PROVE  Waiting(w, Tail(post), m + 1, S, D2, slot, part) \/ There(w, m + 1, S, D2, slot, part)
    <2> DEFINE k == Place(w, S[slot], part)
    <2>0. S[slot] \in 1 .. n /\ S[x] \in 1 .. n /\ n \in Nat
      BY <1>3, <1>5 DEF SlotsOK, HeldFrom, IsLog
    <2>1. k \in Nat \ {0}
      BY <2>0, PlaceIs
    <2>2. CASE <<slot, part>> = <<x, y>>
      <3>1. k = m + 1
        BY <1>3, <2>2
      <3> QED
        BY <1>1, <2>2, <3>1 DEF There
    <2>3. CASE <<slot, part>> # <<x, y>>
      <3>1. k # m + 1
        <4>1. SUFFICES ASSUME k = m + 1
                       PROVE  slot = x /\ part = y
          BY <2>3
        <4>2. Place(w, S[slot], part) = Place(w, S[x], y)
          BY <1>3, <4>1
        <4> QED
          BY <1>3, <1>5, <4>2, SlotOnce
      <3>2. D2[slot][part] = D[slot][part]
        BY <2>3
      <3>3. CASE There(w, m, S, D, slot, part)
        BY <1>1, <2>1, <3>2, <3>3 DEF There
      <3>4. CASE Waiting(w, post, m, S, D, slot, part)
        <4>1. k - m \in 1 .. Len(post) /\ post[k - m] = <<slot, part>> /\ D2[slot][part] = Nothing
          BY <3>2, <3>4 DEF Waiting
        <4> HIDE DEF k
        <4>2. k - (m + 1) \in 1 .. Len(post) - 1 /\ (k - (m + 1)) + 1 = k - m
          BY <1>1, <2>1, <3>1, <4>1
        <4>3. Tail(post)[k - (m + 1)] = <<slot, part>>
          BY <1>2, <4>1, <4>2
        <4> QED
          BY <1>2, <4>1, <4>2, <4>3 DEF Waiting, k
      <3> QED
        BY <1>5, <3>3, <3>4 DEF PostOK
    <2> QED
      BY <2>2, <2>3
  <1>6. ASSUME NEW h \in 1 .. Len(Tail(post))
        PROVE  \E slot \in Slots, part \in 1 .. Parts :
                 /\ HeldFrom(w, s, S, slot) /\ Tail(post)[h] = <<slot, part>>
                 /\ Place(w, S[slot], part) = h + (m + 1)
    <2>1. h \in 1 .. Len(post) - 1
      BY <1>2, <1>6
    <2>2. h + 1 \in 1 .. Len(post) /\ Tail(post)[h] = post[h + 1] /\ (h + 1) + m = h + (m + 1)
      BY <1>1, <1>2, <2>1
    <2>3. \E slot \in Slots, part \in 1 .. Parts :
            HeldFrom(w, s, S, slot) /\ post[h + 1] = <<slot, part>> /\ Place(w, S[slot], part) = (h + 1) + m
      BY <2>2, Zenon DEF PostOK
    <2> QED
      BY <2>2, <2>3
  <1> HIDE DEF Slots
  <1> QED
    BY <1>1, <1>2, <1>4, <1>5, <1>6, Zenon DEF PostOK

\* A slot that is not waited for may get something else to do.
LEMMA PostStays ==
    ASSUME NEW w, NEW s, NEW n, NEW post, NEW m, NEW S, NEW D, PostOK(w, s, n, post, m, S, D),
           NEW x \in Slots, \A part \in 1 .. Parts : HeldFrom(w, s, S, x) => D[x][part] # Nothing,
           NEW S2, NEW D2, ~HeldFrom(w, s, S2, x),
           \A slot \in Slots : slot # x => S2[slot] = S[slot] /\ D2[slot] = D[slot],
           NEW n2, Asked(w, s, n2) = Asked(w, s, n)
    PROVE  PostOK(w, s, n2, post, m, S2, D2)
  <1>1. IsLog(post) /\ m \in Nat /\ Len(post) + m = Parts * Asked(w, s, n2)
    BY DEF PostOK
  <1>2. ASSUME NEW slot \in Slots, NEW part \in 1 .. Parts, HeldFrom(w, s, S2, slot)
        PROVE  Waiting(w, post, m, S2, D2, slot, part) \/ There(w, m, S2, D2, slot, part)
    <2>1. slot # x
      BY <1>2
    <2>2. S2[slot] = S[slot] /\ D2[slot] = D[slot]
      BY <2>1
    <2>3. HeldFrom(w, s, S, slot)
      BY <1>2, <2>2 DEF HeldFrom
    <2>4. Waiting(w, post, m, S, D, slot, part) \/ There(w, m, S, D, slot, part)
      BY <2>3, Zenon DEF PostOK
    <2> QED
      BY <2>2, <2>4, Zenon DEF Waiting, There
  <1>3. ASSUME NEW h \in 1 .. Len(post)
        PROVE  \E slot \in Slots, part \in 1 .. Parts :
                 HeldFrom(w, s, S2, slot) /\ post[h] = <<slot, part>> /\ Place(w, S2[slot], part) = h + m
    <2>1. PICK slot \in Slots, part \in 1 .. Parts :
            HeldFrom(w, s, S, slot) /\ post[h] = <<slot, part>> /\ Place(w, S[slot], part) = h + m
      BY <1>3, Zenon DEF PostOK
    <2>2. slot # x
      <3> SUFFICES ASSUME slot = x PROVE FALSE
        OBVIOUS
      <3>1. D[x][part] # Nothing
        BY <2>1
      <3>2. Waiting(w, post, m, S, D, slot, part) \/ There(w, m, S, D, slot, part)
        BY <2>1, Zenon DEF PostOK
      <3>3. ~There(w, m, S, D, slot, part)
        <4>1. h \in Nat \ {0} /\ m \in Nat
          BY <1>1 DEF IsLog
        <4>2. ~(h + m <= m)
          BY <4>1
        <4> QED
          BY <2>1, <4>2 DEF There
      <3> QED
        BY <3>1, <3>2, <3>3 DEF Waiting
    <2>3. S2[slot] = S[slot]
      BY <2>2
    <2>4. HeldFrom(w, s, S2, slot) /\ post[h] = <<slot, part>> /\ Place(w, S2[slot], part) = h + m
      BY <2>1, <2>3 DEF HeldFrom
    <2> QED
      BY <2>4
  <1> HIDE DEF Slots
  <1> QED
    BY <1>1, <1>2, <1>3, Zenon DEF PostOK

\* A free slot gets the next fragment.
LEMMA PostGrows ==
    ASSUME NEW w, NEW s, NEW n \in Nat, NEW post, NEW m, NEW S, NEW D, PostOK(w, s, n, post, m, S, D),
           NEW x \in Slots, ~HeldFrom(w, s, S, x),
           NEW S2, NEW D2, S2[x] = n + 1, w[n + 1][2] = s, \A part \in 1 .. Parts : D2[x][part] = Nothing,
           \A slot \in Slots : slot # x => S2[slot] = S[slot] /\ D2[slot] = D[slot]
    PROVE  PostOK(w, s, n + 1, post \o PartsOf(x), m, S2, D2)
  <1> Parts \in Nat \ {0}
    BY OverlapSearchAssumption
  <1> DEFINE more == PartsOf(x)
             l == Len(post)
             P == Parts * Asked(w, s, n)
  <1>1. IsLog(post) /\ m \in Nat /\ l \in Nat /\ l + m = P
    BY DEF PostOK, IsLog
  <1>2. IsLog(more) /\ Len(more) = Parts /\ \A part \in 1 .. Parts : more[part] = <<x, part>>
    <2>1. more = [part \in 1 .. Parts |-> <<x, part>>]
      BY DEF PartsOf
    <2> QED
      BY <2>1 DEF IsLog
  <1> HIDE DEF more
  <1>3. /\ IsLog(post \o more) /\ Len(post \o more) = l + Parts
        /\ \A i \in 1 .. l : (post \o more)[i] = post[i]
        /\ \A i \in 1 .. Parts : (post \o more)[l + i] = more[i]
    BY <1>1, <1>2, LogJoined
  <1>4. Asked(w, s, n + 1) = Asked(w, s, n) + 1 /\ Asked(w, s, n) \in Nat
    <2>1. n + 1 \in Nat /\ n + 1 > 0 /\ (n + 1) - 1 = n
      OBVIOUS
    <2> QED
      BY <2>1, AskedIs
  <1>5. Parts * Asked(w, s, n + 1) = P + Parts /\ P \in Nat
    BY <1>4, PartsMore
  <1>6. \A part \in 1 .. Parts : Place(w, n + 1, part) = P + part
    <2>1. Number(w, n + 1) - 1 = Asked(w, s, n)
      BY <1>4 DEF Number
    <2> QED
      BY <2>1 DEF Place, At
  <1> HIDE DEF P
  <1>7. ASSUME NEW slot \in Slots, NEW part \in 1 .. Parts, HeldFrom(w, s, S2, slot)
        PROVE  Waiting(w, post \o more, m, S2, D2, slot, part) \/ There(w, m, S2, D2, slot, part)
    <2>1. CASE slot = x
      <3>1. Place(w, S2[slot], part) - m = l + part
        BY <1>1, <1>6, <2>1
      <3>2. l + part \in 1 .. l + Parts
        BY <1>1
      <3>3. (post \o more)[l + part] = <<slot, part>>
        BY <1>2, <1>3, <2>1
      <3>4. D2[slot][part] = Nothing
        BY <2>1
      <3> QED
        BY <1>3, <3>1, <3>2, <3>3, <3>4 DEF Waiting
    <2>2. CASE slot # x
      <3>1. S2[slot] = S[slot] /\ D2[slot] = D[slot]
        BY <2>2
      <3>2. HeldFrom(w, s, S, slot)
        BY <1>7, <3>1 DEF HeldFrom
      <3>3. Waiting(w, post, m, S, D, slot, part) \/ There(w, m, S, D, slot, part)
        BY <3>2, Zenon DEF PostOK
      <3>4. CASE There(w, m, S, D, slot, part)
        BY <3>1, <3>4 DEF There
      <3>5. CASE Waiting(w, post, m, S, D, slot, part)
        <4> DEFINE k == Place(w, S[slot], part) - m
        <4>1. k \in 1 .. l /\ post[k] = <<slot, part>> /\ D[slot][part] = Nothing
          BY <3>5 DEF Waiting
        <4> HIDE DEF k
        <4>2. k \in 1 .. l + Parts /\ (post \o more)[k] = <<slot, part>>
          BY <1>1, <1>3, <4>1
        <4> QED
          BY <1>3, <3>1, <4>1, <4>2 DEF Waiting, k
      <3> QED
        BY <3>3, <3>4, <3>5
    <2> QED
      BY <2>1, <2>2
  <1>8. ASSUME NEW h \in 1 .. Len(post \o more)
        PROVE  \E slot \in Slots, part \in 1 .. Parts :
                 /\ HeldFrom(w, s, S2, slot) /\ (post \o more)[h] = <<slot, part>>
                 /\ Place(w, S2[slot], part) = h + m
    <2>1. CASE h \in 1 .. l
      <3>1. PICK slot \in Slots, part \in 1 .. Parts :
              HeldFrom(w, s, S, slot) /\ post[h] = <<slot, part>> /\ Place(w, S[slot], part) = h + m
        BY <2>1, Zenon DEF PostOK
      <3>2. S2[slot] = S[slot]
        BY <3>1
      <3>3. HeldFrom(w, s, S2, slot)
        BY <3>1, <3>2 DEF HeldFrom
      <3>4. (post \o more)[h] = <<slot, part>> /\ Place(w, S2[slot], part) = h + m
        BY <1>3, <2>1, <3>1, <3>2
      <3> QED
        BY <3>3, <3>4
    <2>2. CASE ~(h \in 1 .. l)
      <3> DEFINE part == h - l
      <3>1. part \in 1 .. Parts /\ h = l + part
        BY <1>1, <1>3, <1>8, <2>2
      <3> HIDE DEF part
      <3>2. (post \o more)[h] = <<x, part>>
        BY <1>2, <1>3, <3>1
      <3>3. Place(w, S2[x], part) = h + m
        BY <1>1, <1>6, <3>1
      <3>4. HeldFrom(w, s, S2, x)
        BY DEF HeldFrom
      <3> QED
        BY <3>1, <3>2, <3>3, <3>4
    <2> QED
      BY <2>1, <2>2
  <1>9. Len(post \o more) + m = Parts * Asked(w, s, n + 1)
    <2> DEFINE P2 == Parts * Asked(w, s, n + 1)
               l2 == Len(post \o more)
    <2>1. P2 = P + Parts /\ l2 = l + Parts
      BY <1>3, <1>5
    <2> HIDE DEF P2, l2, l
    <2>2. l2 + m = P2
      BY <1>1, <1>5, <2>1
    <2> QED
      BY <2>2 DEF P2, l2
  <1> HIDE DEF Slots
  <1>10. PostOK(w, s, n + 1, post \o more, m, S2, D2)
    BY <1>1, <1>3, <1>7, <1>8, <1>9, Zenon DEF PostOK
  <1> QED
    BY <1>10 DEF more
-----------------------------------------------------------------------------
\* The places in w of what is from s.
FromRank(w, s, n) == {j \in 1 .. n : w[j][2] = s}

\* The number of a fragment is its place among those from the same rank.
LEMMA NumberInInts ==
    ASSUME NEW w, NEW s, NEW n \in Nat, NEW i \in FromRank(w, s, n)
    PROVE  Number(w, i) = Cardinality(Before(i, FromRank(w, s, n), IntOrder(FromRank(w, s, n)))) + 1
  <1> DEFINE F == FromRank(w, s, n)
  <1>1. i \in Nat /\ i > 0 /\ i <= n /\ w[i][2] = s
    BY DEF FromRank
  <1>2. Number(w, i) = Asked(w, s, i - 1) + 1
    BY <1>1, AskedIs DEF Number
  <1>3. Before(i, F, IntOrder(F)) = {j \in 1 .. i - 1 : w[j][2] = s}
    BY <1>1 DEF Before, IntOrder, FromRank
  <1> QED
    BY <1>2, <1>3 DEF Asked

\* What a rank posts first is for its first fragments.
LEMMA FirstPostedOK ==
    ASSUME NEW w, IsLog(w), NEW s, NEW n, n = FirstRecvs(w), n \in 0 .. Len(w),
           NEW S, \A i \in Slots : S[i] = IF i <= n THEN i ELSE 0, n <= MaxTransfers,
           NEW D, \A i \in Slots : D[i] = EmptySlot
    PROVE  PostOK(w, s, n, FirstPosted(w, s), 0, S, D) /\ FirstSignals(w, s) = Asked(w, s, n)
  <1> Parts \in Nat \ {0} /\ MaxTransfers \in Nat
    BY OverlapSearchAssumption
  <1> DEFINE F == FromRank(w, s, n)
             a == Cardinality(F)
             at == SortedInts(F)
             post == FirstPosted(w, s)
  <1>1. n \in Nat
    BY DEF IsLog
  <1>2. FirstOf(w, s) = F /\ Asked(w, s, n) = a /\ FirstSignals(w, s) = a
    BY DEF FirstOf, Asked, FirstSignals, FromRank
  <1>3. a \in Nat /\ IsFiniteSet(F)
    <2>1. IsFiniteSet(1 .. n) /\ F \in SUBSET (1 .. n)
      BY <1>1, FS_Interval DEF FromRank
    <2> QED
      BY <2>1, FS_Subset, FS_CardinalityType
  <1>4. F \in SUBSET Int
    BY <1>1 DEF FromRank
  <1>16. \A i \in F : Number(w, i) = Cardinality(Before(i, F, IntOrder(F))) + 1
    BY <1>1, NumberInInts
  <1>5. StrictOrder(F, IntOrder(F)) /\ at = Sorted(F, IntOrder(F))
    BY <1>4, IntsInOrder
  <1>6. \A i \in F : Number(w, i) \in 1 .. a /\ at[Number(w, i)] = i
    <2> TAKE i \in F
    <2> DEFINE c == Cardinality(Before(i, F, IntOrder(F))) + 1
    <2> HIDE DEF F
    <2>1. Number(w, i) = c
      BY <1>16
    <2>2. c \in 1 .. a /\ Sorted(F, IntOrder(F))[c] = i
      <3> DEFINE R == IntOrder(F)
      <3>1. IsFiniteSet(F) /\ StrictOrder(F, R)
        BY <1>3, <1>5
      <3> HIDE DEF R
      <3>2. /\ Cardinality(Before(i, F, R)) + 1 \in 1 .. Cardinality(F)
            /\ Sorted(F, R)[Cardinality(Before(i, F, R)) + 1] = i
        BY <3>1, SortedAt
      <3> QED
        BY <3>2 DEF R
    <2> QED
      BY <1>5, <2>1, <2>2
  <1>7. \A k \in 1 .. a : at[k] \in F /\ Number(w, at[k]) = k
    <2> TAKE k \in 1 .. a
    <2> HIDE DEF F
    <2> DEFINE x == Sorted(F, IntOrder(F))[k]
    <2>3. x \in F /\ Cardinality(Before(x, F, IntOrder(F))) + 1 = k
      BY <1>3, <1>5, SortedIndex
    <2>1. at[k] \in F /\ Cardinality(Before(at[k], F, IntOrder(F))) + 1 = k
      BY <1>5, <2>3
    <2>2. Number(w, at[k]) = Cardinality(Before(at[k], F, IntOrder(F))) + 1
      BY <1>16, <2>1
    <2> QED
      BY <2>1, <2>2
  <1> DEFINE P == Parts * a
  <1>8. P \in Nat
    BY <1>3
  <1>9. post = [j \in 1 .. P |-> <<at[1 + (j - 1) \div Parts], 1 + ((j - 1) % Parts)>>]
    BY <1>2 DEF FirstPosted
  <1> HIDE DEF P, post, at
  <1>10. IsLog(post) /\ Len(post) = P
    BY <1>8, <1>9 DEF IsLog
  <1>11. \A k \in 1 .. a, p \in 1 .. Parts :
           At(k, p) \in 1 .. P => post[At(k, p)] = <<at[k], p>>
    <2> TAKE k \in 1 .. a, p \in 1 .. Parts
    <2> DEFINE j == At(k, p)
    <2>1. k \in Nat \ {0}
      BY <1>3
    <2>2. (j - 1) \div Parts = k - 1 /\ (j - 1) % Parts = p - 1
      BY <2>1, AtIs
    <2> HIDE DEF j
    <2>3. 1 + (j - 1) \div Parts = k /\ 1 + ((j - 1) % Parts) = p
      BY <2>1, <2>2
    <2>4. j \in 1 .. P => post[j] = <<at[1 + (j - 1) \div Parts], 1 + ((j - 1) % Parts)>>
      BY <1>9, Zenon
    <2> QED
      BY <2>3, <2>4 DEF j
  <1>12. ASSUME NEW slot \in Slots, NEW part \in 1 .. Parts, HeldFrom(w, s, S, slot)
         PROVE  Waiting(w, post, 0, S, D, slot, part)
    <2>1. slot \in F /\ S[slot] = slot
      BY <1>1, <1>12 DEF HeldFrom, Slots, FromRank
    <2>2. Number(w, slot) \in 1 .. a /\ at[Number(w, slot)] = slot
      BY <1>6, <2>1
    <2>3. slot \in 1 .. n /\ w[slot][2] = s
      BY <2>1 DEF FromRank
    <2>4. Place(w, slot, part) \in Nat \ {0} /\ Place(w, slot, part) <= P
      BY <1>1, <1>2, <2>3, PlaceIs DEF P
    <2>5. post[Place(w, slot, part)] = <<slot, part>>
      BY <1>8, <1>11, <2>2, <2>4 DEF Place
    <2>6. D[slot][part] = Nothing
      BY DEF EmptySlot
    <2>7. Place(w, slot, part) - 0 = Place(w, slot, part) /\ Place(w, slot, part) \in 1 .. P
      BY <1>8, <2>4
    <2> QED
      BY <1>10, <2>1, <2>5, <2>6, <2>7 DEF Waiting
  <1>13. ASSUME NEW h \in 1 .. Len(post)
         PROVE  \E slot \in Slots, part \in 1 .. Parts :
                  HeldFrom(w, s, S, slot) /\ post[h] = <<slot, part>> /\ Place(w, S[slot], part) = h + 0
    <2>1. h \in 1 .. Parts * a
      BY <1>10, <1>13 DEF P
    <2>2. PICK k \in 1 .. a, p \in 1 .. Parts : h = At(k, p)
      BY <1>3, <2>1, AtPlace
    <2>3. at[k] \in F /\ Number(w, at[k]) = k
      BY <1>7
    <2> DEFINE i == at[k]
    <2>4. i \in Slots /\ i \in 1 .. n /\ w[i][2] = s
      BY <1>1, <2>3 DEF Slots, FromRank
    <2>5. S[i] = i /\ i # 0
      BY <1>1, <2>4
    <2>6. post[h] = <<i, p>>
      BY <1>10, <1>11, <1>13, <2>2
    <2>7. Place(w, S[i], p) = h + 0
      <3>1. Place(w, i, p) = h
        BY <2>2, <2>3 DEF Place
      <3>2. h + 0 = h
        BY <1>13, <1>10, <1>8
      <3> QED
        BY <2>5, <3>1, <3>2
    <2>8. HeldFrom(w, s, S, i)
      BY <2>4, <2>5 DEF HeldFrom
    <2> HIDE DEF i
    <2> QED
      BY <2>4, <2>6, <2>7, <2>8
  <1>14. 0 \in Nat /\ Len(post) + 0 = Parts * Asked(w, s, n)
    BY <1>2, <1>8, <1>10 DEF P
  <1> HIDE DEF Slots, F
  <1>15. PostOK(w, s, n, post, 0, S, D)
    BY <1>10, <1>12, <1>13, <1>14, Zenon DEF PostOK
  <1> QED
    BY <1>2, <1>15 DEF post
-----------------------------------------------------------------------------
\* Fragments, by grid, rank and number.
Triples == Nat \X Nat \X Nat
FragmentOrder(K) == {p \in K \X K : FragmentBefore(p[1], p[2])}

\* A fragment is three numbers.
LEMMA TripleIs ==
    ASSUME NEW f \in Triples
    PROVE  f = <<f[1], f[2], f[3]>> /\ f[1] \in Nat /\ f[2] \in Nat /\ f[3] \in Nat
  BY DEF Triples

\* Fragments are strictly in order.
LEMMA FragmentsInOrder ==
    ASSUME NEW K \in SUBSET Triples
    PROVE  StrictOrder(K, FragmentOrder(K)) /\ InFragmentOrder(K) = Sorted(K, FragmentOrder(K))
  <1>1. ASSUME NEW k \in K
        PROVE  <<k, k>> \notin FragmentOrder(K)
    BY <1>1 DEF Triples, FragmentOrder, FragmentBefore
  <1>2. ASSUME NEW k \in K, NEW l \in K, NEW m \in K,
               <<k, l>> \in FragmentOrder(K), <<l, m>> \in FragmentOrder(K)
        PROVE  <<k, m>> \in FragmentOrder(K)
    BY <1>2 DEF Triples, FragmentOrder, FragmentBefore
  <1>3. ASSUME NEW k \in K, NEW l \in K, k # l
        PROVE  <<k, l>> \in FragmentOrder(K) \/ <<l, k>> \in FragmentOrder(K)
    <2>1. /\ k = <<k[1], k[2], k[3]>> /\ l = <<l[1], l[2], l[3]>>
          /\ k[1] \in Nat /\ k[2] \in Nat /\ k[3] \in Nat
          /\ l[1] \in Nat /\ l[2] \in Nat /\ l[3] \in Nat
      BY <1>3 DEF Triples
    <2>2. k[1] # l[1] \/ k[2] # l[2] \/ k[3] # l[3]
      BY <1>3, <2>1
    <2>3. FragmentBefore(k, l) \/ FragmentBefore(l, k)
      BY <2>1, <2>2 DEF FragmentBefore
    <2> QED
      BY <1>3, <2>3 DEF FragmentOrder
  <1> QED
    BY <1>1, <1>2, <1>3 DEF StrictOrder, InFragmentOrder, FragmentOrder

\* w has the elements of K in their order.
Enumerates(w, K) ==
    /\ IsLog(w) /\ Len(w) = Cardinality(K)
    /\ \A i \in 1 .. Len(w) : w[i] \in K
    /\ \A k \in K : \E i \in 1 .. Len(w) : w[i] = k
    /\ \A i, j \in 1 .. Len(w) : i < j => FragmentBefore(w[i], w[j])
    /\ \A i, j \in 1 .. Len(w) : i # j => w[i] # w[j]

\* Any finite set of fragments is in a sequence, without repetition.
LEMMA FragmentSeq ==
    ASSUME NEW K \in SUBSET Triples, IsFiniteSet(K)
    PROVE  Enumerates(InFragmentOrder(K), K)
  <1> DEFINE w == InFragmentOrder(K)
  <1> DEFINE R == FragmentOrder(K)
  <1>1. StrictOrder(K, R) /\ w = Sorted(K, R)
    BY FragmentsInOrder
  <1> HIDE DEF R, w
  <1>2. IsLog(w) /\ Len(w) = Cardinality(K) /\ Len(w) \in Nat
    BY <1>1, SortedIsLog, FS_CardinalityType
  <1>3. /\ w \in [1 .. Len(w) -> K]
        /\ \A k \in K : \E i \in 1 .. Len(w) : w[i] = k
        /\ \A i, j \in 1 .. Len(w) : i < j => <<w[i], w[j]>> \in R
    BY <1>1, <1>2, SortedInOrder
  <1>4. \A i, j \in 1 .. Len(w) : i < j => FragmentBefore(w[i], w[j])
    BY <1>3 DEF R, FragmentOrder
  <1>5. \A i \in 1 .. Len(w) : w[i] \in K
    BY <1>3
  <1>6. \A i, j \in 1 .. Len(w) : i < j => w[i] # w[j]
    BY <1>1, <1>3, <1>5 DEF StrictOrder
  <1>7. \A i, j \in 1 .. Len(w) : i # j => w[i] # w[j]
    BY <1>2, <1>6
  <1> QED
    BY <1>2, <1>3, <1>4, <1>5, <1>7 DEF Enumerates, w

\* Of what a rank gets from another one, the next is, there, the next that it sends.
LEMMA SentIs ==
    ASSUME NEW W \in SUBSET Triples, IsFiniteSet(W), NEW r \in Nat, NEW s \in Nat, s # r,
           NEW w, w = InFragmentOrder({f \in W : f[2] # r}),
           NEW K, K = {<<f[1], r, f[3]>> : f \in {e \in W : e[2] = s}},
           NEW i \in 1 .. Len(w), w[i][2] = s
    PROVE  Sent(s, InFragmentOrder(K)[Number(w, i)]) = w[i]
  <1> DEFINE K1 == {f \in W : f[2] # r}
  <1>1. IsFiniteSet(K1) /\ K1 \in SUBSET Triples
    <2>1. K1 \in SUBSET W
      OBVIOUS
    <2> QED
      BY <2>1, FS_Subset
  <1>2. /\ IsLog(w)
        /\ \A j \in 1 .. Len(w) : w[j] \in K1
        /\ \A k \in K1 : \E j \in 1 .. Len(w) : w[j] = k
        /\ \A j, k \in 1 .. Len(w) : j < k => FragmentBefore(w[j], w[k])
        /\ \A j, k \in 1 .. Len(w) : j # k => w[j] # w[k]
    <2>1. Enumerates(InFragmentOrder(K1), K1)
      <3> HIDE DEF K1
      <3> QED
        BY <1>1, FragmentSeq
    <2>2. Enumerates(w, K1)
      BY <2>1
    <2> HIDE DEF K1
    <2> QED
      BY <2>2 DEF Enumerates
  <1>3. Len(w) \in Nat /\ i \in Nat /\ i > 0 /\ i <= Len(w)
    BY <1>2 DEF IsLog
  <1> DEFINE f == w[i]
             g == <<f[1], r, f[3]>>
             A == {j \in 1 .. i - 1 : w[j][2] = s}
             B == Before(g, K, FragmentOrder(K))
             h == [j \in A |-> <<w[j][1], r, w[j][3]>>]
  <1>4. f \in W /\ f[2] = s /\ f = <<f[1], s, f[3]>> /\ f[1] \in Nat /\ f[3] \in Nat
    <2>1. f \in W /\ f \in Triples
      BY <1>2
    <2> QED
      BY <2>1, TripleIs
  <1>5. K \in SUBSET Triples
    BY DEF Triples
  <1>6. g \in K
    BY <1>4
  <1>7. \A j \in A : /\ j \in 1 .. Len(w) /\ j < i /\ w[j] \in W /\ w[j][2] = s
                     /\ w[j] = <<w[j][1], s, w[j][3]>> /\ w[j][1] \in Nat /\ w[j][3] \in Nat
    <2> TAKE j \in A
    <2>1. j \in 1 .. Len(w) /\ j < i /\ w[j][2] = s
      BY <1>3
    <2>2. w[j] \in W /\ w[j] \in Triples
      BY <1>2, <2>1
    <2>3. w[j] = <<w[j][1], w[j][2], w[j][3]>> /\ w[j][1] \in Nat /\ w[j][3] \in Nat
      BY <2>2, TripleIs
    <2> QED
      BY <2>1, <2>2, <2>3
  <1>8. \A j \in A : <<w[j][1], r, w[j][3]>> \in B
    <2> TAKE j \in A
    <2> DEFINE x == <<w[j][1], r, w[j][3]>>
    <2>1. x \in K
      <3>1. w[j] \in {e \in W : e[2] = s}
        BY <1>7
      <3> QED
        BY <3>1
    <2>2. FragmentBefore(w[j], f)
      BY <1>2, <1>7
    <2>3. FragmentBefore(x, g)
      BY <1>4, <1>7, <2>2 DEF FragmentBefore
    <2> HIDE DEF x, g
    <2> QED
      BY <1>6, <2>1, <2>3 DEF Before, FragmentOrder, x
  <1>19. h \in [A -> B]
    <2> HIDE DEF A, B
    <2> QED
      BY <1>8
  <1>9. \A j, k \in A : h[j] = h[k] => j = k
    <2> TAKE j, k \in A
    <2>1. h[j] = h[k] => w[j] = w[k]
      BY <1>7
    <2> QED
      BY <1>2, <1>7, <2>1
  <1>10. \A y \in B : \E j \in A : h[j] = y
    <2> TAKE y \in B
    <2>1. y \in K /\ FragmentBefore(y, g)
      BY DEF Before, FragmentOrder
    <2>2. PICK e \in W : e[2] = s /\ y = <<e[1], r, e[3]>>
      BY <2>1
    <2>3. e = <<e[1], s, e[3]>> /\ e[1] \in Nat /\ e[3] \in Nat /\ e \in K1
      BY <2>2 DEF Triples
    <2>4. FragmentBefore(e, f)
      BY <1>4, <2>1, <2>2, <2>3 DEF FragmentBefore
    <2>5. PICK j \in 1 .. Len(w) : w[j] = e
      BY <1>2, <2>3
    <2>6. ~FragmentBefore(f, e) /\ e # f
      BY <1>4, <2>3, <2>4 DEF FragmentBefore
    <2>7. j < i
      BY <1>2, <1>3, <2>5, <2>6
    <2>8. j \in A
      BY <1>3, <2>2, <2>5, <2>7
    <2>9. h[j] = <<w[j][1], r, w[j][3]>>
      BY <2>8
    <2> QED
      BY <2>2, <2>5, <2>8, <2>9
  <1> HIDE DEF h, B, g, f
  <1>11. h \in Bijection(A, B)
    BY <1>19, <1>9, <1>10, Zenon DEF Bijection, Injection, Surjection, IsInjective
  <1>12. IsFiniteSet(A)
    <2>1. IsFiniteSet(1 .. i - 1)
      <3>1. 1 \in Int /\ i - 1 \in Int
        BY <1>3
      <3> QED
        BY <3>1, FS_Interval, Zenon
    <2>2. A \in SUBSET (1 .. i - 1)
      BY <1>3
    <2> QED
      BY <2>1, <2>2, FS_Subset
  <1>13. Cardinality(B) = Cardinality(A)
    BY <1>11, <1>12, FS_Bijection DEF ExistsBijection
  <1>14. Number(w, i) = Cardinality(A) + 1
    <2>1. Number(w, i) = Asked(w, s, i - 1) + 1
      BY <1>3, AskedIs DEF Number
    <2> QED
      BY <2>1 DEF Asked
  <1>15. IsFiniteSet(K)
    <2> DEFINE V == {e \in W : e[2] = s}
               q == [e \in V |-> <<e[1], r, e[3]>>]
    <2>1. IsFiniteSet(V)
      <3>1. V \in SUBSET W
        OBVIOUS
      <3> QED
        BY <3>1, FS_Subset
    <2>2. q \in [V -> K] /\ \A y \in K : \E e \in V : q[e] = y
      OBVIOUS
    <2> HIDE DEF q, V
    <2>3. q \in Surjection(V, K)
      BY <2>2, Zenon DEF Surjection
    <2> QED
      BY <2>1, <2>3, FS_Surjection
  <1>16. Sorted(K, FragmentOrder(K))[Cardinality(B) + 1] = g
    BY <1>5, <1>6, <1>15, FragmentsInOrder, SortedAt DEF B
  <1>17. InFragmentOrder(K)[Number(w, i)] = g
    BY <1>5, <1>13, <1>14, <1>16, FragmentsInOrder
  <1>18. Sent(s, g) = f
    BY <1>4 DEF Sent, g
  <1> QED
    BY <1>17, <1>18 DEF f
-----------------------------------------------------------------------------
\* What is between a rank and s: every fragment that is asked for of s is signalled, on the way or
\* not yet seen, or it is sent; receives and messages belong together, in their order.
PairOK(w, s, n, S, D, post, fly, sig, a, line) ==
    /\ fly \in Nat /\ sig \in Nat /\ a \in Nat /\ fly + sig + a = Asked(w, s, n)
    /\ \E m \in Nat : LineOK(w, s, m, a, line) /\ PostOK(w, s, n, post, m, S, D)

\* What has been searched: those asked for that are not in a slot, and the first few at home.
SearchedOK(w, l, n, nl, S, F) ==
    /\ \A f \in DOMAIN F :
         IsLog(F[f]) /\ ((\E i \in 1 .. Len(w) : w[i] = f) \/ (\E i \in 1 .. Len(l) : l[i] = f))
    /\ \A i \in 1 .. Len(w) : /\ w[i] \in DOMAIN F
                              /\ Len(F[w[i]]) = IF i <= n /\ \A slot \in Slots : S[slot] # i THEN 1 ELSE 0
    /\ \A i \in 1 .. Len(l) : l[i] \in DOMAIN F /\ Len(F[l[i]]) = IF i <= nl THEN 1 ELSE 0

\* In a rank: no slot is free while there are fragments that are not asked for.
RankOK(w, l, n, nl, S, D, F) ==
    /\ SlotsOK(w, n, S) /\ S = [slot \in Slots |-> S[slot]]
    /\ D = [slot \in Slots |-> [part \in 1 .. Parts |-> D[slot][part]]]
    /\ \A slot \in Slots : S[slot] = 0 => n = Len(w)
    /\ nl \in 0 .. Len(l)
    /\ SearchedOK(w, l, n, nl, S, F)

\* The fragments that a rank fetches, and those it has, are all different.
EntriesOK(w, l) ==
    /\ IsLog(w) /\ IsLog(l)
    /\ \A i, j \in 1 .. Len(w) : i # j => w[i] # w[j]
    /\ \A i, j \in 1 .. Len(l) : i # j => l[i] # l[j]
    /\ \A i \in 1 .. Len(w), j \in 1 .. Len(l) : w[i] # l[j]
    /\ \A i \in 1 .. Len(w) : w[i] # Nothing

\* The signals that are there are answered.
LEMMA PairAnswered ==
    ASSUME NEW w, Len(w) \in Nat, NEW s, NEW n, NEW S, NEW D, NEW post, NEW fly, NEW sig, NEW a, NEW line,
           PairOK(w, s, n, S, D, post, fly, sig, a, line),
           NEW answer, AnswersFor(w, s, answer), NEW more, Answered(more, answer, a, sig)
    PROVE  PairOK(w, s, n, S, D, post, fly, 0, a + sig, line \o more)
  <1>1. /\ fly \in Nat /\ sig \in Nat /\ a \in Nat /\ fly + sig + a = Asked(w, s, n)
        /\ \E m \in Nat : LineOK(w, s, m, a, line) /\ PostOK(w, s, n, post, m, S, D)
    BY DEF PairOK
  <1>2. 0 \in Nat /\ a + sig \in Nat /\ fly + 0 + (a + sig) = Asked(w, s, n)
    BY <1>1
  <1>3. PICK m \in Nat : LineOK(w, s, m, a, line) /\ PostOK(w, s, n, post, m, S, D)
    BY <1>1
  <1>4. LineOK(w, s, m, a + sig, line \o more)
    BY <1>1, <1>3, LineGrows
  <1> QED
    BY <1>1, <1>2, <1>3, <1>4 DEF PairOK

\* A signal arrives.
LEMMA PairSignalled ==
    ASSUME NEW w, NEW s, NEW n, NEW S, NEW D, NEW post, NEW fly, NEW sig, NEW a, NEW line,
           PairOK(w, s, n, S, D, post, fly, sig, a, line), fly > 0
    PROVE  PairOK(w, s, n, S, D, post, fly - 1, sig + 1, a, line)
  <1>1. fly \in Nat /\ sig \in Nat /\ a \in Nat /\ fly + sig + a = Asked(w, s, n)
    BY DEF PairOK
  <1>2. fly - 1 \in Nat /\ sig + 1 \in Nat /\ (fly - 1) + (sig + 1) + a = Asked(w, s, n)
    BY <1>1
  <1> QED
    BY <1>1, <1>2 DEF PairOK

\* What a message and the receive it meets are.
LEMMA PairMeets ==
    ASSUME NEW w, Len(w) \in Nat, NEW s, NEW n, NEW S, NEW D, NEW post, NEW fly, NEW sig, NEW a, NEW line,
           PairOK(w, s, n, S, D, post, fly, sig, a, line), SlotsOK(w, n, S), Len(line) > 0, Len(post) > 0
    PROVE  \E x \in Slots, y \in 1 .. Parts :
             HeldFrom(w, s, S, x) /\ Head(post) = <<x, y>> /\ Head(line) = w[S[x]]
  <1>1. PICK m \in Nat : LineOK(w, s, m, a, line) /\ PostOK(w, s, n, post, m, S, D)
    BY DEF PairOK
  <1>2. PICK x \in Slots, y \in 1 .. Parts :
          HeldFrom(w, s, S, x) /\ Head(post) = <<x, y>> /\ Place(w, S[x], y) = m + 1
    BY <1>1, PostHead
  <1>3. S[x] \in 1 .. Len(w) /\ w[S[x]][2] = s
    <2>1. S[x] \in 0 .. n /\ n \in 0 .. Len(w) /\ S[x] # 0 /\ w[S[x]][2] = s
      BY <1>2 DEF HeldFrom, SlotsOK
    <2> QED
      BY <2>1
  <1>4. Head(line) = w[S[x]]
    BY <1>1, <1>2, <1>3, LineHead
  <1> QED
    BY <1>2, <1>4

\* A message meets a receive.
LEMMA PairReceives ==
    ASSUME NEW w, Len(w) \in Nat, NEW s, NEW n, NEW S, NEW D, NEW post, NEW fly, NEW sig, NEW a, NEW line,
           PairOK(w, s, n, S, D, post, fly, sig, a, line), SlotsOK(w, n, S), Len(line) > 0, Len(post) > 0,
           NEW x \in Slots, NEW y \in 1 .. Parts, Head(post) = <<x, y>>, NEW D2, D2[x][y] = w[S[x]],
           \A slot \in Slots, part \in 1 .. Parts :
              <<slot, part>> # <<x, y>> => D2[slot][part] = D[slot][part]
    PROVE  PairOK(w, s, n, S, D2, Tail(post), fly, sig, a, Tail(line))
  <1>1. PICK m \in Nat : LineOK(w, s, m, a, line) /\ PostOK(w, s, n, post, m, S, D)
    BY DEF PairOK
  <1>2. LineOK(w, s, m + 1, a, Tail(line))
    BY <1>1, LineShrinks
  <1>3. PostOK(w, s, n, Tail(post), m + 1, S, D2)
    BY <1>1, PostShrinks
  <1>4. m + 1 \in Nat
    OBVIOUS
  <1> QED
    BY <1>2, <1>3, <1>4 DEF PairOK

\* A slot that is not for s, or that has received all of its parts, becomes one that is not for s.
LEMMA PairStays ==
    ASSUME NEW w, NEW s, NEW n, NEW S, NEW D, NEW post, NEW fly, NEW sig, NEW a, NEW line,
           PairOK(w, s, n, S, D, post, fly, sig, a, line),
           NEW x \in Slots, \A part \in 1 .. Parts : HeldFrom(w, s, S, x) => D[x][part] # Nothing,
           NEW S2, NEW D2, ~HeldFrom(w, s, S2, x),
           \A slot \in Slots : slot # x => S2[slot] = S[slot] /\ D2[slot] = D[slot],
           NEW n2, Asked(w, s, n2) = Asked(w, s, n)
    PROVE  PairOK(w, s, n2, S2, D2, post, fly, sig, a, line)
  <1>1. PICK m \in Nat : LineOK(w, s, m, a, line) /\ PostOK(w, s, n, post, m, S, D)
    BY DEF PairOK
  <1>2. PostOK(w, s, n2, post, m, S2, D2)
    BY <1>1, PostStays
  <1> QED
    BY <1>1, <1>2 DEF PairOK

\* A slot that is not for s is given the next fragment, from s.
LEMMA PairGrows ==
    ASSUME NEW w, NEW s, NEW n \in Nat, NEW S, NEW D, NEW post, NEW fly, NEW sig, NEW a, NEW line,
           PairOK(w, s, n, S, D, post, fly, sig, a, line),
           NEW x \in Slots, ~HeldFrom(w, s, S, x),
           NEW S2, NEW D2, S2[x] = n + 1, w[n + 1][2] = s, \A part \in 1 .. Parts : D2[x][part] = Nothing,
           \A slot \in Slots : slot # x => S2[slot] = S[slot] /\ D2[slot] = D[slot]
    PROVE  PairOK(w, s, n + 1, S2, D2, post \o PartsOf(x), fly + 1, sig, a, line)
  <1>1. PICK m \in Nat : LineOK(w, s, m, a, line) /\ PostOK(w, s, n, post, m, S, D)
    BY DEF PairOK
  <1>2. PostOK(w, s, n + 1, post \o PartsOf(x), m, S2, D2)
    BY <1>1, PostGrows
  <1>3. fly \in Nat /\ sig \in Nat /\ a \in Nat /\ fly + sig + a = Asked(w, s, n)
    BY DEF PairOK
  <1>4. Asked(w, s, n + 1) = Asked(w, s, n) + 1 /\ Asked(w, s, n) \in Nat
    <2>1. n + 1 \in Nat /\ n + 1 > 0 /\ (n + 1) - 1 = n
      OBVIOUS
    <2> QED
      BY <2>1, AskedIs
  <1>5. fly + 1 \in Nat /\ (fly + 1) + sig + a = Asked(w, s, n + 1)
    BY <1>3, <1>4
  <1> QED
    BY <1>1, <1>2, <1>3, <1>5 DEF PairOK
-----------------------------------------------------------------------------
\* A fragment of a slot is searched, and the slot gets the next one or is free.
LEMMA RankSearches ==
    ASSUME NEW w, NEW l, EntriesOK(w, l), NEW n, NEW nl, NEW S, NEW D, NEW F, RankOK(w, l, n, nl, S, D, F),
           NEW x \in Slots, S[x] # 0, NEW v, NEW F2, F2 = [F EXCEPT ![w[S[x]]] = Append(@, v)],
           NEW n2, NEW S2, S2 = [S EXCEPT ![x] = IF n2 = n THEN 0 ELSE n + 1],
           NEW D2, D2 = [slot \in Slots |-> [part \in 1 .. Parts |-> D2[slot][part]]],
           (n2 = n /\ n = Len(w)) \/ (n2 = n + 1 /\ n < Len(w))
    PROVE  RankOK(w, l, n2, nl, S2, D2, F2)
  <1> DEFINE i == S[x]
  <1>1. /\ IsLog(w) /\ Len(w) \in Nat /\ n \in 0 .. Len(w) /\ S = [slot \in Slots |-> S[slot]]
        /\ \A slot \in Slots : S[slot] \in 0 .. n
        /\ \A y, z \in Slots : y # z /\ S[y] # 0 => S[y] # S[z]
        /\ \A slot \in Slots : S[slot] = 0 => n = Len(w)
        /\ nl \in 0 .. Len(l) /\ SearchedOK(w, l, n, nl, S, F)
    BY DEF RankOK, SlotsOK, IsLog
  <1>2. i \in 1 .. n /\ i \in 1 .. Len(w)
    BY <1>1
  <1>3. n2 \in 0 .. Len(w) /\ n <= n2 /\ (n2 = n => n = Len(w)) /\ (n2 # n => n2 = n + 1)
    BY <1>1
  <1>4. /\ S2 = [slot \in Slots |-> S2[slot]]
        /\ \A slot \in Slots : slot # x => S2[slot] = S[slot]
        /\ S2[x] = IF n2 = n THEN 0 ELSE n + 1
    BY <1>1
  <1>5. SlotsOK(w, n2, S2)
    <2>1. \A slot \in Slots : S2[slot] \in 0 .. n2
      BY <1>1, <1>3, <1>4
    <2>2. \A y, z \in Slots : y # z /\ S2[y] # 0 => S2[y] # S2[z]
      BY <1>1, <1>3, <1>4
    <2> QED
      BY <1>1, <1>3, <2>1, <2>2 DEF SlotsOK
  <1>6. \A slot \in Slots : S2[slot] = 0 => n2 = Len(w)
    BY <1>1, <1>3, <1>4
  <1>7. w[i] \in DOMAIN F /\ IsLog(F[w[i]]) /\ Len(F[w[i]]) = 0
    <2>1. w[i] \in DOMAIN F /\ Len(F[w[i]]) = 0
      BY <1>1, <1>2 DEF SearchedOK
    <2> QED
      BY <1>1, <2>1 DEF SearchedOK
  <1>8. IsLog(Append(F[w[i]], v)) /\ Len(Append(F[w[i]], v)) = 1
    <2> DEFINE q == F[w[i]]
    <2>1. IsLog(q) /\ Len(q) = 0
      BY <1>7
    <2> HIDE DEF q
    <2>2. IsLog(Append(q, v)) /\ Len(Append(q, v)) = Len(q) + 1
      BY <2>1, LogAppended
    <2>3. Len(Append(q, v)) = 1
      BY <2>1, <2>2
    <2> QED
      BY <2>2, <2>3 DEF q
  <1>9. /\ DOMAIN F2 = DOMAIN F
        /\ \A f \in DOMAIN F : f # w[i] => F2[f] = F[f]
        /\ F2[w[i]] = Append(F[w[i]], v)
    <2> DEFINE f == w[i]
    <2>1. f \in DOMAIN F /\ F2 = [F EXCEPT ![f] = Append(F[f], v)]
      BY <1>7
    <2> HIDE DEF f
    <2>2. /\ DOMAIN F2 = DOMAIN F
          /\ \A g \in DOMAIN F : g # f => F2[g] = F[g]
          /\ F2[f] = Append(F[f], v)
      BY <2>1
    <2> QED
      BY <2>2 DEF f
  <1>10. \A f \in DOMAIN F2 :
           IsLog(F2[f]) /\ ((\E j \in 1 .. Len(w) : w[j] = f) \/ (\E j \in 1 .. Len(l) : l[j] = f))
    <2> TAKE f \in DOMAIN F2
    <2>1. IsLog(F[f]) /\ ((\E j \in 1 .. Len(w) : w[j] = f) \/ (\E j \in 1 .. Len(l) : l[j] = f))
      BY <1>1, <1>9, Zenon DEF SearchedOK
    <2>2. IsLog(F2[f])
      BY <1>8, <1>9, <2>1
    <2> QED
      BY <2>1, <2>2
  <1>11. \A j \in 1 .. Len(w) :
           /\ w[j] \in DOMAIN F2
           /\ Len(F2[w[j]]) = IF j <= n2 /\ \A slot \in Slots : S2[slot] # j THEN 1 ELSE 0
    <2> TAKE j \in 1 .. Len(w)
    <2>1. w[j] \in DOMAIN F /\ Len(F[w[j]]) = IF j <= n /\ \A slot \in Slots : S[slot] # j THEN 1 ELSE 0
      BY <1>1 DEF SearchedOK
    <2>2. CASE j = i
      <3>1. \A slot \in Slots : S2[slot] # i
        BY <1>1, <1>2, <1>4
      <3>2. i <= n2
        BY <1>1, <1>2, <1>3
      <3>3. Len(F2[w[i]]) = 1 /\ w[i] \in DOMAIN F2
        BY <1>7, <1>8, <1>9
      <3> QED
        BY <2>2, <3>1, <3>2, <3>3
    <2>3. CASE j # i
      <3>1. F2[w[j]] = F[w[j]] /\ w[j] \in DOMAIN F2
        BY <1>2, <1>9, <2>1, <2>3 DEF EntriesOK
      <3>2. (j <= n2 /\ \A slot \in Slots : S2[slot] # j) <=> (j <= n /\ \A slot \in Slots : S[slot] # j)
        <4>1. CASE j <= n
          <5>1. j <= n2 /\ j # n + 1 /\ j # 0
            BY <1>1, <1>3, <4>1
          <5>2. \A slot \in Slots : S2[slot] = j <=> S[slot] = j
            BY <1>4, <2>3, <5>1
          <5> QED
            BY <4>1, <5>1, <5>2
        <4>2. CASE ~(j <= n)
          <5>1. ASSUME j <= n2
                PROVE  S2[x] = j
            BY <1>1, <1>3, <1>4, <4>2, <5>1
          <5> QED
            BY <4>2, <5>1
        <4> QED
          BY <4>1, <4>2
      <3> QED
        BY <2>1, <3>1, <3>2
    <2> QED
      BY <2>2, <2>3
  <1>12. \A j \in 1 .. Len(l) : l[j] \in DOMAIN F2 /\ Len(F2[l[j]]) = IF j <= nl THEN 1 ELSE 0
    <2> TAKE j \in 1 .. Len(l)
    <2>1. l[j] \in DOMAIN F /\ Len(F[l[j]]) = IF j <= nl THEN 1 ELSE 0
      BY <1>1 DEF SearchedOK
    <2>2. l[j] # w[i]
      BY <1>2 DEF EntriesOK
    <2> QED
      BY <1>9, <2>1, <2>2
  <1>13. SearchedOK(w, l, n2, nl, S2, F2)
    BY <1>10, <1>11, <1>12, Zenon DEF SearchedOK
  <1> QED
    BY <1>1, <1>4, <1>5, <1>6, <1>13 DEF RankOK

\* A fragment of the rank itself is searched.
LEMMA RankSearchesLocal ==
    ASSUME NEW w, NEW l, EntriesOK(w, l), NEW n, NEW nl, NEW S, NEW D, NEW F, RankOK(w, l, n, nl, S, D, F),
           nl # Len(l), NEW v, NEW F2, F2 = [F EXCEPT ![l[nl + 1]] = Append(@, v)]
    PROVE  RankOK(w, l, n, nl + 1, S, D, F2)
  <1> DEFINE i == nl + 1
  <1>1. nl \in 0 .. Len(l) /\ SearchedOK(w, l, n, nl, S, F) /\ Len(l) \in Nat
    BY DEF RankOK, EntriesOK, IsLog
  <1>2. i \in 1 .. Len(l) /\ i \in 0 .. Len(l) /\ ~(i <= nl)
    BY <1>1
  <1>7. l[i] \in DOMAIN F /\ IsLog(F[l[i]]) /\ Len(F[l[i]]) = 0
    <2>1. l[i] \in DOMAIN F /\ Len(F[l[i]]) = 0
      BY <1>1, <1>2 DEF SearchedOK
    <2> QED
      BY <1>1, <2>1 DEF SearchedOK
  <1>8. IsLog(Append(F[l[i]], v)) /\ Len(Append(F[l[i]], v)) = 1
    <2> DEFINE q == F[l[i]]
    <2>1. IsLog(q) /\ Len(q) = 0
      BY <1>7
    <2> HIDE DEF q
    <2>2. IsLog(Append(q, v)) /\ Len(Append(q, v)) = Len(q) + 1
      BY <2>1, LogAppended
    <2>3. Len(Append(q, v)) = 1
      BY <2>1, <2>2
    <2> QED
      BY <2>2, <2>3 DEF q
  <1>9. /\ DOMAIN F2 = DOMAIN F
        /\ \A f \in DOMAIN F : f # l[i] => F2[f] = F[f]
        /\ F2[l[i]] = Append(F[l[i]], v)
    <2> DEFINE f == l[i]
    <2>1. f \in DOMAIN F /\ F2 = [F EXCEPT ![f] = Append(F[f], v)]
      BY <1>7
    <2> HIDE DEF f
    <2>2. /\ DOMAIN F2 = DOMAIN F
          /\ \A g \in DOMAIN F : g # f => F2[g] = F[g]
          /\ F2[f] = Append(F[f], v)
      BY <2>1
    <2> QED
      BY <2>2 DEF f
  <1>10. \A f \in DOMAIN F2 :
           IsLog(F2[f]) /\ ((\E j \in 1 .. Len(w) : w[j] = f) \/ (\E j \in 1 .. Len(l) : l[j] = f))
    <2> TAKE f \in DOMAIN F2
    <2>1. IsLog(F[f]) /\ ((\E j \in 1 .. Len(w) : w[j] = f) \/ (\E j \in 1 .. Len(l) : l[j] = f))
      BY <1>1, <1>9, Zenon DEF SearchedOK
    <2>2. IsLog(F2[f])
      BY <1>8, <1>9, <2>1
    <2> QED
      BY <2>1, <2>2
  <1>11. \A j \in 1 .. Len(w) :
           /\ w[j] \in DOMAIN F2
           /\ Len(F2[w[j]]) = IF j <= n /\ \A slot \in Slots : S[slot] # j THEN 1 ELSE 0
    <2> TAKE j \in 1 .. Len(w)
    <2>1. w[j] \in DOMAIN F /\ Len(F[w[j]]) = IF j <= n /\ \A slot \in Slots : S[slot] # j THEN 1 ELSE 0
      BY <1>1 DEF SearchedOK
    <2>2. w[j] # l[i]
      BY <1>2 DEF EntriesOK
    <2> QED
      BY <1>9, <2>1, <2>2
  <1>12. \A j \in 1 .. Len(l) : l[j] \in DOMAIN F2 /\ Len(F2[l[j]]) = IF j <= i THEN 1 ELSE 0
    <2> TAKE j \in 1 .. Len(l)
    <2>1. l[j] \in DOMAIN F /\ Len(F[l[j]]) = IF j <= nl THEN 1 ELSE 0
      BY <1>1 DEF SearchedOK
    <2>2. CASE j = i
      BY <1>2, <1>7, <1>8, <1>9, <2>2
    <2>3. CASE j # i
      <3>1. F2[l[j]] = F[l[j]] /\ (j <= i <=> j <= nl)
        BY <1>1, <1>2, <1>9, <2>1, <2>3 DEF EntriesOK
      <3> QED
        BY <1>9, <2>1, <3>1
    <2> QED
      BY <2>2, <2>3
  <1>13. SearchedOK(w, l, n, i, S, F2)
    BY <1>10, <1>11, <1>12, Zenon DEF SearchedOK
  <1> QED
    BY <1>2, <1>13 DEF RankOK
-----------------------------------------------------------------------------
\* What s sends to r.
AnswersTo(s, r) == [k \in Nat |-> Sent(s, Answer(s, r, k))]

\* What the ranks have to do: it does not change in the loop.
WorkOK ==
    \A r \in Ranks :
      /\ EntriesOK(Recvs(r), Locals(r))
      /\ \A i \in 1 .. Len(Recvs(r)) : Recvs(r)[i][2] \in Ranks
      /\ \A s \in Ranks : AnswersFor(Recvs(r), s, AnswersTo(s, r))

\* Tables have an entry for each rank, and for each two.
OnRanks(R, f) == f = [r \in R |-> f[r]]
OnPairs(R, f) == f = [r \in R |-> [s \in R |-> f[r][s]]]
TablesOK ==
    /\ OnRanks(Ranks, nextRecv) /\ OnRanks(Ranks, nextLocal) /\ OnRanks(Ranks, slots)
    /\ OnRanks(Ranks, data) /\ OnRanks(Ranks, searched)
    /\ OnPairs(Ranks, posted) /\ OnPairs(Ranks, flying) /\ OnPairs(Ranks, signals)
    /\ OnPairs(Ranks, wire) /\ OnPairs(Ranks, answered)

\* All ranks, and all pairs of them.
RanksOK ==
    \A r \in Ranks :
      RankOK(Recvs(r), Locals(r), nextRecv[r], nextLocal[r], slots[r], data[r], searched[r])

PairsOK ==
    \A r, s \in Ranks :
      PairOK(Recvs(r), s, nextRecv[r], slots[r], data[r], posted[r][s], flying[r][s],
             signals[r][s], answered[s][r], wire[s][r])

\* When signals have been listed in another order, messages may have met other receives: what
\* is left then is what each rank has of its own.
TransferOK == WorkOK /\ TablesOK /\ RanksOK /\ (inOrder => PairsOK)

\* Before the loop.
StartOK ==
    /\ nextLocal = [r \in Ranks |-> 0]
    /\ data = [r \in Ranks |-> [slot \in Slots |-> EmptySlot]]
    /\ wire = [s \in Ranks |-> [r \in Ranks |-> <<>>]]
    /\ signals = [r \in Ranks |-> [s \in Ranks |-> 0]]
    /\ answered = [s \in Ranks |-> [r \in Ranks |-> 0]]

\* The inductive invariant.
SearchInv ==
    /\ here \in Cases
    /\ stage \in {"hash", "connect"} => StartOK
    /\ stage = "transfer" => TransferOK
-----------------------------------------------------------------------------
\* What a buffer holds is what its slot is for.
LEMMA PairHolds ==
    ASSUME NEW w, NEW s, NEW n, NEW S, NEW D, NEW post, NEW fly, NEW sig, NEW a, NEW line,
           PairOK(w, s, n, S, D, post, fly, sig, a, line),
           NEW x \in Slots, NEW y \in 1 .. Parts, HeldFrom(w, s, S, x)
    PROVE  D[x][y] \in {Nothing, w[S[x]]}
  <1>1. PICK m \in Nat : PostOK(w, s, n, post, m, S, D)
    BY DEF PairOK
  <1>2. Waiting(w, post, m, S, D, x, y) \/ There(w, m, S, D, x, y)
    BY <1>1, Zenon DEF PostOK
  <1> QED
    BY <1>2 DEF Waiting, There

\* No fragment is searched twice, and at the end of the loop all have been searched.
LEMMA RankDone ==
    ASSUME NEW w, NEW l, EntriesOK(w, l), NEW n, NEW nl, NEW S, NEW D, NEW F, RankOK(w, l, n, nl, S, D, F),
           NEW f \in DOMAIN F
    PROVE  /\ Len(F[f]) <= 1
           /\ nl = Len(l) /\ (\A slot \in Slots : S[slot] = 0) => Len(F[f]) = 1
  <1>1. SearchedOK(w, l, n, nl, S, F) /\ Len(w) \in Nat /\ Len(l) \in Nat
    BY DEF RankOK, EntriesOK, IsLog
  <1>2. (\E i \in 1 .. Len(w) : w[i] = f) \/ (\E i \in 1 .. Len(l) : l[i] = f)
    BY <1>1, Zenon DEF SearchedOK
  <1>3. CASE \E i \in 1 .. Len(w) : w[i] = f
    <2>1. PICK i \in 1 .. Len(w) : w[i] = f
      BY <1>3
    <2>2. Len(F[f]) = IF i <= n /\ \A slot \in Slots : S[slot] # i THEN 1 ELSE 0
      BY <1>1, <2>1 DEF SearchedOK
    <2>3. ASSUME \A slot \in Slots : S[slot] = 0
          PROVE  i <= n /\ \A slot \in Slots : S[slot] # i
      <3>1. 1 \in Slots
        BY OverlapSearchAssumption DEF Slots
      <3>2. n = Len(w)
        BY <2>3, <3>1 DEF RankOK
      <3>3. i # 0 /\ i <= n
        BY <1>1, <3>2
      <3> QED
        BY <2>3, <3>3
    <2> QED
      BY <2>2, <2>3
  <1>4. CASE \E i \in 1 .. Len(l) : l[i] = f
    <2>1. PICK i \in 1 .. Len(l) : l[i] = f
      BY <1>4
    <2>2. Len(F[f]) = IF i <= nl THEN 1 ELSE 0
      BY <1>1, <2>1 DEF SearchedOK
    <2> QED
      BY <1>1, <2>2
  <1> QED
    BY <1>2, <1>3, <1>4
-----------------------------------------------------------------------------
\* Images of finite sets are finite.
LEMMA ImageFinite ==
    ASSUME NEW S, IsFiniteSet(S), NEW f, DOMAIN f = S
    PROVE  IsFiniteSet({f[x] : x \in S})
  <1> DEFINE g == [x \in S |-> f[x]]
             T == {f[x] : x \in S}
  <1>1. g \in [S -> T] /\ \A y \in T : \E x \in S : g[x] = y
    OBVIOUS
  <1> HIDE DEF g, T
  <1>2. g \in Surjection(S, T)
    BY <1>1, Zenon DEF Surjection
  <1>3. IsFiniteSet(T)
    BY <1>2, FS_Surjection
  <1> QED
    BY <1>3 DEF T

\* Ranges have finitely many points.
LEMMA PointsFinite ==
    ASSUME NEW R, \A d \in Dims : R.begin[d] \in Int /\ R.end[d] \in Int
    PROVE  IsFiniteSet(Points(R))
  <1> DEFINE X == R.begin[1] .. R.end[1] - 1
             Y == R.begin[2] .. R.end[2] - 1
  <1>1. 1 \in Dims /\ 2 \in Dims
    BY DEF Dims
  <1>2. R.begin[1] \in Int /\ R.end[1] - 1 \in Int /\ R.begin[2] \in Int /\ R.end[2] - 1 \in Int
    BY <1>1
  <1>3. IsFiniteSet(X) /\ IsFiniteSet(Y)
    BY <1>2, FS_Interval
  <1>4. IsFiniteSet(X \X Y)
    BY <1>3, FS_Product
  <1>5. Points(R) \in SUBSET (X \X Y)
    BY DEF Points
  <1> QED
    BY <1>4, <1>5, FS_Subset

\* Ranks have finitely many cells.
LEMMA NumCellsIs ==
    ASSUME here \in Cases, NEW r \in Ranks, NEW g \in LocalGrids(r)
    PROVE  NumCells(CellLocalRange(r, g)) \in Nat
  <1> DEFINE L == LocalRange(r, g)
             R == CellLocalRange(r, g)
  <1>1. g \in DOMAIN here.grids /\ r \in DOMAIN here.grids[g].local
    BY DEF LocalGrids, Grids, HasGrid
  <1>2. \A d \in Dims : L.begin[d] \in Int /\ L.end[d] \in Int
    BY <1>1, OverlapSearchAssumption DEF LocalRange
  <1>3. /\ R.begin = L.begin
        /\ \A d \in Dims : R.end[d] \in {L.end[d], L.end[d] - 1}
    BY DEF CellLocalRange, RangePointToCell, Box
  <1> HIDE DEF R, L
  <1>4. \A d \in Dims : R.begin[d] \in Int /\ R.end[d] \in Int
    BY <1>2, <1>3
  <1>5. IsFiniteSet(Points(R))
    BY <1>4, PointsFinite
  <1>6. Cardinality(Points(R)) \in Nat
    BY <1>5, FS_CardinalityType
  <1> QED
    BY <1>6 DEF NumCells, R

\* There are finitely many fragments, and none of them is called Nothing.
LEMMA FragmentNamesAre ==
    ASSUME here \in Cases
    PROVE  /\ FragmentNames \in SUBSET Triples /\ IsFiniteSet(FragmentNames)
           /\ \A f \in FragmentNames : f[2] \in Ranks /\ f # Nothing
           /\ Ranks \in SUBSET Nat /\ IsFiniteSet(Ranks)
  <1>1. here.ranks \in Nat /\ Grids \in SUBSET Nat /\ IsFiniteSet(Grids)
    BY OverlapSearchAssumption DEF Grids
  <1>2. Ranks \in SUBSET Nat /\ IsFiniteSet(Ranks)
    <2>1. 0 \in Int /\ here.ranks - 1 \in Int
      BY <1>1
    <2>2. IsFiniteSet(0 .. here.ranks - 1)
      BY <2>1, FS_Interval
    <2> QED
      BY <2>1, <2>2 DEF Ranks
  <1> DEFINE names == [s \in Ranks |-> [g \in LocalGrids(s) |->
                         [id \in 1 .. NumCells(CellLocalRange(s, g)) |-> <<g, s, id>>]]]
             of(s, g) == {<<g, s, id>> : id \in 1 .. NumCells(CellLocalRange(s, g))}
             from(s) == UNION {of(s, g) : g \in LocalGrids(s)}
  <1>3. ASSUME NEW s \in Ranks, NEW g \in LocalGrids(s)
        PROVE  IsFiniteSet(of(s, g))
    <2> DEFINE N == NumCells(CellLocalRange(s, g))
               f == [id \in 1 .. N |-> <<g, s, id>>]
    <2>1. N \in Nat
      BY <1>3, NumCellsIs
    <2> HIDE DEF N
    <2>2. IsFiniteSet(1 .. N)
      BY <2>1, FS_Interval
    <2>3. IsFiniteSet({f[id] : id \in 1 .. N})
      <3>1. DOMAIN f = 1 .. N
        OBVIOUS
      <3> HIDE DEF f
      <3> QED
        BY <2>2, <3>1, ImageFinite
    <2>4. of(s, g) = {f[id] : id \in 1 .. N}
      BY DEF N
    <2> QED
      BY <2>3, <2>4
  <1>4. ASSUME NEW s \in Ranks
        PROVE  IsFiniteSet(from(s))
    <2> DEFINE f == [g \in LocalGrids(s) |-> of(s, g)]
               G == LocalGrids(s)
    <2>1. IsFiniteSet(G)
      <3>1. G \in SUBSET Grids
        BY DEF LocalGrids
      <3> QED
        BY <1>1, <3>1, FS_Subset
    <2>2. DOMAIN f = G /\ \A g \in G : f[g] = of(s, g)
      OBVIOUS
    <2>3. \A g \in G : IsFiniteSet(f[g])
      BY <1>3, <2>2
    <2>4. from(s) = UNION {f[g] : g \in G}
      BY <2>2
    <2> HIDE DEF f, G, from
    <2>5. IsFiniteSet({f[g] : g \in G})
      BY <2>1, <2>2, ImageFinite
    <2>6. IsFiniteSet(UNION {f[g] : g \in G})
      BY <2>3, <2>5, FS_UNION
    <2> QED
      BY <2>4, <2>6
  <1>5. IsFiniteSet(FragmentNames)
    <2> DEFINE f == [s \in Ranks |-> from(s)]
    <2>1. DOMAIN f = Ranks /\ \A s \in Ranks : f[s] = from(s)
      OBVIOUS
    <2>2. FragmentNames = UNION {f[s] : s \in Ranks}
      BY <2>1 DEF FragmentNames
    <2>3. \A s \in Ranks : IsFiniteSet(f[s])
      BY <1>4, <2>1
    <2> HIDE DEF f
    <2>4. IsFiniteSet({f[s] : s \in Ranks})
      <3> DEFINE R == Ranks
      <3>1. DOMAIN f = R /\ IsFiniteSet(R)
        BY <1>2, <2>1
      <3> HIDE DEF R
      <3>2. IsFiniteSet({f[s] : s \in R})
        BY <3>1, ImageFinite
      <3> QED
        BY <3>2 DEF R
    <2>5. IsFiniteSet(UNION {f[s] : s \in Ranks})
      BY <2>3, <2>4, FS_UNION
    <2> QED
      BY <2>2, <2>5
  <1>6. ASSUME NEW f \in FragmentNames
        PROVE  f \in Triples /\ f[2] \in Ranks /\ f # Nothing
    <2>1. PICK s \in Ranks : f \in from(s)
      BY <1>6 DEF FragmentNames
    <2>2. PICK g \in LocalGrids(s) : f \in of(s, g)
      BY <2>1
    <2>3. PICK id \in 1 .. NumCells(CellLocalRange(s, g)) : f = <<g, s, id>>
      BY <2>2
    <2>4. g \in Grids
      BY DEF LocalGrids
    <2>5. g \in Nat /\ s \in Nat /\ id \in Nat /\ id # 0
      BY <1>1, <1>2, <2>3, <2>4
    <2> QED
      BY <2>1, <2>3, <2>5 DEF Triples, Nothing
  <1>7. FragmentNames \in SUBSET Triples /\ \A f \in FragmentNames : f[2] \in Ranks /\ f # Nothing
    BY <1>6
  <1> QED
    BY <1>2, <1>5, <1>7

\* What r sends, where V is what ranks want.
SentBy(R, r, V) == UNION {{<<f[1], s, f[3]>> : f \in {e \in V[s] : e[2] = r}} : s \in R \ {r}}

\* What a rank sends to another is what the other wants of it.
LEMMA SendsAre ==
    ASSUME NEW R \in SUBSET Nat, IsFiniteSet(R), NEW r \in R, NEW V,
           \A s \in R : V[s] \in SUBSET Triples /\ IsFiniteSet(V[s])
    PROVE  /\ SentBy(R, r, V) \in SUBSET Triples /\ IsFiniteSet(SentBy(R, r, V))
           /\ \A s \in R \ {r} : {f \in SentBy(R, r, V) : f[2] = s}
                                    = {<<f[1], s, f[3]>> : f \in {e \in V[s] : e[2] = r}}
  <1> DEFINE to(s) == {<<f[1], s, f[3]>> : f \in {e \in V[s] : e[2] = r}}
             X == SentBy(R, r, V)
  <1>1. ASSUME NEW s \in R \ {r}
        PROVE  to(s) \in SUBSET Triples /\ \A f \in to(s) : f[2] = s
    <2>1. V[s] \in SUBSET Triples /\ s \in Nat
      OBVIOUS
    <2> QED
      BY <2>1 DEF Triples
  <1>2. ASSUME NEW s \in R \ {r}
        PROVE  IsFiniteSet(to(s))
    <2> DEFINE E == {e \in V[s] : e[2] = r}
               f == [e \in E |-> <<e[1], s, e[3]>>]
    <2>1. IsFiniteSet(E)
      <3>1. E \in SUBSET V[s] /\ IsFiniteSet(V[s])
        OBVIOUS
      <3> QED
        BY <3>1, FS_Subset
    <2>2. to(s) = {f[e] : e \in E} /\ DOMAIN f = E
      OBVIOUS
    <2> HIDE DEF f, E, to
    <2> QED
      BY <2>1, <2>2, ImageFinite
  <1>3. X = UNION {to(s) : s \in R \ {r}}
    BY DEF SentBy
  <1> HIDE DEF to, X
  <1>4. IsFiniteSet(X)
    <2> DEFINE f == [s \in R \ {r} |-> to(s)]
    <2>1. IsFiniteSet(R \ {r})
      <3>1. R \ {r} \in SUBSET R
        OBVIOUS
      <3> QED
        BY <3>1, FS_Subset
    <2>2. DOMAIN f = R \ {r} /\ \A s \in R \ {r} : f[s] = to(s)
      OBVIOUS
    <2>3. X = UNION {f[s] : s \in R \ {r}}
      BY <1>3, <2>2
    <2>4. \A s \in R \ {r} : IsFiniteSet(f[s])
      BY <1>2, <2>2
    <2> HIDE DEF f
    <2>5. IsFiniteSet({f[s] : s \in R \ {r}})
      <3> DEFINE Q == R \ {r}
      <3>1. IsFiniteSet(Q) /\ DOMAIN f = Q
        BY <2>1, <2>2
      <3> HIDE DEF Q
      <3>2. IsFiniteSet({f[s] : s \in Q})
        BY <3>1, ImageFinite
      <3> QED
        BY <3>2 DEF Q
    <2>6. IsFiniteSet(UNION {f[s] : s \in R \ {r}})
      BY <2>4, <2>5, FS_UNION
    <2> QED
      BY <2>3, <2>6
  <1>5. X \in SUBSET Triples
    BY <1>1, <1>3
  <1>6. \A s \in R \ {r} : {f \in X : f[2] = s} = to(s)
    BY <1>1, <1>3
  <1> QED
    BY <1>4, <1>5, <1>6 DEF to, X
-----------------------------------------------------------------------------
\* What a rank does first.
FirstSlots(n) == [i \in Slots |-> IF i <= n THEN i ELSE 0]

\* A rank first asks for as many fragments as it has slots for, or for all.
LEMMA FirstRecvsIs ==
    ASSUME NEW w, IsLog(w)
    PROVE  LET n == FirstRecvs(w)
           IN  /\ n \in 0 .. Len(w) /\ n <= MaxTransfers
               /\ n < MaxTransfers => n = Len(w)
  <1> DEFINE n == FirstRecvs(w)
             M == {MaxTransfers, Len(w)}
  <1>1. MaxTransfers \in Nat /\ Len(w) \in Nat
    BY OverlapSearchAssumption DEF IsLog
  <1>2. M \in SUBSET Nat /\ M # {}
    BY <1>1
  <1>3. Min(M) \in M /\ \A k \in M : Min(M) <= k
    <2> HIDE DEF M
    <2> QED
      BY <1>2, LeastOf
  <1>4. n = Min(M)
    BY DEF FirstRecvs
  <1> HIDE DEF n
  <1>5. n \in 0 .. Len(w) /\ n <= MaxTransfers /\ (n < MaxTransfers => n = Len(w))
    BY <1>1, <1>3, <1>4
  <1> QED
    BY <1>5 DEF n

\* So it is between two ranks when the loop starts
LEMMA PairStarts ==
    ASSUME NEW w, IsLog(w), NEW s
    PROVE  PairOK(w, s, FirstRecvs(w), FirstSlots(FirstRecvs(w)), [slot \in Slots |-> EmptySlot],
                  FirstPosted(w, s), FirstSignals(w, s), 0, 0, <<>>)
  <1> DEFINE n == FirstRecvs(w)
             S == FirstSlots(n)
             D == [slot \in Slots |-> EmptySlot]
             post == FirstPosted(w, s)
             fly == FirstSignals(w, s)
  <1>1. n \in 0 .. Len(w) /\ n <= MaxTransfers
    BY FirstRecvsIs
  <1>2. Len(w) \in Nat /\ n \in Nat
    BY <1>1 DEF IsLog
  <1>3. \A i \in Slots : S[i] = (IF i <= n THEN i ELSE 0) /\ D[i] = EmptySlot
    BY DEF FirstSlots
  <1>4. n = FirstRecvs(w)
    OBVIOUS
  <1> HIDE DEF n, S, D
  <1>5. PostOK(w, s, n, post, 0, S, D) /\ fly = Asked(w, s, n)
    BY <1>1, <1>3, <1>4, FirstPostedOK
  <1>6. Asked(w, s, n) \in Nat
    BY <1>2, AskedIs
  <1>7. LineOK(w, s, 0, 0, <<>>)
    <2>1. IsLog(<<>>) /\ Len(<<>>) = 0
      BY DEF IsLog
    <2>2. Parts * 0 = 0
      BY OverlapSearchAssumption
    <2>3. 1 .. Len(<<>>) = {}
      BY <2>1
    <2> QED
      BY <2>1, <2>2, <2>3 DEF LineOK
  <1>8. fly \in Nat /\ 0 \in Nat /\ fly + 0 + 0 = Asked(w, s, n)
    BY <1>5, <1>6
  <1>9. PairOK(w, s, n, S, D, post, fly, 0, 0, <<>>)
    BY <1>5, <1>7, <1>8 DEF PairOK
  <1> QED
    BY <1>9 DEF n, S, D

\* and so in each of them.
LEMMA RankStarts ==
    ASSUME NEW w, NEW l, EntriesOK(w, l), NEW V,
           \A f \in V : (\E i \in 1 .. Len(w) : w[i] = f) \/ (\E i \in 1 .. Len(l) : l[i] = f),
           \A i \in 1 .. Len(w) : w[i] \in V, \A i \in 1 .. Len(l) : l[i] \in V
    PROVE  RankOK(w, l, FirstRecvs(w), 0, FirstSlots(FirstRecvs(w)), [slot \in Slots |-> EmptySlot],
                  [f \in V |-> <<>>])
  <1> DEFINE n == FirstRecvs(w)
             S == FirstSlots(n)
             D == [slot \in Slots |-> EmptySlot]
             F == [f \in V |-> <<>>]
  <1>1. IsLog(w) /\ IsLog(l) /\ Len(w) \in Nat /\ Len(l) \in Nat /\ MaxTransfers \in Nat
    BY OverlapSearchAssumption DEF EntriesOK, IsLog
  <1>2. n \in 0 .. Len(w) /\ n <= MaxTransfers /\ (n < MaxTransfers => n = Len(w))
    BY <1>1, FirstRecvsIs
  <1> HIDE DEF n
  <1>3. S = [slot \in Slots |-> S[slot]] /\ \A i \in Slots : S[i] = IF i <= n THEN i ELSE 0
    BY DEF FirstSlots
  <1> HIDE DEF S
  <1>4. SlotsOK(w, n, S)
    BY <1>1, <1>2, <1>3 DEF SlotsOK, Slots
  <1>5. \A slot \in Slots : S[slot] = 0 => n = Len(w)
    BY <1>1, <1>2, <1>3 DEF Slots
  <1>6. D = [slot \in Slots |-> [part \in 1 .. Parts |-> D[slot][part]]]
    BY DEF EmptySlot
  <1> HIDE DEF D
  <1>7. IsLog(<<>>) /\ Len(<<>>) = 0
    BY DEF IsLog
  <1>8. \A f \in V : F[f] = <<>>
    OBVIOUS
  <1>9. DOMAIN F = V
    OBVIOUS
  <1> HIDE DEF F
  <1>10. \A i \in 1 .. Len(w) : i <= n => \E slot \in Slots : S[slot] = i
    BY <1>1, <1>2, <1>3 DEF Slots
  <1>11. \A i \in 1 .. Len(l) : ~(i <= 0)
    OBVIOUS
  <1>12. SearchedOK(w, l, n, 0, S, F)
    <2>1. \A f \in DOMAIN F :
            IsLog(F[f]) /\ ((\E i \in 1 .. Len(w) : w[i] = f) \/ (\E i \in 1 .. Len(l) : l[i] = f))
      BY <1>7, <1>8, <1>9
    <2>2. \A i \in 1 .. Len(w) : /\ w[i] \in DOMAIN F
                                 /\ Len(F[w[i]]) = IF i <= n /\ \A slot \in Slots : S[slot] # i THEN 1 ELSE 0
      BY <1>7, <1>8, <1>9, <1>10
    <2>3. \A i \in 1 .. Len(l) : l[i] \in DOMAIN F /\ Len(F[l[i]]) = IF i <= 0 THEN 1 ELSE 0
      BY <1>7, <1>8, <1>9, <1>11
    <2> QED
      BY <2>1, <2>2, <2>3, Zenon DEF SearchedOK
  <1>13. 0 \in 0 .. Len(l)
    BY <1>1
  <1> QED
    BY <1>3, <1>4, <1>5, <1>6, <1>12, <1>13 DEF RankOK, n, S, D, F
-----------------------------------------------------------------------------
\* What a rank is to fetch, and what others are to send it.
AsksFor(Q, r) == InFragmentOrder({f \in Wanted(Q, r) : f[2] # r})
SearchesAtHome(Q, r) == InFragmentOrder({f \in Wanted(Q, r) : f[2] = r})
IsAskedFor(Q, s) ==
    InFragmentOrder(UNION {{<<f[1], r, f[3]>> : f \in {e \in Wanted(Q, r) : e[2] = s}} : r \in Ranks \ {s}})

\* What is wanted is finite.
LEMMA WantedIs ==
    ASSUME here \in Cases, NEW Q, NEW r
    PROVE  /\ Wanted(Q, r) \in SUBSET Triples /\ IsFiniteSet(Wanted(Q, r))
           /\ \A f \in Wanted(Q, r) : f[2] \in Ranks /\ f # Nothing
  <1>1. Wanted(Q, r) \in SUBSET FragmentNames
    BY DEF Wanted
  <1> QED
    BY <1>1, FragmentNamesAre, FS_Subset

\* What a rank fetches and what it has at home are different, and are all that it wants.
LEMMA EntriesAre ==
    ASSUME here \in Cases, NEW Q, NEW r
    PROVE  /\ EntriesOK(AsksFor(Q, r), SearchesAtHome(Q, r))
           /\ \A i \in 1 .. Len(AsksFor(Q, r)) : AsksFor(Q, r)[i][2] \in Ranks /\ AsksFor(Q, r)[i] \in Wanted(Q, r)
           /\ \A i \in 1 .. Len(SearchesAtHome(Q, r)) : SearchesAtHome(Q, r)[i] \in Wanted(Q, r)
           /\ \A f \in Wanted(Q, r) : \/ \E i \in 1 .. Len(AsksFor(Q, r)) : AsksFor(Q, r)[i] = f
                                      \/ \E i \in 1 .. Len(SearchesAtHome(Q, r)) : SearchesAtHome(Q, r)[i] = f
  <1> DEFINE V == Wanted(Q, r)
             K == {f \in V : f[2] # r}
             L == {f \in V : f[2] = r}
             w == AsksFor(Q, r)
             l == SearchesAtHome(Q, r)
  <1>1. V \in SUBSET Triples /\ IsFiniteSet(V) /\ \A f \in V : f[2] \in Ranks /\ f # Nothing
    BY WantedIs
  <1> HIDE DEF V
  <1>2. K \in SUBSET Triples /\ IsFiniteSet(K) /\ L \in SUBSET Triples /\ IsFiniteSet(L)
    <2>1. K \in SUBSET V /\ L \in SUBSET V
      OBVIOUS
    <2> QED
      BY <1>1, <2>1, FS_Subset
  <1>3. w = InFragmentOrder(K) /\ l = InFragmentOrder(L)
    BY DEF AsksFor, SearchesAtHome, V
  <1>4. \A f \in V : f \in K \/ f \in L
    OBVIOUS
  <1>5. K \cap L = {} /\ K \subseteq V /\ L \subseteq V
    OBVIOUS
  <1> HIDE DEF K, L, w, l
  <1>6. Enumerates(w, K) /\ Enumerates(l, L)
    BY <1>2, <1>3, FragmentSeq
  <1>7. EntriesOK(w, l)
    BY <1>1, <1>5, <1>6 DEF Enumerates, EntriesOK
  <1>8. \A i \in 1 .. Len(w) : w[i][2] \in Ranks /\ w[i] \in V
    BY <1>1, <1>5, <1>6 DEF Enumerates
  <1>9. \A i \in 1 .. Len(l) : l[i] \in V
    BY <1>5, <1>6 DEF Enumerates
  <1>10. \A f \in V : (\E i \in 1 .. Len(w) : w[i] = f) \/ (\E i \in 1 .. Len(l) : l[i] = f)
    BY <1>4, <1>6 DEF Enumerates
  <1> QED
    BY <1>7, <1>8, <1>9, <1>10 DEF V, w, l

\* Ranks agree on what is sent from one to another, and in which order.
LEMMA AnswersAre ==
    ASSUME here \in Cases, NEW Q, NEW r \in Ranks, NEW s \in Ranks
    PROVE  AnswersFor(AsksFor(Q, r), s,
             [k \in Nat |-> Sent(s, InFragmentOrder({f \in Range(IsAskedFor(Q, s)) : f[2] = r})[k])])
  <1> DEFINE V == [t \in Ranks |-> Wanted(Q, t)]
             w == AsksFor(Q, r)
             X == SentBy(Ranks, s, V)
             K == {f \in Range(IsAskedFor(Q, s)) : f[2] = r}
             answer == [k \in Nat |-> Sent(s, InFragmentOrder(K)[k])]
  <1>1. \A t \in Ranks : V[t] = Wanted(Q, t)
    OBVIOUS
  <1>2. \A t \in Ranks : V[t] \in SUBSET Triples /\ IsFiniteSet(V[t])
    BY <1>1, WantedIs
  <1>3. Ranks \in SUBSET Nat /\ IsFiniteSet(Ranks)
    BY FragmentNamesAre
  <1>4. IsAskedFor(Q, s) = InFragmentOrder(X)
    <2>1. X = UNION {{<<f[1], t, f[3]>> : f \in {e \in Wanted(Q, t) : e[2] = s}} : t \in Ranks \ {s}}
      BY <1>1 DEF SentBy
    <2> QED
      BY <2>1 DEF IsAskedFor
  <1> HIDE DEF V
  <1>5. /\ X \in SUBSET Triples /\ IsFiniteSet(X)
        /\ \A t \in Ranks \ {s} : {f \in X : f[2] = t} = {<<f[1], t, f[3]>> : f \in {e \in V[t] : e[2] = s}}
    BY <1>2, <1>3, SendsAre
  <1> HIDE DEF X
  <1>6. Range(IsAskedFor(Q, s)) = X
    <2>1. Enumerates(InFragmentOrder(X), X)
      BY <1>5, FragmentSeq
    <2> DEFINE q == InFragmentOrder(X)
    <2>2. DOMAIN q = 1 .. Len(q)
      BY <2>1 DEF Enumerates, IsLog
    <2>3. Range(q) = X
      BY <2>1, <2>2 DEF Enumerates, Range
    <2> QED
      BY <1>4, <2>3
  <1>7. ASSUME NEW i \in 1 .. Len(w), w[i][2] = s
        PROVE  answer[Number(w, i)] = w[i]
    <2>1. w[i] \in Wanted(Q, r) /\ IsLog(w)
      BY <1>7, EntriesAre DEF EntriesOK
    <2>2. s # r
      <3> DEFINE U == {f \in V[r] : f[2] # r}
      <3>1. U \in SUBSET Triples /\ IsFiniteSet(U)
        <4>1. U \in SUBSET V[r] /\ V[r] \in SUBSET Triples /\ IsFiniteSet(V[r])
          BY <1>2
        <4> QED
          BY <4>1, FS_Subset
      <3>2. w = InFragmentOrder(U)
        BY <1>1 DEF AsksFor
      <3>3. Enumerates(InFragmentOrder(U), U)
        <4> HIDE DEF U
        <4> QED
          BY <3>1, FragmentSeq
      <3>4. w[i] \in U
        BY <1>7, <3>2, <3>3 DEF Enumerates
      <3> QED
        BY <1>7, <3>4
    <2>3. K = {<<f[1], r, f[3]>> : f \in {e \in V[r] : e[2] = s}}
      BY <1>5, <1>6, <2>2
    <2> DEFINE W == V[r]
    <2>4. W \in SUBSET Triples /\ IsFiniteSet(W) /\ w = InFragmentOrder({f \in W : f[2] # r})
      BY <1>1, <1>2 DEF AsksFor
    <2>5. r \in Nat /\ s \in Nat
      BY <1>3
    <2>6. Number(w, i) \in Nat
      BY <1>7, NumberIs
    <2>7. K = {<<f[1], r, f[3]>> : f \in {e \in W : e[2] = s}}
      BY <2>3
    <2> HIDE DEF K, W, w
    <2>8. Sent(s, InFragmentOrder(K)[Number(w, i)]) = w[i]
      BY <1>7, <2>2, <2>4, <2>5, <2>7, SentIs
    <2> QED
      BY <2>6, <2>8
  <1> HIDE DEF w, K
  <1>8. AnswersFor(w, s, answer)
    BY <1>7 DEF AnswersFor
  <1> QED
    BY <1>8 DEF w, K
-----------------------------------------------------------------------------
\* Steps that are not of the loop.
LEMMA InitOK == Init => SearchInv
  BY DEF Init, SearchInv, StartOK

LEMMA HashKeeps ==
    ASSUME SearchInv, Hash
    PROVE  SearchInv'
  BY DEF Hash, SearchInv, StartOK, answerVars, searchVars, Ranks, Slots

LEMMA FillKeeps ==
    ASSUME SearchInv, Fill
    PROVE  SearchInv'
  BY DEF Fill, SearchInv

\* Ranks get ready for the loop: what they receive first is what others are to send first.
LEMMA ConnectKeeps ==
    ASSUME SearchInv, Connect
    PROVE  SearchInv'
  <1> USE DEF Recvs, Locals
  <1>1. PICK Q \in {[r \in Ranks |-> QueryPoints(r)]} :
          \E W \in {[r \in Ranks |-> Work(Q, r)]} :
            /\ work' = W
            /\ nextRecv' = [r \in Ranks |-> FirstRecvs(W[r].recvs)]
            /\ slots' = [r \in Ranks |-> [i \in 1 .. MaxTransfers |->
                           IF i <= FirstRecvs(W[r].recvs) THEN i ELSE 0]]
            /\ posted' = [r \in Ranks |-> [s \in Ranks |-> FirstPosted(W[r].recvs, s)]]
            /\ flying' = [r \in Ranks |-> [s \in Ranks |-> FirstSignals(W[r].recvs, s)]]
            /\ searched' = [r \in Ranks |-> [f \in Wanted(Q, r) |-> <<>>]]
    BY Zenon DEF Connect
  <1>2. /\ work' = [r \in Ranks |-> Work(Q, r)]
        /\ nextRecv' = [r \in Ranks |-> FirstRecvs(work'[r].recvs)]
        /\ slots' = [r \in Ranks |-> FirstSlots(FirstRecvs(work'[r].recvs))]
        /\ posted' = [r \in Ranks |-> [s \in Ranks |-> FirstPosted(work'[r].recvs, s)]]
        /\ flying' = [r \in Ranks |-> [s \in Ranks |-> FirstSignals(work'[r].recvs, s)]]
        /\ searched' = [r \in Ranks |-> [f \in Wanted(Q, r) |-> <<>>]]
    BY <1>1 DEF FirstSlots, Slots
  <1>3. /\ here \in Cases /\ here' = here /\ StartOK /\ stage' = "transfer"
        /\ UNCHANGED <<answerVars, nextLocal, data>>
    BY DEF SearchInv, Connect
  <1>4. /\ nextLocal' = [r \in Ranks |-> 0]
        /\ data' = [r \in Ranks |-> [slot \in Slots |-> EmptySlot]]
        /\ wire' = [s \in Ranks |-> [r \in Ranks |-> <<>>]]
        /\ signals' = [r \in Ranks |-> [s \in Ranks |-> 0]]
        /\ answered' = [s \in Ranks |-> [r \in Ranks |-> 0]]
    BY <1>3 DEF StartOK, answerVars
  <1>5. Ranks' = Ranks
    BY <1>3 DEF Ranks
  <1>6. \A r \in Ranks : /\ work'[r].recvs = AsksFor(Q, r) /\ work'[r].locals = SearchesAtHome(Q, r)
                         /\ work'[r].sends = IsAskedFor(Q, r)
    BY <1>2 DEF Work, AsksFor, SearchesAtHome, IsAskedFor
  <1>7. WorkOK'
    <2>1. ASSUME NEW r \in Ranks
          PROVE  /\ EntriesOK(work'[r].recvs, work'[r].locals)
                 /\ \A i \in 1 .. Len(work'[r].recvs) : work'[r].recvs[i][2] \in Ranks
      BY <1>3, <1>6, EntriesAre
    <2>2. ASSUME NEW r \in Ranks, NEW s \in Ranks
          PROVE  AnswersFor(work'[r].recvs, s, AnswersTo(s, r)')
      <3>1. AnswersFor(AsksFor(Q, r), s,
              [k \in Nat |-> Sent(s, InFragmentOrder({f \in Range(IsAskedFor(Q, s)) : f[2] = r})[k])])
        BY <1>3, AnswersAre
      <3>2. AnswersTo(s, r)'
              = [k \in Nat |-> Sent(s, InFragmentOrder({f \in Range(IsAskedFor(Q, s)) : f[2] = r})[k])]
        BY <1>6 DEF AnswersTo, Answer, SendsTo
      <3> QED
        BY <1>6, <3>1, <3>2
    <2> QED
      BY <1>5, <2>1, <2>2 DEF WorkOK
  <1>8. TablesOK'
    <2>1. OnRanks(Ranks, nextRecv') /\ OnRanks(Ranks, nextLocal') /\ OnRanks(Ranks, slots')
      BY <1>2, <1>4 DEF OnRanks
    <2>2. OnRanks(Ranks, data') /\ OnRanks(Ranks, searched')
      BY <1>2, <1>4 DEF OnRanks
    <2>3. OnPairs(Ranks, posted') /\ OnPairs(Ranks, flying')
      BY <1>2 DEF OnPairs
    <2>4. OnPairs(Ranks, signals') /\ OnPairs(Ranks, wire') /\ OnPairs(Ranks, answered')
      BY <1>4 DEF OnPairs
    <2> QED
      BY <1>5, <2>1, <2>2, <2>3, <2>4 DEF TablesOK
  <1>9. RanksOK'
    <2>1. ASSUME NEW r \in Ranks
          PROVE  RankOK(work'[r].recvs, work'[r].locals, nextRecv'[r], nextLocal'[r], slots'[r],
                        data'[r], searched'[r])
      <3>1. RankOK(AsksFor(Q, r), SearchesAtHome(Q, r), FirstRecvs(AsksFor(Q, r)), 0,
                   FirstSlots(FirstRecvs(AsksFor(Q, r))), [slot \in Slots |-> EmptySlot],
                   [f \in Wanted(Q, r) |-> <<>>])
        <4> DEFINE w == AsksFor(Q, r)
                   l == SearchesAtHome(Q, r)
                   V == Wanted(Q, r)
        <4>1. /\ EntriesOK(w, l)
              /\ \A f \in V : (\E i \in 1 .. Len(w) : w[i] = f) \/ (\E i \in 1 .. Len(l) : l[i] = f)
              /\ \A i \in 1 .. Len(w) : w[i] \in V
              /\ \A i \in 1 .. Len(l) : l[i] \in V
          BY <1>3, EntriesAre
        <4> HIDE DEF w, l, V
        <4>2. RankOK(w, l, FirstRecvs(w), 0, FirstSlots(FirstRecvs(w)), [slot \in Slots |-> EmptySlot],
                     [f \in V |-> <<>>])
          BY <4>1, RankStarts
        <4> QED
          BY <4>2 DEF w, l, V
      <3> QED
        BY <1>2, <1>4, <1>6, <3>1
    <2> QED
      BY <1>5, <2>1 DEF RanksOK
  <1>10. PairsOK'
    <2>1. ASSUME NEW r \in Ranks, NEW s \in Ranks
          PROVE  PairOK(work'[r].recvs, s, nextRecv'[r], slots'[r], data'[r], posted'[r][s], flying'[r][s],
                        signals'[r][s], answered'[s][r], wire'[s][r])
      <3> DEFINE w == work'[r].recvs
      <3>1. IsLog(w)
        BY <1>3, <1>6, EntriesAre DEF EntriesOK
      <3>2. PairOK(w, s, FirstRecvs(w), FirstSlots(FirstRecvs(w)), [slot \in Slots |-> EmptySlot],
                   FirstPosted(w, s), FirstSignals(w, s), 0, 0, <<>>)
        <4> HIDE DEF w
        <4> QED
          BY <3>1, PairStarts
      <3> QED
        BY <1>2, <1>4, <3>2
    <2> QED
      BY <1>5, <2>1 DEF PairsOK
  <1> QED
    BY <1>3, <1>7, <1>8, <1>9, <1>10 DEF SearchInv, TransferOK
-----------------------------------------------------------------------------
\* What is to be done does not change in the loop.
LEMMA WorkKeeps ==
    ASSUME WorkOK, UNCHANGED <<here, work>>
    PROVE  WorkOK'
  BY DEF WorkOK, Recvs, Locals, AnswersTo, Answer, SendsTo, Ranks

\* A log that is not empty has a first element.
LEMMA NotEmptyIs ==
    ASSUME NEW q, IsLog(q), q # <<>>
    PROVE  Len(q) > 0
  <1> SUFFICES ASSUME Len(q) = 0 PROVE FALSE
    BY DEF IsLog
  <1>1. 1 .. Len(q) = {}
    OBVIOUS
  <1>2. q = [i \in {} |-> q[i]]
    BY <1>1 DEF IsLog
  <1>3. q = <<>>
    BY <1>2
  <1> QED
    BY <1>3

\* The library delivers a signal
LEMMA SignalArrivesKeeps ==
    ASSUME SearchInv, stage = "transfer", NEW r \in Ranks, NEW s \in Ranks, SignalArrives(r, s)
    PROVE  SearchInv'
  <1> USE DEF Recvs, Locals
  <1>1. /\ here \in Cases /\ WorkOK /\ TablesOK /\ RanksOK /\ (inOrder => PairsOK)
        /\ UNCHANGED <<here, work, stage, inOrder>>
    BY DEF SearchInv, TransferOK, SignalArrives, workVars
  <1>2. Ranks' = Ranks
    BY <1>1 DEF Ranks
  <1>3. /\ flying[r][s] > 0
        /\ flying' = [flying EXCEPT ![r][s] = @ - 1]
        /\ signals' = [signals EXCEPT ![r][s] = @ + 1]
        /\ UNCHANGED <<work, wire, answered, nextRecv, nextLocal, slots, data, posted, searched>>
    BY DEF SignalArrives, workVars
  <1>4. OnPairs(Ranks, flying) /\ OnPairs(Ranks, signals)
    BY <1>1 DEF TablesOK
  <1>5. TablesOK'
    <2>1. OnPairs(Ranks, flying')
      BY <1>3, <1>4 DEF OnPairs
    <2>2. OnPairs(Ranks, signals')
      BY <1>3, <1>4 DEF OnPairs
    <2> QED
      BY <1>1, <1>2, <1>3, <2>1, <2>2 DEF TablesOK
  <1>6. RanksOK'
    BY <1>1, <1>2, <1>3 DEF RanksOK
  <1>7. \A x, y \in Ranks : <<x, y>> # <<r, s>> => flying'[x][y] = flying[x][y] /\ signals'[x][y] = signals[x][y]
    BY <1>3, <1>4 DEF OnPairs
  <1>8. flying'[r][s] = flying[r][s] - 1 /\ signals'[r][s] = signals[r][s] + 1
    BY <1>3, <1>4 DEF OnPairs
  <1>9. ASSUME inOrder
        PROVE  PairsOK'
    <2>1. ASSUME NEW x \in Ranks, NEW y \in Ranks
          PROVE  PairOK(work[x].recvs, y, nextRecv[x], slots[x], data[x], posted[x][y], flying'[x][y],
                        signals'[x][y], answered[y][x], wire[y][x])
      <3>1. PairOK(work[x].recvs, y, nextRecv[x], slots[x], data[x], posted[x][y], flying[x][y],
                   signals[x][y], answered[y][x], wire[y][x])
        BY <1>1, <1>9 DEF PairsOK
      <3>2. CASE <<x, y>> = <<r, s>>
        BY <1>3, <1>8, <3>1, <3>2, PairSignalled
      <3>3. CASE <<x, y>> # <<r, s>>
        BY <1>7, <3>1, <3>3
      <3> QED
        BY <3>2, <3>3
    <2> QED
      BY <1>2, <1>3, <2>1 DEF PairsOK
  <1> QED
    BY <1>1, <1>5, <1>6, <1>9, WorkKeeps DEF SearchInv, TransferOK

\* or a message, to the slot that waits for it,
LEMMA ArriveMeets ==
    ASSUME SearchInv, stage = "transfer", NEW r \in Ranks, NEW s \in Ranks, Arrive(s, r), inOrder
    PROVE  SearchInv'
  <1> USE DEF Recvs, Locals
  <1> DEFINE into == Head(posted[r][s])
             w == work[r].recvs
  <1>1. /\ here \in Cases /\ WorkOK /\ TablesOK /\ RanksOK /\ PairsOK
        /\ UNCHANGED <<here, work, stage, inOrder>>
    BY DEF SearchInv, TransferOK, Arrive, workVars
  <1>2. Ranks' = Ranks
    BY <1>1 DEF Ranks
  <1>3. /\ wire[s][r] # <<>> /\ posted[r][s] # <<>>
        /\ data' = [data EXCEPT ![r][into[1]][into[2]] = Head(wire[s][r])]
        /\ wire' = [wire EXCEPT ![s][r] = Tail(@)]
        /\ posted' = [posted EXCEPT ![r][s] = Tail(@)]
        /\ UNCHANGED <<work, signals, answered, nextRecv, nextLocal, slots, flying, searched>>
    BY DEF Arrive, workVars
  <1>4. OnPairs(Ranks, wire) /\ OnPairs(Ranks, posted) /\ OnRanks(Ranks, data)
    BY <1>1 DEF TablesOK
  <1>5. /\ PairOK(w, s, nextRecv[r], slots[r], data[r], posted[r][s], flying[r][s],
                  signals[r][s], answered[s][r], wire[s][r])
        /\ RankOK(w, work[r].locals, nextRecv[r], nextLocal[r], slots[r], data[r], searched[r])
        /\ EntriesOK(w, work[r].locals)
    BY <1>1 DEF PairsOK, RanksOK, WorkOK
  <1>6. SlotsOK(w, nextRecv[r], slots[r]) /\ Len(w) \in Nat
    BY <1>5 DEF RankOK, SlotsOK, IsLog
  <1>7. Len(wire[s][r]) > 0 /\ Len(posted[r][s]) > 0
    <2>1. IsLog(wire[s][r]) /\ IsLog(posted[r][s])
      BY <1>5 DEF PairOK, LineOK, PostOK
    <2> QED
      BY <1>3, <2>1, NotEmptyIs
  <1>8. PICK x \in Slots, y \in 1 .. Parts :
          HeldFrom(w, s, slots[r], x) /\ into = <<x, y>> /\ Head(wire[s][r]) = w[slots[r][x]]
    <2> DEFINE n == nextRecv[r]
               S == slots[r]
               D == data[r]
               post == posted[r][s]
               fly == flying[r][s]
               sig == signals[r][s]
               a == answered[s][r]
               line == wire[s][r]
    <2>1. PairOK(w, s, n, S, D, post, fly, sig, a, line) /\ SlotsOK(w, n, S) /\ Len(w) \in Nat
      BY <1>5, <1>6
    <2>2. Len(line) > 0 /\ Len(post) > 0
      BY <1>7
    <2> HIDE DEF w, n, S, D, post, fly, sig, a, line
    <2>3. \E x \in Slots, y \in 1 .. Parts :
            HeldFrom(w, s, S, x) /\ Head(post) = <<x, y>> /\ Head(line) = w[S[x]]
      BY <2>1, <2>2, PairMeets
    <2> QED
      BY <2>3 DEF S, post, line
  <1>9. data[r] = [slot \in Slots |-> [part \in 1 .. Parts |-> data[r][slot][part]]]
    BY <1>5 DEF RankOK
  <1>10. data' = [data EXCEPT ![r] = [data[r] EXCEPT ![x] = [data[r][x] EXCEPT ![y] = w[slots[r][x]]]]]
    <2> DEFINE v == w[slots[r][x]]
    <2>1. into[1] = x /\ into[2] = y /\ Head(wire[s][r]) = v
      BY <1>8
    <2>2. data' = [data EXCEPT ![r][into[1]][into[2]] = Head(wire[s][r])]
      BY <1>3
    <2> HIDE DEF v, into, Slots
    <2>3. data' = [data EXCEPT ![r][x][y] = v]
      BY <2>1, <2>2
    <2>4. data' = [data EXCEPT ![r] = [data[r] EXCEPT ![x] = [data[r][x] EXCEPT ![y] = v]]]
      BY <2>3
    <2> QED
      BY <2>4 DEF v
  <1> DEFINE D == data[r]
             D2 == data'[r]
  <1>11. D2 = [D EXCEPT ![x] = [D[x] EXCEPT ![y] = w[slots[r][x]]]]
    <2> DEFINE d == [D EXCEPT ![x] = [D[x] EXCEPT ![y] = w[slots[r][x]]]]
    <2>1. data' = [data EXCEPT ![r] = d]
      BY <1>10
    <2> HIDE DEF d
    <2>2. data'[r] = d
      BY <1>4, <2>1 DEF OnRanks
    <2> QED
      BY <2>2 DEF d
  <1>12. /\ D2 = [slot \in Slots |-> [part \in 1 .. Parts |-> D2[slot][part]]]
         /\ D2[x][y] = w[slots[r][x]]
         /\ \A slot \in Slots, part \in 1 .. Parts : <<slot, part>> # <<x, y>> => D2[slot][part] = D[slot][part]
         /\ \A slot \in Slots : slot # x => D2[slot] = D[slot]
    <2> HIDE DEF D2, D, w, into
    <2> DEFINE v == w[slots[r][x]]
    <2>1. D = [slot \in Slots |-> [part \in 1 .. Parts |-> D[slot][part]]]
      BY <1>9 DEF D
    <2>2. D2 = [D EXCEPT ![x] = [D[x] EXCEPT ![y] = v]]
      BY <1>11
    <2> HIDE DEF v, Slots
    <2>3. /\ D2 = [slot \in Slots |-> D2[slot]]
          /\ \A slot \in Slots : slot # x => D2[slot] = D[slot]
          /\ D2[x] = [D[x] EXCEPT ![y] = v]
      BY <2>1, <2>2
    <2>4. D[x] = [part \in 1 .. Parts |-> D[x][part]]
      BY <2>1
    <2>5. /\ D2[x] = [part \in 1 .. Parts |-> D2[x][part]] /\ D2[x][y] = v
          /\ \A part \in 1 .. Parts : part # y => D2[x][part] = D[x][part]
      BY <2>3, <2>4
    <2>6. \A slot \in Slots : D2[slot] = [part \in 1 .. Parts |-> D2[slot][part]]
      BY <2>1, <2>3, <2>5
    <2>7. D2 = [slot \in Slots |-> [part \in 1 .. Parts |-> D2[slot][part]]]
      BY <2>3, <2>6
    <2> QED
      BY <2>3, <2>5, <2>7 DEF v
  <1>13. \A z \in Ranks : z # r => data'[z] = data[z]
    BY <1>4, <1>10 DEF OnRanks
  <1>14. OnRanks(Ranks, data') /\ OnPairs(Ranks, wire') /\ OnPairs(Ranks, posted')
    <2>1. OnRanks(Ranks, data')
      <3> DEFINE d == [data[r] EXCEPT ![x] = [data[r][x] EXCEPT ![y] = w[slots[r][x]]]]
      <3>1. data' = [data EXCEPT ![r] = d]
        BY <1>10
      <3> HIDE DEF d
      <3> QED
        BY <1>4, <3>1 DEF OnRanks
    <2>2. OnPairs(Ranks, wire')
      BY <1>3, <1>4 DEF OnPairs
    <2>3. OnPairs(Ranks, posted')
      BY <1>3, <1>4 DEF OnPairs
    <2> QED
      BY <2>1, <2>2, <2>3
  <1>15. /\ wire'[s][r] = Tail(wire[s][r]) /\ posted'[r][s] = Tail(posted[r][s])
         /\ \A u, v \in Ranks : <<u, v>> # <<r, s>> => wire'[v][u] = wire[v][u] /\ posted'[u][v] = posted[u][v]
    BY <1>3, <1>4 DEF OnPairs
  <1>16. TablesOK'
    BY <1>1, <1>2, <1>3, <1>14 DEF TablesOK
  <1> HIDE DEF D, D2, into, w
  <1>17. RanksOK'
    <2>1. ASSUME NEW z \in Ranks
          PROVE  RankOK(work[z].recvs, work[z].locals, nextRecv[z], nextLocal[z], slots[z], data'[z], searched[z])
      <3>1. CASE z = r
        <4>1. RankOK(w, work[r].locals, nextRecv[r], nextLocal[r], slots[r], D2, searched[r])
          BY <1>5, <1>12 DEF RankOK
        <4> QED
          BY <3>1, <4>1 DEF D2, w
      <3>2. CASE z # r
        BY <1>1, <1>13, <3>2 DEF RanksOK
      <3> QED
        BY <3>1, <3>2
    <2> QED
      BY <1>2, <1>3, <2>1 DEF RanksOK
  <1>18. PairOK(w, s, nextRecv[r], slots[r], D2, Tail(posted[r][s]), flying[r][s],
                signals[r][s], answered[s][r], Tail(wire[s][r]))
    <2> DEFINE n == nextRecv[r]
               S == slots[r]
               post == posted[r][s]
               line == wire[s][r]
    <2>1. PairOK(w, s, n, S, D, post, flying[r][s], signals[r][s], answered[s][r], line)
      BY <1>5 DEF D
    <2>2. /\ Head(post) = <<x, y>> /\ Len(w) \in Nat /\ SlotsOK(w, n, S) /\ Len(line) > 0 /\ Len(post) > 0
          /\ D2[x][y] = w[S[x]]
      BY <1>6, <1>7, <1>8, <1>12 DEF into
    <2> HIDE DEF n, S, post, line
    <2>3. PairOK(w, s, n, S, D2, Tail(post), flying[r][s], signals[r][s], answered[s][r], Tail(line))
      <3>1. \A slot \in Slots, part \in 1 .. Parts : <<slot, part>> # <<x, y>> => D2[slot][part] = D[slot][part]
        BY <1>12
      <3>2. /\ Head(post) = <<x, y>> /\ Len(w) \in Nat /\ SlotsOK(w, n, S) /\ Len(line) > 0 /\ Len(post) > 0
            /\ D2[x][y] = w[S[x]]
        BY <2>2
      <3> DEFINE fly == flying[r][s]
                 sig == signals[r][s]
                 a == answered[s][r]
      <3>3. PairOK(w, s, n, S, D, post, fly, sig, a, line)
        BY <2>1
      <3> HIDE DEF fly, sig, a
      <3>4. PairOK(w, s, n, S, D2, Tail(post), fly, sig, a, Tail(line))
        BY <3>1, <3>2, <3>3, PairReceives
      <3> QED
        BY <3>4 DEF fly, sig, a
    <2> QED
      BY <2>3 DEF n, S, post, line
  <1>19. ASSUME NEW v \in Ranks, v # s
         PROVE  PairOK(w, v, nextRecv[r], slots[r], D2, posted[r][v], flying[r][v],
                       signals[r][v], answered[v][r], wire[v][r])
    <2>1. PairOK(w, v, nextRecv[r], slots[r], D, posted[r][v], flying[r][v],
                 signals[r][v], answered[v][r], wire[v][r])
      BY <1>1 DEF PairsOK, D, w
    <2>2. ~HeldFrom(w, v, slots[r], x)
      BY <1>8, <1>19 DEF HeldFrom
    <2> DEFINE n == nextRecv[r]
               S == slots[r]
    <2>3. PairOK(w, v, n, S, D, posted[r][v], flying[r][v], signals[r][v], answered[v][r], wire[v][r])
      BY <2>1
    <2>4. /\ ~HeldFrom(w, v, S, x) /\ \A part \in 1 .. Parts : HeldFrom(w, v, S, x) => D[x][part] # Nothing
          /\ \A slot \in Slots : slot # x => S[slot] = S[slot] /\ D2[slot] = D[slot]
          /\ Asked(w, v, n) = Asked(w, v, n)
      BY <1>12, <2>2
    <2> HIDE DEF n, S
    <2>5. PairOK(w, v, n, S, D2, posted[r][v], flying[r][v], signals[r][v], answered[v][r], wire[v][r])
      BY <2>3, <2>4, PairStays
    <2> QED
      BY <2>5 DEF n, S
  <1>20. PairsOK'
    <2>1. ASSUME NEW u \in Ranks, NEW v \in Ranks
          PROVE  PairOK(work[u].recvs, v, nextRecv[u], slots[u], data'[u], posted'[u][v], flying[u][v],
                        signals[u][v], answered[v][u], wire'[v][u])
      <3>1. CASE u = r /\ v = s
        BY <1>15, <1>18, <3>1 DEF D2, w
      <3>2. CASE u = r /\ v # s
        BY <1>15, <1>19, <3>2 DEF D2, w
      <3>3. CASE u # r
        <4>1. data'[u] = data[u] /\ posted'[u][v] = posted[u][v] /\ wire'[v][u] = wire[v][u]
          BY <1>13, <1>15, <3>3
        <4> QED
          BY <1>1, <4>1 DEF PairsOK
      <3> QED
        BY <3>1, <3>2, <3>3
    <2> QED
      BY <1>2, <1>3, <2>1 DEF PairsOK
  <1> QED
    BY <1>1, <1>16, <1>17, <1>20, WorkKeeps DEF SearchInv, TransferOK

\* or to any that is posted, when signals have been listed in another order.
LEMMA ArriveStrays ==
    ASSUME SearchInv, stage = "transfer", NEW r \in Ranks, NEW s \in Ranks, Arrive(s, r), ~inOrder
    PROVE  SearchInv'
  <1> USE DEF Recvs, Locals
  <1> DEFINE x == Head(posted[r][s])[1]
             y == Head(posted[r][s])[2]
             v == Head(wire[s][r])
             D == data[r]
             d == [D EXCEPT ![x] = [D[x] EXCEPT ![y] = v]]
  <1>1. /\ here \in Cases /\ WorkOK /\ TablesOK /\ RanksOK
        /\ UNCHANGED <<here, work, stage, inOrder>>
    BY DEF SearchInv, TransferOK, Arrive, workVars
  <1>2. Ranks' = Ranks
    BY <1>1 DEF Ranks
  <1>3. /\ data' = [data EXCEPT ![r][x][y] = v]
        /\ wire' = [wire EXCEPT ![s][r] = Tail(@)]
        /\ posted' = [posted EXCEPT ![r][s] = Tail(@)]
        /\ UNCHANGED <<work, signals, answered, nextRecv, nextLocal, slots, flying, searched>>
    BY DEF Arrive, workVars
  <1>4. OnPairs(Ranks, wire) /\ OnPairs(Ranks, posted) /\ OnRanks(Ranks, data)
    BY <1>1 DEF TablesOK
  <1>5. RankOK(work[r].recvs, work[r].locals, nextRecv[r], nextLocal[r], slots[r], D, searched[r])
    BY <1>1 DEF RanksOK
  <1>6. D = [slot \in Slots |-> [part \in 1 .. Parts |-> D[slot][part]]]
    BY <1>5 DEF RankOK
  <1> HIDE DEF x, y, v
  <1>7. data' = [data EXCEPT ![r] = d]
    BY <1>3
  <1>8. d = [slot \in Slots |-> [part \in 1 .. Parts |-> d[slot][part]]]
    <2> HIDE DEF D, d, Slots
    <2>1. d = [D EXCEPT ![x] = [D[x] EXCEPT ![y] = v]]
      BY DEF d
    <2>2. /\ d = [slot \in Slots |-> d[slot]]
          /\ \A slot \in Slots : d[slot] = IF slot = x THEN [D[x] EXCEPT ![y] = v] ELSE D[slot]
      BY <1>6, <2>1
    <2>3. ASSUME NEW slot \in Slots
          PROVE  d[slot] = [part \in 1 .. Parts |-> d[slot][part]]
      <3> DEFINE e == D[slot]
      <3>1. e = [part \in 1 .. Parts |-> e[part]]
        BY <1>6
      <3>2. d[slot] = e \/ d[slot] = [e EXCEPT ![y] = v]
        BY <2>2
      <3> HIDE DEF e
      <3>3. [e EXCEPT ![y] = v] = [part \in 1 .. Parts |-> [e EXCEPT ![y] = v][part]]
        BY <3>1
      <3> QED
        BY <3>1, <3>2, <3>3
    <2> QED
      BY <2>2, <2>3
  <1> HIDE DEF d, D
  <1>9. OnRanks(Ranks, data') /\ data'[r] = d /\ \A z \in Ranks : z # r => data'[z] = data[z]
    BY <1>4, <1>7 DEF OnRanks
  <1>10. TablesOK'
    <2>1. OnPairs(Ranks, wire')
      BY <1>3, <1>4 DEF OnPairs
    <2>2. OnPairs(Ranks, posted')
      BY <1>3, <1>4 DEF OnPairs
    <2> QED
      BY <1>1, <1>2, <1>3, <1>9, <2>1, <2>2 DEF TablesOK
  <1>11. RanksOK'
    <2>1. ASSUME NEW z \in Ranks
          PROVE  RankOK(work[z].recvs, work[z].locals, nextRecv[z], nextLocal[z], slots[z], data'[z], searched[z])
      <3>1. CASE z = r
        <4>1. RankOK(work[r].recvs, work[r].locals, nextRecv[r], nextLocal[r], slots[r], d, searched[r])
          BY <1>5, <1>8 DEF RankOK
        <4> QED
          BY <1>9, <3>1, <4>1
      <3>2. CASE z # r
        BY <1>1, <1>9, <3>2 DEF RanksOK
      <3> QED
        BY <3>1, <3>2
    <2> QED
      BY <1>2, <1>3, <2>1 DEF RanksOK
  <1> QED
    BY <1>1, <1>10, <1>11, WorkKeeps DEF SearchInv, TransferOK

LEMMA ArriveKeeps ==
    ASSUME SearchInv, stage = "transfer", NEW r \in Ranks, NEW s \in Ranks, Arrive(s, r)
    PROVE  SearchInv'
  BY ArriveMeets, ArriveStrays
-----------------------------------------------------------------------------
\* Signals that are listed by index are answered in the order of what they ask for.
LEMMA AnswersAnswered ==
    ASSUME NEW s, NEW r, answered[s][r] \in Nat, signals[r][s] \in Nat,
           NEW listed, \A i \in 1 .. signals[r][s] : listed[i] = i
    PROVE  Answered(Answers(s, r, listed), AnswersTo(s, r), answered[s][r], signals[r][s])
  <1> Parts \in Nat \ {0}
    BY OverlapSearchAssumption
  <1> DEFINE a == answered[s][r]
             k == signals[r][s]
             more == Answers(s, r, listed)
  <1>1. a \in Nat /\ k \in Nat /\ \A i \in 1 .. k : listed[i] = i
    OBVIOUS
  <1>2. more = [j \in 1 .. Parts * k |-> Sent(s, Answer(s, r, a + listed[1 + (j - 1) \div Parts]))]
    BY DEF Answers
  <1> HIDE DEF a, k, more
  <1> DEFINE P == Parts * k
  <1>3. P \in Nat
    BY <1>1
  <1>4. \A j \in 1 .. P : /\ a + 1 + (j - 1) \div Parts \in Nat
                          /\ a + listed[1 + (j - 1) \div Parts] = a + 1 + (j - 1) \div Parts
    <2> TAKE j \in 1 .. P
    <2> DEFINE q == (j - 1) \div Parts
    <2>1. j \in Nat \ {0}
      BY <1>3
    <2>2. q \in Nat /\ Parts * q <= j - 1
      BY <2>1
    <2> HIDE DEF q
    <2>3. q < k
      <3> SUFFICES ASSUME k <= q PROVE FALSE
        BY <1>1, <2>2
      <3>1. q - k \in Nat /\ q = k + (q - k)
        BY <1>1, <2>2
      <3>2. Parts * (q - k) \in Nat /\ Parts * q = P + Parts * (q - k)
        BY <1>1, <2>2, <3>1 DEF P
      <3> QED
        BY <1>3, <2>1, <2>2, <3>2
    <2>4. 1 + q \in 1 .. k
      BY <1>1, <2>2, <2>3
    <2>5. listed[1 + q] = 1 + q
      BY <1>1, <2>4
    <2>6. a + 1 + q \in Nat /\ a + listed[1 + q] = a + 1 + q
      BY <1>1, <2>2, <2>5
    <2> QED
      BY <2>6 DEF q
  <1> HIDE DEF P
  <1>5. IsLog(more) /\ Len(more) = P
    BY <1>2, <1>3 DEF IsLog, P
  <1>6. \A j \in 1 .. P : more[j] = AnswersTo(s, r)[a + 1 + (j - 1) \div Parts]
    BY <1>2, <1>4 DEF AnswersTo, P
  <1>7. Answered(more, AnswersTo(s, r), a, k)
    BY <1>5, <1>6 DEF Answered, P
  <1> QED
    BY <1>7 DEF a, k, more

\* What goes on between ranks, once the rank whose turn it is has answered.
MidPairs ==
    \A x, y \in Ranks :
      PairOK(work[x].recvs, y, nextRecv[x], slots[x], data[x], posted[x][y], flying[x][y],
             signals'[x][y], answered'[y][x], wire'[y][x])

\* A rank answers all signals that are there.
LEMMA AnswersKeep ==
    ASSUME TransferOK, NEW s \in Ranks, AnswerSignals(s)
    PROVE  /\ OnPairs(Ranks, wire') /\ OnPairs(Ranks, signals') /\ OnPairs(Ranks, answered')
           /\ inOrder' => MidPairs
  <1> USE DEF Recvs, Locals
  <1>0. PICK listed :
          /\ wire' = [wire EXCEPT ![s] = [r \in Ranks |-> wire[s][r] \o Answers(s, r, listed[r])]]
          /\ inOrder' = (inOrder /\ ListedByIndex(s, listed))
    BY DEF AnswerSignals
  <1>1. /\ wire' = [wire EXCEPT ![s] = [r \in Ranks |-> wire[s][r] \o Answers(s, r, listed[r])]]
        /\ inOrder' => inOrder /\ ListedByIndex(s, listed)
        /\ answered' = [answered EXCEPT ![s] = [r \in Ranks |-> answered[s][r] + signals[r][s]]]
        /\ signals' = [r \in Ranks |-> [signals[r] EXCEPT ![s] = 0]]
    BY <1>0 DEF AnswerSignals
  <1>2. WorkOK /\ (inOrder => PairsOK) /\ OnPairs(Ranks, wire) /\ OnPairs(Ranks, answered) /\ OnPairs(Ranks, signals)
    BY DEF TransferOK, TablesOK
  <1>3. OnPairs(Ranks, wire') /\ OnPairs(Ranks, signals') /\ OnPairs(Ranks, answered')
    <2>1. OnPairs(Ranks, wire')
      BY <1>1, <1>2 DEF OnPairs
    <2>2. OnPairs(Ranks, signals')
      BY <1>1, <1>2 DEF OnPairs
    <2>3. OnPairs(Ranks, answered')
      BY <1>1, <1>2 DEF OnPairs
    <2> QED
      BY <2>1, <2>2, <2>3
  <1>4. ASSUME NEW r \in Ranks
        PROVE  /\ wire'[s][r] = wire[s][r] \o Answers(s, r, listed[r])
               /\ answered'[s][r] = answered[s][r] + signals[r][s]
               /\ signals'[r][s] = 0
    BY <1>1, <1>2 DEF OnPairs
  <1>5. ASSUME NEW r \in Ranks, NEW v \in Ranks, v # s
        PROVE  /\ wire'[v][r] = wire[v][r] /\ answered'[v][r] = answered[v][r]
               /\ signals'[r][v] = signals[r][v]
    BY <1>1, <1>2, <1>5 DEF OnPairs
  <1>6. ASSUME inOrder', NEW r \in Ranks, NEW v \in Ranks
        PROVE  PairOK(work[r].recvs, v, nextRecv[r], slots[r], data[r], posted[r][v], flying[r][v],
                      signals'[r][v], answered'[v][r], wire'[v][r])
    <2>1. PairOK(work[r].recvs, v, nextRecv[r], slots[r], data[r], posted[r][v], flying[r][v],
                 signals[r][v], answered[v][r], wire[v][r])
      BY <1>1, <1>2, <1>6 DEF PairsOK
    <2>2. CASE v = s
      <3> DEFINE w == work[r].recvs
                 sig == signals[r][s]
                 a == answered[s][r]
                 line == wire[s][r]
                 answer == AnswersTo(s, r)
                 more == Answers(s, r, listed[r])
      <3>1. AnswersFor(w, s, answer) /\ Len(w) \in Nat
        BY <1>2 DEF WorkOK, EntriesOK, IsLog
      <3>2. PairOK(w, s, nextRecv[r], slots[r], data[r], posted[r][s], flying[r][s], sig, a, line)
        BY <2>1, <2>2
      <3>3. a \in Nat /\ sig \in Nat
        BY <3>2 DEF PairOK
      <3>4. Answered(more, answer, a, sig)
        <4>1. \A i \in 1 .. signals[r][s] : listed[r][i] = i
          BY <1>1, <1>6 DEF ListedByIndex
        <4> QED
          BY <3>3, <4>1, AnswersAnswered
      <3>5. /\ signals'[r][s] = 0 /\ answered'[s][r] = a + sig /\ wire'[s][r] = line \o more
        BY <1>4
      <3> DEFINE n == nextRecv[r]
                 S == slots[r]
                 D == data[r]
                 post == posted[r][s]
                 fly == flying[r][s]
      <3>6. PairOK(w, s, n, S, D, post, fly, sig, a, line)
        BY <3>2
      <3> HIDE DEF w, sig, a, line, answer, more, n, S, D, post, fly
      <3>7. PairOK(w, s, n, S, D, post, fly, 0, a + sig, line \o more)
        BY <3>1, <3>4, <3>6, PairAnswered
      <3> QED
        BY <2>2, <3>5, <3>7 DEF w, n, S, D, post, fly
    <2>3. CASE v # s
      BY <1>5, <2>1, <2>3
    <2> QED
      BY <2>2, <2>3
  <1> QED
    BY <1>3, <1>6 DEF MidPairs
-----------------------------------------------------------------------------
\* One entry of a table changes.
LEMMA RankTable ==
    ASSUME NEW R, NEW f, OnRanks(R, f), NEW r \in R, NEW v
    PROVE  /\ OnRanks(R, [f EXCEPT ![r] = v])
           /\ [f EXCEPT ![r] = v][r] = v
           /\ \A z \in R : z # r => [f EXCEPT ![r] = v][z] = f[z]
  BY DEF OnRanks

\* What the ranks have of each other when a slot is free, and when it gets the next fragment.
LEMMA PairFrees ==
    ASSUME NEW w, NEW s, NEW n, NEW S, NEW D, NEW post, NEW fly, NEW sig, NEW a, NEW line,
           PairOK(w, s, n, S, D, post, fly, sig, a, line), S = [slot \in Slots |-> S[slot]],
           NEW x \in Slots, \A part \in 1 .. Parts : D[x][part] # Nothing
    PROVE  PairOK(w, s, n, [S EXCEPT ![x] = 0], D, post, fly, sig, a, line)
  <1> DEFINE S2 == [S EXCEPT ![x] = 0]
  <1>1. S2[x] = 0 /\ \A slot \in Slots : slot # x => S2[slot] = S[slot]
    OBVIOUS
  <1>2. ~HeldFrom(w, s, S2, x)
    BY <1>1 DEF HeldFrom
  <1>3. \A part \in 1 .. Parts : HeldFrom(w, s, S, x) => D[x][part] # Nothing
    OBVIOUS
  <1>4. \A slot \in Slots : slot # x => S2[slot] = S[slot] /\ D[slot] = D[slot]
    BY <1>1
  <1>5. Asked(w, s, n) = Asked(w, s, n)
    OBVIOUS
  <1> HIDE DEF S2, Slots
  <1>6. PairOK(w, s, n, S2, D, post, fly, sig, a, line)
    BY <1>2, <1>3, <1>4, <1>5, PairStays
  <1> QED
    BY <1>6 DEF S2

LEMMA PairRefills ==
    ASSUME NEW w, NEW s, NEW n \in Nat, NEW S, NEW D, NEW post, NEW fly, NEW sig, NEW a, NEW line,
           PairOK(w, s, n, S, D, post, fly, sig, a, line), S = [slot \in Slots |-> S[slot]],
           D = [slot \in Slots |-> D[slot]],
           NEW x \in Slots, \A part \in 1 .. Parts : D[x][part] # Nothing
    PROVE  PairOK(w, s, n + 1, [S EXCEPT ![x] = n + 1], [D EXCEPT ![x] = EmptySlot],
                  IF w[n + 1][2] = s THEN post \o PartsOf(x) ELSE post,
                  IF w[n + 1][2] = s THEN fly + 1 ELSE fly, sig, a, line)
  <1> DEFINE S2 == [S EXCEPT ![x] = n + 1]
             D2 == [D EXCEPT ![x] = EmptySlot]
             S0 == [S EXCEPT ![x] = 0]
  <1>1. /\ S2[x] = n + 1 /\ \A slot \in Slots : slot # x => S2[slot] = S[slot]
        /\ D2[x] = EmptySlot /\ \A slot \in Slots : slot # x => D2[slot] = D[slot]
        /\ S0[x] = 0 /\ \A slot \in Slots : slot # x => S0[slot] = S[slot]
    OBVIOUS
  <1>2. \A part \in 1 .. Parts : HeldFrom(w, s, S, x) => D[x][part] # Nothing
    OBVIOUS
  <1>3. CASE w[n + 1][2] = s
    <2>1. ~HeldFrom(w, s, S0, x)
      BY <1>1 DEF HeldFrom
    <2>2. \A slot \in Slots : slot # x => S0[slot] = S[slot] /\ D2[slot] = D[slot]
      BY <1>1
    <2>3. \A slot \in Slots : slot # x => S2[slot] = S0[slot] /\ D2[slot] = D2[slot]
      BY <1>1
    <2>4. \A part \in 1 .. Parts : D2[x][part] = Nothing
      BY <1>1 DEF EmptySlot
    <2>5. Asked(w, s, n) = Asked(w, s, n)
      OBVIOUS
    <2>6. S2[x] = n + 1
      BY <1>1
    <2> HIDE DEF S2, D2, S0, Slots
    <2>7. PairOK(w, s, n, S0, D2, post, fly, sig, a, line)
      BY <1>2, <2>1, <2>2, <2>5, PairStays
    <2>8. PairOK(w, s, n + 1, S2, D2, post \o PartsOf(x), fly + 1, sig, a, line)
      BY <1>3, <2>1, <2>3, <2>4, <2>6, <2>7, PairGrows
    <2> QED
      BY <1>3, <2>8 DEF S2, D2
  <1>4. CASE w[n + 1][2] # s
    <2>1. n + 1 \in Nat /\ n + 1 > 0 /\ (n + 1) - 1 = n
      OBVIOUS
    <2>2. Asked(w, s, n + 1) = Asked(w, s, n)
      BY <1>4, <2>1, AskedIs
    <2>3. ~HeldFrom(w, s, S2, x)
      BY <1>1, <1>4 DEF HeldFrom
    <2>4. \A slot \in Slots : slot # x => S2[slot] = S[slot] /\ D2[slot] = D[slot]
      BY <1>1
    <2> HIDE DEF S2, D2, S0, Slots
    <2>5. PairOK(w, s, n + 1, S2, D2, post, fly, sig, a, line)
      BY <1>2, <2>2, <2>3, <2>4, PairStays
    <2> QED
      BY <1>4, <2>5 DEF S2, D2
  <1> QED
    BY <1>3, <1>4
-----------------------------------------------------------------------------
\* A slot whose fragment has been searched is free
LEMMA RankFrees ==
    ASSUME NEW w, NEW l, EntriesOK(w, l), NEW n, NEW nl, NEW S, NEW D, NEW F, RankOK(w, l, n, nl, S, D, F),
           NEW x \in Slots, S[x] # 0, NEW v, n = Len(w)
    PROVE  RankOK(w, l, n, nl, [S EXCEPT ![x] = 0], D, [F EXCEPT ![w[S[x]]] = Append(@, v)])
  <1> DEFINE S2 == [S EXCEPT ![x] = 0]
             F2 == [F EXCEPT ![w[S[x]]] = Append(@, v)]
  <1>1. D = [slot \in Slots |-> [part \in 1 .. Parts |-> D[slot][part]]]
    BY DEF RankOK
  <1>2. S2 = [S EXCEPT ![x] = IF n = n THEN 0 ELSE n + 1] /\ F2 = [F EXCEPT ![w[S[x]]] = Append(@, v)]
    OBVIOUS
  <1>3. (n = n /\ n = Len(w)) \/ (n = n + 1 /\ n < Len(w))
    OBVIOUS
  <1> HIDE DEF S2, F2, Slots
  <1>4. RankOK(w, l, n, nl, S2, D, F2)
    BY <1>1, <1>2, <1>3, RankSearches
  <1> QED
    BY <1>4 DEF S2, F2

\* or gets the next fragment.
LEMMA RankRefills ==
    ASSUME NEW w, NEW l, EntriesOK(w, l), NEW n \in Nat, NEW nl, NEW S, NEW D, NEW F,
           RankOK(w, l, n, nl, S, D, F),
           NEW x \in Slots, S[x] # 0, NEW v, n < Len(w)
    PROVE  RankOK(w, l, n + 1, nl, [S EXCEPT ![x] = n + 1], [D EXCEPT ![x] = EmptySlot],
                  [F EXCEPT ![w[S[x]]] = Append(@, v)])
  <1> DEFINE S2 == [S EXCEPT ![x] = n + 1]
             D2 == [D EXCEPT ![x] = EmptySlot]
             F2 == [F EXCEPT ![w[S[x]]] = Append(@, v)]
             n2 == n + 1
  <1>1. D = [slot \in Slots |-> [part \in 1 .. Parts |-> D[slot][part]]]
    BY DEF RankOK
  <1>2. D2 = [slot \in Slots |-> [part \in 1 .. Parts |-> D2[slot][part]]]
    <2> DEFINE v0 == EmptySlot
    <2>1. v0 = [part \in 1 .. Parts |-> v0[part]]
      BY DEF EmptySlot
    <2> HIDE DEF v0, Slots, D2
    <2>2. D = [slot \in Slots |-> D[slot]] /\ \A slot \in Slots : D[slot] = [part \in 1 .. Parts |-> D[slot][part]]
      BY <1>1
    <2>3. D2 = [D EXCEPT ![x] = v0]
      BY DEF D2, v0
    <2>4. D2 = [slot \in Slots |-> D2[slot]] /\ D2[x] = v0 /\ \A slot \in Slots : slot # x => D2[slot] = D[slot]
      BY <2>2, <2>3
    <2>5. \A slot \in Slots : D2[slot] = [part \in 1 .. Parts |-> D2[slot][part]]
      BY <2>1, <2>2, <2>4
    <2> QED
      BY <2>4, <2>5
  <1>3. n2 # n /\ n2 = n + 1
    OBVIOUS
  <1>4. S2 = [S EXCEPT ![x] = IF n2 = n THEN 0 ELSE n + 1] /\ F2 = [F EXCEPT ![w[S[x]]] = Append(@, v)]
    BY <1>3
  <1>5. (n2 = n /\ n = Len(w)) \/ (n2 = n + 1 /\ n < Len(w))
    BY <1>3
  <1> HIDE DEF S2, D2, F2, n2, Slots
  <1>6. RankOK(w, l, n2, nl, S2, D2, F2)
    BY <1>2, <1>4, <1>5, RankSearches
  <1> QED
    BY <1>6 DEF S2, D2, F2, n2

\* What is the case when a fragment is there.
LEMMA FinishedSlotIs ==
    ASSUME TransferOK, NEW r \in Ranks, FinishedSlots(r) # {}
    PROVE  /\ Min(FinishedSlots(r)) \in Slots /\ slots[r][Min(FinishedSlots(r))] # 0
           /\ \A part \in 1 .. Parts : data[r][Min(FinishedSlots(r))][part] # Nothing
  <1>1. FinishedSlots(r) \in SUBSET Slots /\ Slots \in SUBSET Nat
    BY OverlapSearchAssumption DEF FinishedSlots, Slots
  <1>2. FinishedSlots(r) \in SUBSET Nat
    BY <1>1
  <1> DEFINE x == Min(FinishedSlots(r))
  <1>3. x \in FinishedSlots(r)
    BY <1>2, LeastOf
  <1> HIDE DEF x
  <1> QED
    BY <1>3 DEF FinishedSlots, x

\* What holds for a rank, taken from the tables.
LEMMA OfRank ==
    ASSUME TransferOK, NEW r \in Ranks
    PROVE  /\ EntriesOK(work[r].recvs, work[r].locals)
           /\ RankOK(work[r].recvs, work[r].locals, nextRecv[r], nextLocal[r], slots[r], data[r], searched[r])
           /\ nextRecv[r] \in Nat /\ Len(work[r].recvs) \in Nat
           /\ \A i \in 1 .. Len(work[r].recvs) : work[r].recvs[i][2] \in Ranks
           /\ slots[r] = [slot \in Slots |-> slots[r][slot]]
           /\ data[r] = [slot \in Slots |-> data[r][slot]]
  <1>1. /\ EntriesOK(work[r].recvs, work[r].locals)
        /\ \A i \in 1 .. Len(work[r].recvs) : work[r].recvs[i][2] \in Ranks
    BY DEF TransferOK, WorkOK, Recvs, Locals
  <1>2. RankOK(work[r].recvs, work[r].locals, nextRecv[r], nextLocal[r], slots[r], data[r], searched[r])
    BY DEF TransferOK, RanksOK, Recvs, Locals
  <1>3. Len(work[r].recvs) \in Nat /\ nextRecv[r] \in 0 .. Len(work[r].recvs)
    BY <1>2 DEF RankOK, SlotsOK, IsLog
  <1>4. slots[r] = [slot \in Slots |-> slots[r][slot]]
    BY <1>2 DEF RankOK
  <1> DEFINE D == data[r]
  <1>5. D = [slot \in Slots |-> [part \in 1 .. Parts |-> D[slot][part]]]
    BY <1>2 DEF RankOK
  <1> HIDE DEF D, Slots
  <1>6. D = [slot \in Slots |-> D[slot]]
    BY <1>5
  <1> QED
    BY <1>1, <1>2, <1>3, <1>4, <1>6 DEF D
-----------------------------------------------------------------------------
\* Nothing changes but the entry of r.
OthersKeep(f, r, g) == OnRanks(Ranks, g) /\ \A z \in Ranks : z # r => g[z] = f[z]

\* The rank whose turn it is has answered, and the library's tables are those afterwards.
Answering ==
    /\ (inOrder' => MidPairs) /\ UNCHANGED <<here, work>>
    /\ OnPairs(Ranks, wire') /\ OnPairs(Ranks, signals') /\ OnPairs(Ranks, answered')

\* One rank changes what is its own.
LEMMA RankChanges ==
    ASSUME TransferOK, Answering, NEW r \in Ranks,
           OthersKeep(nextRecv, r, nextRecv'), OthersKeep(nextLocal, r, nextLocal'),
           OthersKeep(slots, r, slots'), OthersKeep(data, r, data'), OthersKeep(searched, r, searched'),
           OthersKeep(posted, r, posted'), OthersKeep(flying, r, flying'),
           OnPairs(Ranks, posted'), OnPairs(Ranks, flying'),
           RankOK(work[r].recvs, work[r].locals, nextRecv'[r], nextLocal'[r], slots'[r], data'[r], searched'[r]),
           inOrder' => \A v \in Ranks :
             PairOK(work[r].recvs, v, nextRecv'[r], slots'[r], data'[r], posted'[r][v], flying'[r][v],
                    signals'[r][v], answered'[v][r], wire'[v][r])
    PROVE  TransferOK'
  <1> USE DEF Recvs, Locals
  <1>1. UNCHANGED <<here, work>> /\ Ranks' = Ranks /\ WorkOK
    BY DEF Answering, Ranks, TransferOK
  <1>2. WorkOK'
    BY <1>1, WorkKeeps
  <1>3. TablesOK'
    BY <1>1 DEF TablesOK, Answering, OthersKeep
  <1>4. RanksOK'
    <2>1. ASSUME NEW z \in Ranks, z # r
          PROVE  RankOK(work[z].recvs, work[z].locals, nextRecv'[z], nextLocal'[z], slots'[z], data'[z], searched'[z])
      <3>1. RankOK(work[z].recvs, work[z].locals, nextRecv[z], nextLocal[z], slots[z], data[z], searched[z])
        BY DEF TransferOK, RanksOK
      <3> QED
        BY <2>1, <3>1 DEF OthersKeep
    <2> QED
      BY <1>1, <2>1 DEF RanksOK
  <1>5. ASSUME inOrder'
        PROVE  PairsOK'
    <2>1. ASSUME NEW u \in Ranks, NEW v \in Ranks, u # r
          PROVE  PairOK(work[u].recvs, v, nextRecv'[u], slots'[u], data'[u], posted'[u][v], flying'[u][v],
                        signals'[u][v], answered'[v][u], wire'[v][u])
      <3>1. PairOK(work[u].recvs, v, nextRecv[u], slots[u], data[u], posted[u][v], flying[u][v],
                   signals'[u][v], answered'[v][u], wire'[v][u])
        BY <1>5 DEF Answering, MidPairs
      <3> QED
        BY <2>1, <3>1 DEF OthersKeep
    <2> QED
      BY <1>1, <1>5, <2>1 DEF PairsOK
  <1> QED
    BY <1>2, <1>3, <1>4, <1>5 DEF TransferOK

\* Tables of ranks, when nothing changes, when an entry does, and when an entry of an entry does.
LEMMA KeepsAll ==
    ASSUME NEW f, OnRanks(Ranks, f), NEW r
    PROVE  OthersKeep(f, r, f)
  BY DEF OthersKeep

LEMMA OthersKept ==
    ASSUME NEW f, OnRanks(Ranks, f), NEW r \in Ranks, NEW v
    PROVE  OthersKeep(f, r, [f EXCEPT ![r] = v]) /\ [f EXCEPT ![r] = v][r] = v
  BY RankTable DEF OthersKeep

LEMMA RowsKept ==
    ASSUME NEW f, OnPairs(Ranks, f), NEW r \in Ranks, NEW t \in Ranks, NEW v
    PROVE  OthersKeep(f, r, [f EXCEPT ![r][t] = v])
  BY DEF OthersKeep, OnRanks, OnPairs

LEMMA PairsAreRows ==
    ASSUME NEW f, OnPairs(Ranks, f)
    PROVE  OnRanks(Ranks, f)
  BY DEF OnPairs, OnRanks

\* A fragment is searched, and nothing else.
LEMMA SearchedChanges ==
    ASSUME TransferOK, NEW r \in Ranks, NEW x,
           searched' = [searched EXCEPT ![r][Entry(r, x)] = Append(@, data[r][x])]
    PROVE  /\ OthersKeep(searched, r, searched')
           /\ searched'[r] = [searched[r] EXCEPT ![work[r].recvs[slots[r][x]]] = Append(@, data[r][x])]
  <1> DEFINE e == work[r].recvs[slots[r][x]]
             v == data[r][x]
             f == [searched[r] EXCEPT ![e] = Append(@, v)]
  <1>1. OnRanks(Ranks, searched)
    BY DEF TransferOK, TablesOK
  <1>2. Entry(r, x) = e
    BY DEF Entry, Recvs
  <1>3. searched' = [searched EXCEPT ![r][e] = Append(@, v)]
    BY <1>2
  <1> HIDE DEF e, v
  <1>4. searched' = [searched EXCEPT ![r] = f]
    BY <1>3
  <1> HIDE DEF f
  <1>5. OthersKeep(searched, r, [searched EXCEPT ![r] = f]) /\ [searched EXCEPT ![r] = f][r] = f
    BY <1>1, OthersKept
  <1>6. OthersKeep(searched, r, searched') /\ searched'[r] = f
    BY <1>4, <1>5
  <1> QED
    BY <1>6 DEF f, e, v

\* There is no fragment left for the slot of a fragment that has been searched.
LEMMA FreeKeeps ==
    ASSUME TransferOK, Answering, NEW r \in Ranks, NEW x \in Slots, slots[r][x] # 0,
           \A part \in 1 .. Parts : data[r][x][part] # Nothing,
           searched' = [searched EXCEPT ![r][Entry(r, x)] = Append(@, data[r][x])],
           Free(r, x), nextLocal' = nextLocal
    PROVE  TransferOK'
  <1> DEFINE w == work[r].recvs
             l == work[r].locals
             n == nextRecv[r]
             nl == nextLocal[r]
             S == slots[r]
             D == data[r]
             F == searched[r]
             v == data[r][x]
             S2 == [S EXCEPT ![x] = 0]
             F2 == [F EXCEPT ![w[S[x]]] = Append(@, v)]
  <1>1. /\ n = Len(w) /\ slots' = [slots EXCEPT ![r] = S2]
        /\ UNCHANGED <<posted, flying, data, nextRecv>>
    BY DEF Free, Recvs
  <1>2. /\ OnRanks(Ranks, nextRecv) /\ OnRanks(Ranks, nextLocal) /\ OnRanks(Ranks, slots)
        /\ OnRanks(Ranks, data) /\ OnPairs(Ranks, posted) /\ OnPairs(Ranks, flying)
    BY DEF TransferOK, TablesOK
  <1>3. OthersKeep(searched, r, searched') /\ searched'[r] = F2
    BY SearchedChanges
  <1> HIDE DEF S2
  <1>4. OthersKeep(slots, r, slots') /\ slots'[r] = S2
    BY <1>1, <1>2, OthersKept
  <1>5. OthersKeep(nextRecv, r, nextRecv') /\ OthersKeep(nextLocal, r, nextLocal') /\ OthersKeep(data, r, data')
    BY <1>1, <1>2, KeepsAll
  <1>6. OthersKeep(posted, r, posted') /\ OthersKeep(flying, r, flying')
    BY <1>1, <1>2, KeepsAll, PairsAreRows
  <1>7. /\ EntriesOK(w, l) /\ RankOK(w, l, n, nl, S, D, F) /\ S = [slot \in Slots |-> S[slot]]
        /\ S[x] # 0 /\ \A part \in 1 .. Parts : D[x][part] # Nothing
    BY OfRank
  <1>8. RankOK(w, l, n, nl, S2, D, F2)
    <2> HIDE DEF w, l, n, nl, S, D, F, v, F2, Slots
    <2>1. RankOK(w, l, n, nl, [S EXCEPT ![x] = 0], D, [F EXCEPT ![w[S[x]]] = Append(@, v)])
      BY <1>1, <1>7, RankFrees
    <2> QED
      BY <2>1 DEF S2, F2
  <1>9. ASSUME inOrder', NEW u \in Ranks
        PROVE  PairOK(w, u, n, S2, D, posted'[r][u], flying'[r][u], signals'[r][u], answered'[u][r], wire'[u][r])
    <2> DEFINE post == posted[r][u]
               fly == flying[r][u]
               sig == signals'[r][u]
               a == answered'[u][r]
               line == wire'[u][r]
    <2>1. PairOK(w, u, n, S, D, post, fly, sig, a, line)
      BY <1>9 DEF Answering, MidPairs
    <2>2. posted'[r][u] = post /\ flying'[r][u] = fly
      BY <1>1
    <2> HIDE DEF w, n, S, D, post, fly, sig, a, line, Slots
    <2>3. PairOK(w, u, n, [S EXCEPT ![x] = 0], D, post, fly, sig, a, line)
      BY <1>7, <2>1, PairFrees
    <2> QED
      BY <2>2, <2>3 DEF S2, sig, a, line
  <1> HIDE DEF F2
  <1>10. /\ RankOK(w, l, nextRecv'[r], nextLocal'[r], slots'[r], data'[r], searched'[r])
         /\ inOrder' => \A u \in Ranks :
                          PairOK(w, u, nextRecv'[r], slots'[r], data'[r], posted'[r][u], flying'[r][u],
                                    signals'[r][u], answered'[u][r], wire'[u][r])
    BY <1>1, <1>3, <1>4, <1>8, <1>9
  <1>11. OnPairs(Ranks, posted') /\ OnPairs(Ranks, flying')
    BY <1>1, <1>2
  <1> QED
    BY <1>3, <1>4, <1>5, <1>6, <1>10, <1>11, RankChanges

\* The slot of a fragment that has been searched gets the next one, and its rank a signal.
LEMMA RefillKeeps ==
    ASSUME TransferOK, Answering, NEW r \in Ranks, NEW x \in Slots, slots[r][x] # 0,
           \A part \in 1 .. Parts : data[r][x][part] # Nothing,
           searched' = [searched EXCEPT ![r][Entry(r, x)] = Append(@, data[r][x])],
           Refill(r, x), nextLocal' = nextLocal
    PROVE  TransferOK'
  <1> DEFINE w == work[r].recvs
             l == work[r].locals
             n == nextRecv[r]
             nl == nextLocal[r]
             S == slots[r]
             D == data[r]
             F == searched[r]
             v == data[r][x]
             t == w[n + 1][2]
             n2 == n + 1
             S2 == [S EXCEPT ![x] = n + 1]
             D2 == [D EXCEPT ![x] = EmptySlot]
             F2 == [F EXCEPT ![w[S[x]]] = Append(@, v)]
             post2 == posted[r][t] \o PartsOf(x)
             fly2 == flying[r][t] + 1
  <1>1. n < Len(w)
    BY DEF Refill, Recvs
  <1>2. posted' = [posted EXCEPT ![r][t] = post2]
    BY DEF Refill, Recvs
  <1>3. flying' = [flying EXCEPT ![r][t] = fly2]
    BY DEF Refill, Signalled, Recvs
  <1>4. slots' = [slots EXCEPT ![r] = S2]
    BY DEF Refill
  <1>5. data' = [data EXCEPT ![r] = D2]
    BY DEF Refill
  <1>6. nextRecv' = [nextRecv EXCEPT ![r] = n2]
    BY DEF Refill
  <1>7. /\ OnRanks(Ranks, nextRecv) /\ OnRanks(Ranks, nextLocal) /\ OnRanks(Ranks, slots)
        /\ OnRanks(Ranks, data) /\ OnPairs(Ranks, posted) /\ OnPairs(Ranks, flying)
    BY DEF TransferOK, TablesOK
  <1>8. OthersKeep(searched, r, searched') /\ searched'[r] = F2
    BY SearchedChanges
  <1>9. /\ EntriesOK(w, l) /\ RankOK(w, l, n, nl, S, D, F) /\ n \in Nat /\ Len(w) \in Nat
        /\ S = [slot \in Slots |-> S[slot]] /\ D = [slot \in Slots |-> D[slot]]
        /\ S[x] # 0 /\ \A part \in 1 .. Parts : D[x][part] # Nothing
        /\ \A i \in 1 .. Len(w) : w[i][2] \in Ranks
    BY OfRank
  <1>10. t \in Ranks
    <2>1. n + 1 \in 1 .. Len(w)
      BY <1>1, <1>9
    <2> QED
      BY <1>9, <2>1
  <1> HIDE DEF n2, S2, D2, F2, post2, fly2, Slots
  <1>11. /\ OthersKeep(nextRecv, r, nextRecv') /\ nextRecv'[r] = n2
         /\ OthersKeep(nextLocal, r, nextLocal')
    BY <1>6, <1>7, OthersKept, KeepsAll
  <1>12. OthersKeep(slots, r, slots') /\ slots'[r] = S2
    BY <1>4, <1>7, OthersKept
  <1>13. OthersKeep(data, r, data') /\ data'[r] = D2
    BY <1>5, <1>7, OthersKept
  <1> HIDE DEF t
  <1>14. /\ OthersKeep(posted, r, posted') /\ OnPairs(Ranks, posted') /\ posted'[r][t] = post2
         /\ \A u \in Ranks : u # t => posted'[r][u] = posted[r][u]
    <2>1. OthersKeep(posted, r, posted')
      BY <1>2, <1>7, <1>10, RowsKept
    <2>2. OnPairs(Ranks, posted')
      BY <1>2, <1>7 DEF OnPairs
    <2>3. posted'[r][t] = post2
      BY <1>2, <1>7, <1>10 DEF OnPairs
    <2>4. \A u \in Ranks : u # t => posted'[r][u] = posted[r][u]
      BY <1>2, <1>7 DEF OnPairs
    <2> QED
      BY <2>1, <2>2, <2>3, <2>4
  <1>15. /\ OthersKeep(flying, r, flying') /\ OnPairs(Ranks, flying') /\ flying'[r][t] = fly2
         /\ \A u \in Ranks : u # t => flying'[r][u] = flying[r][u]
    <2>1. OthersKeep(flying, r, flying')
      BY <1>3, <1>7, <1>10, RowsKept
    <2>2. OnPairs(Ranks, flying')
      BY <1>3, <1>7 DEF OnPairs
    <2>3. flying'[r][t] = fly2
      BY <1>3, <1>7, <1>10 DEF OnPairs
    <2>4. \A u \in Ranks : u # t => flying'[r][u] = flying[r][u]
      BY <1>3, <1>7 DEF OnPairs
    <2> QED
      BY <2>1, <2>2, <2>3, <2>4
  <1>16. RankOK(w, l, n2, nl, S2, D2, F2)
    <2> HIDE DEF w, l, n, nl, S, D, F, v
    <2>1. RankOK(w, l, n + 1, nl, [S EXCEPT ![x] = n + 1], [D EXCEPT ![x] = EmptySlot],
                 [F EXCEPT ![w[S[x]]] = Append(@, v)])
      BY <1>1, <1>9, RankRefills
    <2> QED
      BY <2>1 DEF n2, S2, D2, F2
  <1>17. ASSUME inOrder', NEW u \in Ranks
         PROVE  PairOK(w, u, n2, S2, D2, posted'[r][u], flying'[r][u], signals'[r][u], answered'[u][r], wire'[u][r])
    <2> DEFINE post == posted[r][u]
               fly == flying[r][u]
               sig == signals'[r][u]
               a == answered'[u][r]
               line == wire'[u][r]
    <2>1. PairOK(w, u, n, S, D, post, fly, sig, a, line)
      BY <1>17 DEF Answering, MidPairs
    <2>2. w[n + 1][2] = u => posted'[r][u] = post \o PartsOf(x) /\ flying'[r][u] = fly + 1
      BY <1>14, <1>15 DEF t, post2, fly2
    <2>3. w[n + 1][2] # u => posted'[r][u] = post /\ flying'[r][u] = fly
      BY <1>14, <1>15 DEF t
    <2> HIDE DEF w, n, S, D, post, fly, sig, a, line
    <2>4. PairOK(w, u, n + 1, [S EXCEPT ![x] = n + 1], [D EXCEPT ![x] = EmptySlot],
                 IF w[n + 1][2] = u THEN post \o PartsOf(x) ELSE post,
                 IF w[n + 1][2] = u THEN fly + 1 ELSE fly, sig, a, line)
      BY <1>9, <2>1, PairRefills
    <2>5. /\ (IF w[n + 1][2] = u THEN post \o PartsOf(x) ELSE post) = posted'[r][u]
          /\ (IF w[n + 1][2] = u THEN fly + 1 ELSE fly) = flying'[r][u]
      BY <2>2, <2>3
    <2> QED
      BY <2>4, <2>5 DEF n2, S2, D2, sig, a, line
  <1>18. /\ RankOK(w, l, nextRecv'[r], nextLocal'[r], slots'[r], data'[r], searched'[r])
         /\ inOrder' => \A u \in Ranks :
                          PairOK(w, u, nextRecv'[r], slots'[r], data'[r], posted'[r][u], flying'[r][u],
                                    signals'[r][u], answered'[u][r], wire'[u][r])
    BY <1>8, <1>11, <1>12, <1>13, <1>16, <1>17
  <1> QED
    BY <1>8, <1>11, <1>12, <1>13, <1>14, <1>15, <1>18, RankChanges

\* The rank goes on with a fragment that has been received.
LEMMA ReceivedKeeps ==
    ASSUME TransferOK, Answering, NEW r \in Ranks, SearchReceived(r)
    PROVE  TransferOK'
  <1> DEFINE x == Min(FinishedSlots(r))
  <1>1. /\ x \in Slots /\ slots[r][x] # 0
        /\ \A part \in 1 .. Parts : data[r][x][part] # Nothing
    BY FinishedSlotIs DEF SearchReceived
  <1>2. /\ searched' = [searched EXCEPT ![r][Entry(r, x)] = Append(@, data[r][x])]
        /\ Refill(r, x) \/ Free(r, x)
        /\ nextLocal' = nextLocal
    BY DEF SearchReceived
  <1> HIDE DEF x
  <1>3. CASE Free(r, x)
    BY <1>1, <1>2, <1>3, FreeKeeps
  <1>4. CASE Refill(r, x)
    BY <1>1, <1>2, <1>4, RefillKeeps
  <1> QED
    BY <1>2, <1>3, <1>4
-----------------------------------------------------------------------------
\* The rank goes on with one of its own fragments.
LEMMA LocalKeeps ==
    ASSUME TransferOK, Answering, NEW r \in Ranks, SearchLocal(r)
    PROVE  TransferOK'
  <1> DEFINE w == work[r].recvs
             l == work[r].locals
             n == nextRecv[r]
             nl == nextLocal[r]
             S == slots[r]
             D == data[r]
             F == searched[r]
             f == l[nl + 1]
             v == [part \in 1 .. Parts |-> f]
             nl2 == nl + 1
             F2 == [F EXCEPT ![f] = Append(@, v)]
  <1>1. /\ nl # Len(l)
        /\ nextLocal' = [nextLocal EXCEPT ![r] = nl2]
        /\ UNCHANGED <<nextRecv, slots, data, posted, flying>>
    BY DEF SearchLocal, LocalsDone, Locals
  <1>2. searched' = [searched EXCEPT ![r] = F2]
    <2>1. searched' = [searched EXCEPT ![r][f] = Append(@, v)]
      BY DEF SearchLocal, Locals
    <2> HIDE DEF f, v
    <2> QED
      BY <2>1
  <1>3. /\ OnRanks(Ranks, nextRecv) /\ OnRanks(Ranks, nextLocal) /\ OnRanks(Ranks, slots)
        /\ OnRanks(Ranks, data) /\ OnRanks(Ranks, searched)
        /\ OnPairs(Ranks, posted) /\ OnPairs(Ranks, flying)
    BY DEF TransferOK, TablesOK
  <1>4. EntriesOK(w, l) /\ RankOK(w, l, n, nl, S, D, F)
    BY OfRank
  <1>5. RankOK(w, l, n, nl2, S, D, F2)
    <2> HIDE DEF w, l, n, nl, S, D, F, v
    <2>1. F2 = [F EXCEPT ![l[nl + 1]] = Append(@, v)]
      OBVIOUS
    <2> HIDE DEF F2
    <2>2. RankOK(w, l, n, nl + 1, S, D, F2)
      BY <1>1, <1>4, <2>1, RankSearchesLocal
    <2> QED
      BY <2>2
  <1> HIDE DEF F2, nl2
  <1>6. OthersKeep(nextLocal, r, nextLocal') /\ nextLocal'[r] = nl2
    BY <1>1, <1>3, OthersKept
  <1>7. OthersKeep(searched, r, searched') /\ searched'[r] = F2
    BY <1>2, <1>3, OthersKept
  <1>8. /\ OthersKeep(nextRecv, r, nextRecv') /\ OthersKeep(slots, r, slots') /\ OthersKeep(data, r, data')
        /\ OthersKeep(posted, r, posted') /\ OthersKeep(flying, r, flying')
        /\ OnPairs(Ranks, posted') /\ OnPairs(Ranks, flying')
    BY <1>1, <1>3, KeepsAll, PairsAreRows
  <1>9. RankOK(w, l, nextRecv'[r], nextLocal'[r], slots'[r], data'[r], searched'[r])
    BY <1>1, <1>5, <1>6, <1>7
  <1>10. inOrder' => \A u \in Ranks :
           PairOK(w, u, nextRecv'[r], slots'[r], data'[r], posted'[r][u], flying'[r][u],
                  signals'[r][u], answered'[u][r], wire'[u][r])
    BY <1>1 DEF Answering, MidPairs
  <1> QED
    BY <1>6, <1>7, <1>8, <1>9, <1>10, RankChanges

\* There is nothing to go on with.
LEMMA NothingKeeps ==
    ASSUME TransferOK, Answering, NEW r \in Ranks, SearchNothing(r)
    PROVE  TransferOK'
  <1>1. UNCHANGED <<nextRecv, nextLocal, slots, data, posted, flying, searched>>
    BY DEF SearchNothing, searchVars
  <1>2. UNCHANGED <<here, work>> /\ Ranks' = Ranks
    BY DEF Answering, Ranks
  <1>3. WorkOK'
    BY <1>2, WorkKeeps DEF TransferOK
  <1>4. TablesOK'
    BY <1>1, <1>2 DEF TransferOK, TablesOK, Answering
  <1>5. RanksOK'
    BY <1>1, <1>2 DEF TransferOK, RanksOK, Recvs, Locals
  <1>6. inOrder' => PairsOK'
    BY <1>1, <1>2 DEF Answering, MidPairs, PairsOK, Recvs
  <1> QED
    BY <1>3, <1>4, <1>5, <1>6 DEF TransferOK

\* One turn of the loop.
LEMMA TurnKeeps ==
    ASSUME SearchInv, NEW r \in Ranks, Turn(r)
    PROVE  SearchInv'
  <1>1. /\ stage = "transfer" /\ AnswerSignals(r) /\ UNCHANGED <<here, stage, workVars>>
        /\ SearchReceived(r) \/ SearchLocal(r) \/ SearchNothing(r)
    BY DEF Turn
  <1>2. TransferOK /\ here \in Cases
    BY <1>1 DEF SearchInv
  <1>3. Answering
    BY <1>1, <1>2, AnswersKeep DEF Answering, workVars
  <1>4. TransferOK'
    <2>1. CASE SearchReceived(r)
      BY <1>2, <1>3, <2>1, ReceivedKeeps
    <2>2. CASE SearchLocal(r)
      BY <1>2, <1>3, <2>2, LocalKeeps
    <2>3. CASE SearchNothing(r)
      BY <1>2, <1>3, <2>3, NothingKeeps
    <2> QED
      BY <1>1, <2>1, <2>2, <2>3
  <1> QED
    BY <1>1, <1>2, <1>4 DEF SearchInv

\* Nothing happens.
LEMMA StandsStill ==
    ASSUME SearchInv, UNCHANGED vars
    PROVE  SearchInv'
  <1>1. UNCHANGED <<here, stage, work, nextRecv, nextLocal, slots, data, posted, wire, flying,
                    signals, answered, inOrder, searched>>
    BY DEF vars, workVars, answerVars, searchVars
  <1>2. Ranks' = Ranks
    BY <1>1 DEF Ranks
  <1>3. StartOK => StartOK'
    BY <1>1, <1>2 DEF StartOK, Slots
  <1>4. ASSUME TransferOK
        PROVE  TransferOK'
    <2>1. WorkOK'
      BY <1>1, <1>4, WorkKeeps DEF TransferOK
    <2>2. TablesOK'
      BY <1>1, <1>2, <1>4 DEF TransferOK, TablesOK
    <2>3. RanksOK'
      BY <1>1, <1>2, <1>4 DEF TransferOK, RanksOK, Recvs, Locals
    <2>4. inOrder' => PairsOK'
      BY <1>1, <1>2, <1>4 DEF TransferOK, PairsOK, Recvs
    <2> QED
      BY <2>1, <2>2, <2>3, <2>4 DEF TransferOK
  <1> QED
    BY <1>1, <1>3, <1>4 DEF SearchInv

\* So it goes on with every step.
LEMMA SearchInvNext ==
    ASSUME SearchInv, [Next]_vars
    PROVE  SearchInv'
  <1>1. CASE Hash
    BY <1>1, HashKeeps
  <1>2. CASE Connect
    BY <1>2, ConnectKeeps
  <1>3. CASE Fill
    BY <1>3, FillKeeps
  <1>4. CASE Done
    BY <1>4, StandsStill DEF Done
  <1>5. ASSUME NEW r \in Ranks, Turn(r)
        PROVE  SearchInv'
    BY <1>5, TurnKeeps
  <1>6. ASSUME NEW r \in Ranks, NEW s \in Ranks, Library(r, s)
        PROVE  SearchInv'
    BY <1>6, SignalArrivesKeeps, ArriveKeeps DEF Library
  <1>7. CASE UNCHANGED vars
    BY <1>7, StandsStill
  <1> QED
    BY <1>1, <1>2, <1>3, <1>4, <1>5, <1>6, <1>7 DEF Next

\* What each rank has done is as it should be, all through the loop, and what is between
\* ranks is, as long as signals are listed in the order in which they were sent.
THEOREM SearchInvHolds == Spec => []SearchInv
  <1>1. SearchInv /\ [Next]_vars => SearchInv'
    BY SearchInvNext
  <1> QED
    BY InitOK, <1>1, PTL DEF Spec

\* As long as Testsome lists signals in the order in which they were sent, messages of
\* fragments meet the receives that were posted for them: the buffers of a slot never hold
\* anything but the fragment that the rank has asked for with it, however many ranks,
\* fragments, slots and parts there are.
THEOREM SlotsHoldTheirFragmentHolds == Spec => []SlotsHoldTheirFragment
  <1>1. SearchInv => SlotsHoldTheirFragment
    <2> SUFFICES ASSUME SearchInv, stage = "transfer", inOrder,
                        NEW r \in Ranks, NEW slot \in {i \in Slots : slots[r][i] # 0}, NEW part \in 1 .. Parts
                 PROVE  data[r][slot][part] \in {Nothing, Entry(r, slot)}
      BY DEF SlotsHoldTheirFragment
    <2> DEFINE w == work[r].recvs
               n == nextRecv[r]
               S == slots[r]
               D == data[r]
               s == w[S[slot]][2]
    <2>1. TransferOK
      BY DEF SearchInv
    <2>2. /\ RankOK(w, work[r].locals, n, nextLocal[r], S, D, searched[r])
          /\ Len(w) \in Nat /\ \A i \in 1 .. Len(w) : w[i][2] \in Ranks
      BY <2>1, OfRank
    <2>3. S[slot] \in 1 .. Len(w) /\ slot \in Slots
      <3>1. S[slot] \in 0 .. n /\ n \in 0 .. Len(w) /\ S[slot] # 0
        BY <2>2 DEF RankOK, SlotsOK
      <3> QED
        BY <2>2, <3>1
    <2>4. s \in Ranks /\ HeldFrom(w, s, S, slot)
      BY <2>2, <2>3 DEF HeldFrom
    <2> DEFINE post == posted[r][s]
               fly == flying[r][s]
               sig == signals[r][s]
               a == answered[s][r]
               line == wire[s][r]
    <2> HIDE DEF s
    <2>5. PairOK(w, s, n, S, D, post, fly, sig, a, line)
      BY <2>1, <2>4 DEF TransferOK, PairsOK, Recvs
    <2> HIDE DEF w, n, S, D, post, fly, sig, a, line
    <2>6. D[slot][part] \in {Nothing, w[S[slot]]}
      BY <2>3, <2>4, <2>5, PairHolds
    <2> QED
      BY <2>6 DEF Entry, Recvs, w, S, D
  <1> QED
    BY SearchInvHolds, <1>1, PTL

\* No fragment is searched twice by a rank, and when its loop ends it has searched all those
\* that its points may lie in, in whatever order signals are listed.
THEOREM FragmentsSearchedOnceHolds == Spec => []FragmentsSearchedOnce
  <1>1. SearchInv => FragmentsSearchedOnce
    <2> SUFFICES ASSUME SearchInv, stage = "transfer", NEW r \in Ranks, NEW f \in DOMAIN searched[r]
                 PROVE  Len(searched[r][f]) <= 1 /\ (LoopDone(r) => Len(searched[r][f]) = 1)
      BY DEF FragmentsSearchedOnce
    <2> DEFINE w == work[r].recvs
               l == work[r].locals
               n == nextRecv[r]
               nl == nextLocal[r]
               S == slots[r]
               D == data[r]
               F == searched[r]
    <2>1. TransferOK
      BY DEF SearchInv
    <2>2. EntriesOK(w, l) /\ RankOK(w, l, n, nl, S, D, F)
      BY <2>1, OfRank
    <2>3. LoopDone(r) => nl = Len(l) /\ \A slot \in Slots : S[slot] = 0
      BY DEF LoopDone, RecvsDone, LocalsDone, Locals
    <2> HIDE DEF w, l, n, nl, S, D, F, Slots
    <2>4. f \in DOMAIN F
      BY DEF F
    <2>5. Len(F[f]) <= 1 /\ (nl = Len(l) /\ (\A slot \in Slots : S[slot] = 0) => Len(F[f]) = 1)
      BY <2>2, <2>4, RankDone
    <2> QED
      BY <2>3, <2>5 DEF F
  <1> QED
    BY SearchInvHolds, <1>1, PTL
===============================================================================
