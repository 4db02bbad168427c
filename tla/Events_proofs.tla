--------------------------- MODULE Events_proofs ----------------------------
(***************************************************************************)
(* What a batch of events says, for any finite set of objects: each object *)
(* is spoken of once, in an order that depends on the set alone, and the   *)
(* last event of the batch, and no other, ends it.  First the order of     *)
(* keys itself: a set sorted by a strict order is a sequence without       *)
(* repetition, of just its elements.                                       *)
(***************************************************************************)
EXTENDS Events, FiniteSetTheorems, SequenceTheorems, TLAPS

StrictOrder(K, R) ==
    /\ \A k \in K : <<k, k>> \notin R
    /\ \A k, l, m \in K : <<k, l>> \in R /\ <<l, m>> \in R => <<k, m>> \in R
    /\ \A k, l \in K : k # l => <<k, l>> \in R \/ <<l, k>> \in R

\* The elements that come before k.
Before(k, K, R) == {l \in K : <<l, k>> \in R}
-----------------------------------------------------------------------------
\* An element has less elements before it than one that comes after it.
LEMMA BeforeGrows ==
    ASSUME NEW K, IsFiniteSet(K), NEW R, StrictOrder(K, R),
           NEW k \in K, NEW l \in K, <<k, l>> \in R
    PROVE  Cardinality(Before(k, K, R)) < Cardinality(Before(l, K, R))
  <1> DEFINE B == Before(k, K, R)
             C == Before(l, K, R)
  <1>1. B \subseteq C /\ k \in C /\ k \notin B /\ C \subseteq K
    BY DEF Before, StrictOrder
  <1>2. IsFiniteSet(C)
    BY <1>1, FS_Subset
  <1>3. IsFiniteSet(B) /\ Cardinality(B) <= Cardinality(C) /\ Cardinality(B) # Cardinality(C)
    BY <1>1, <1>2, FS_Subset
  <1>4. Cardinality(B) \in Nat /\ Cardinality(C) \in Nat
    BY <1>2, <1>3, FS_CardinalityType
  <1> QED
    BY <1>3, <1>4

\* The elements of a finite set stand in order, each of them at one place.
LEMMA SortedInOrder ==
    ASSUME NEW K, IsFiniteSet(K), NEW R, StrictOrder(K, R)
    PROVE  /\ Cardinality(K) \in Nat
           /\ Sorted(K, R) \in [1 .. Cardinality(K) -> K]
           /\ \A k \in K : \E i \in 1 .. Cardinality(K) : Sorted(K, R)[i] = k
           /\ \A i, j \in 1 .. Cardinality(K) :
                 i < j => <<Sorted(K, R)[i], Sorted(K, R)[j]>> \in R
  <1> DEFINE n == Cardinality(K)
             at == [k \in K |-> Cardinality(Before(k, K, R))]
  <1>1. n \in Nat
    BY FS_CardinalityType
  <1>2. \A k \in K : at[k] \in 0 .. n - 1
    <2> TAKE k \in K
    <2>1. Before(k, K, R) \in SUBSET (K \ {k})
      BY DEF Before, StrictOrder
    <2>2. IsFiniteSet(K \ {k}) /\ Cardinality(K \ {k}) = n - 1
      BY FS_RemoveElement
    <2>3. IsFiniteSet(Before(k, K, R)) /\ Cardinality(Before(k, K, R)) <= n - 1
      BY <2>1, <2>2, FS_Subset
    <2>4. Cardinality(Before(k, K, R)) \in Nat
      BY <2>3, FS_CardinalityType
    <2> QED
      BY <1>1, <2>3, <2>4
  <1>3. \A k, l \in K : <<k, l>> \in R => at[k] < at[l]
    BY BeforeGrows
  <1>4. \A k, l \in K : k # l => at[k] # at[l]
    <2> HIDE DEF at
    <2> SUFFICES ASSUME NEW k \in K, NEW l \in K, <<k, l>> \in R
                 PROVE  at[k] # at[l]
      BY DEF StrictOrder
    <2> QED
      BY <1>1, <1>2, <1>3
  <1>5. at \in Injection(K, 0 .. n - 1)
    BY <1>2, <1>4, Zenon DEF Injection, IsInjective
  <1>6. IsFiniteSet(0 .. n - 1) /\ Cardinality(0 .. n - 1) = n
    BY <1>1, FS_Interval
  <1>7. at \in Surjection(K, 0 .. n - 1)
    BY <1>5, <1>6, FS_Injection
  <1>8. \A i \in 1 .. n : \E k \in K : at[k] = i - 1
    <2> HIDE DEF at
    <2>1. \A i \in 1 .. n : i - 1 \in 0 .. n - 1
      BY <1>1
    <2> QED
      BY <1>7, <2>1 DEF Surjection
  <1> DEFINE s == Sorted(K, R)
  <1>9. \A i \in 1 .. n : s[i] \in K /\ at[s[i]] = i - 1
    <2> TAKE i \in 1 .. n
    <2>1. s[i] = CHOOSE k \in K : Cardinality(Before(k, K, R)) = i - 1
      BY DEF Sorted, Before
    <2>2. \E k \in K : Cardinality(Before(k, K, R)) = i - 1
      BY <1>8
    <2> QED
      BY <2>1, <2>2
  <1>10. s \in [1 .. n -> K]
    BY <1>9 DEF Sorted
  <1>11. \A k \in K : \E i \in 1 .. n : s[i] = k
    <2> TAKE k \in K
    <2>1. at[k] + 1 \in 1 .. n /\ at[s[at[k] + 1]] = at[k] /\ s[at[k] + 1] \in K
      BY <1>1, <1>2, <1>9
    <2> QED
      BY <1>4, <2>1
  <1>12. ASSUME NEW i \in 1 .. n, NEW j \in 1 .. n, i < j
         PROVE  <<s[i], s[j]>> \in R
    <2>1. at[s[i]] < at[s[j]] /\ s[i] \in K /\ s[j] \in K /\ ~(at[s[j]] < at[s[i]])
      BY <1>1, <1>9, <1>12
    <2> QED
      BY <1>3, <1>4, <2>1 DEF StrictOrder
  <1> QED
    BY <1>1, <1>10, <1>11, <1>12

IntOrder(K) == {p \in K \X K : p[1] < p[2]}

LEMMA IntsInOrder ==
    ASSUME NEW K \in SUBSET Int
    PROVE  StrictOrder(K, IntOrder(K)) /\ SortedInts(K) = Sorted(K, IntOrder(K))
  BY DEF StrictOrder, IntOrder, SortedInts
-----------------------------------------------------------------------------
IsLog(b) == Len(b) \in Nat /\ b = [i \in 1 .. Len(b) |-> b[i]]

\* b speaks of each element of K once, as flags has it, and ends with its end.
WholeBatch(b, K, flags, seen) ==
    /\ IsLog(b)
    /\ \A i \in 1 .. Len(b) : /\ b[i].id \in K /\ b[i].flags = flags[b[i].id]
                              /\ b[i].seen = seen
                              /\ b[i].last <=> i = Len(b)
    /\ \A i, j \in 1 .. Len(b) : i < j => b[i].id # b[j].id
    /\ \A k \in K : \E i \in 1 .. Len(b) : b[i].id = k

LEMMA SortedIsLog ==
    ASSUME NEW K, IsFiniteSet(K), NEW R, StrictOrder(K, R)
    PROVE  IsLog(Sorted(K, R)) /\ Len(Sorted(K, R)) = Cardinality(K)
  BY SortedInOrder DEF IsLog

\* What is sent of a set of objects is a whole batch about them.
LEMMA BatchIsWhole ==
    ASSUME NEW K, IsFiniteSet(K), NEW R, StrictOrder(K, R), NEW flags, NEW seen
    PROVE  WholeBatch(Batch(Sorted(K, R), flags, seen), K, flags, seen)
  <1> DEFINE s == Sorted(K, R)
             b == Batch(s, flags, seen)
             n == Cardinality(K)
  <1>1. /\ n \in Nat /\ Len(s) = n
        /\ \A i \in 1 .. n : s[i] \in K
        /\ \A k \in K : \E i \in 1 .. n : s[i] = k
        /\ \A i, j \in 1 .. n : i < j => <<s[i], s[j]>> \in R
    BY SortedInOrder, SortedIsLog
  <1>2. \A i, j \in 1 .. n : i < j => s[i] # s[j]
    BY <1>1 DEF StrictOrder
  <1> HIDE DEF s
  <1>3. /\ b = [i \in 1 .. n |-> [id |-> s[i], flags |-> flags[s[i]], last |-> i = n, seen |-> seen]]
        /\ Len(b) = n
    BY <1>1 DEF Batch
  <1> HIDE DEF b, n
  <1>4. \A i \in 1 .. n : /\ b[i].id = s[i] /\ b[i].flags = flags[s[i]]
                          /\ b[i].seen = seen /\ (b[i].last <=> i = n)
    BY <1>3
  <1>5. IsLog(b)
    BY <1>1, <1>3 DEF IsLog
  <1>6. \A i \in 1 .. n : b[i].id \in K /\ b[i].flags = flags[b[i].id]
    BY <1>1, <1>4
  <1>7. \A i, j \in 1 .. n : i < j => b[i].id # b[j].id
    BY <1>2, <1>4
  <1>8. \A k \in K : \E i \in 1 .. n : b[i].id = k
    BY <1>1, <1>4
  <1> QED
    BY <1>3, <1>4, <1>5, <1>6, <1>7, <1>8 DEF WholeBatch, b, s

LEMMA LogsJoin ==
    ASSUME NEW s, NEW t, IsLog(s), IsLog(t)
    PROVE  /\ IsLog(s \o t) /\ Len(s \o t) = Len(s) + Len(t)
           /\ \A i \in 1 .. Len(s) : (s \o t)[i] = s[i]
           /\ \A i \in 1 .. Len(t) : (s \o t)[i + Len(s)] = t[i]
           /\ \A i \in 1 .. Len(s) + Len(t) :
                 i \in 1 .. Len(s) \/ (i - Len(s) \in 1 .. Len(t) /\ (s \o t)[i] = t[i - Len(s)])
  <1> DEFINE E == {s[i] : i \in 1 .. Len(s)} \cup {t[i] : i \in 1 .. Len(t)}
  <1>1. s \in Seq(E) /\ t \in Seq(E)
    BY DEF IsLog
  <1> HIDE DEF E
  <1>2. s \o t \in Seq(E) /\ Len(s \o t) = Len(s) + Len(t)
    BY <1>1
  <1>3. \A i \in 1 .. Len(s) + Len(t) : (s \o t)[i] = IF i <= Len(s) THEN s[i] ELSE t[i - Len(s)]
    BY <1>1
  <1>4. IsLog(s \o t)
    <2>1. s \o t \in [1 .. Len(s \o t) -> E] /\ Len(s \o t) \in Nat
      BY <1>2, LenProperties
    <2> QED
      BY <2>1 DEF IsLog
  <1>5. Len(s) \in Nat /\ Len(t) \in Nat
    BY DEF IsLog
  <1>6. \A i \in 1 .. Len(s) : (s \o t)[i] = s[i]
    BY <1>3, <1>5
  <1>7. \A i \in 1 .. Len(t) : (s \o t)[i + Len(s)] = t[i]
    <2> TAKE i \in 1 .. Len(t)
    <2>1. i + Len(s) \in 1 .. Len(s) + Len(t) /\ ~(i + Len(s) <= Len(s)) /\ (i + Len(s)) - Len(s) = i
      BY <1>5
    <2> QED
      BY <1>3, <2>1
  <1>8. \A i \in 1 .. Len(s) + Len(t) :
            i \in 1 .. Len(s) \/ (i - Len(s) \in 1 .. Len(t) /\ (s \o t)[i] = t[i - Len(s)])
    BY <1>3, <1>5
  <1> QED
    BY <1>2, <1>4, <1>6, <1>7, <1>8

\* Listeners on two ranks hear the same of a batch, whatever they would find.
LEMMA BatchesHeardAlike ==
    ASSUME NEW ids, Len(ids) \in Nat, NEW flags, NEW s, NEW t
    PROVE  Heard(Batch(ids, flags, s)) = Heard(Batch(ids, flags, t))
  <1>1. Len(Batch(ids, flags, s)) = Len(ids) /\ Len(Batch(ids, flags, t)) = Len(ids)
    BY DEF Batch
  <1> QED
    BY <1>1 DEF Heard, Batch

LEMMA HeardOf ==
    ASSUME NEW x, IsLog(x)
    PROVE  /\ Len(Heard(x)) = Len(x)
           /\ \A i \in 1 .. Len(x) : /\ Heard(x)[i].id = x[i].id
                                     /\ Heard(x)[i].flags = x[i].flags
                                     /\ Heard(x)[i].last = x[i].last
  <1> DEFINE said(i) == [id |-> x[i].id, flags |-> x[i].flags, last |-> x[i].last]
             n == Len(x)
  <1>1. Heard(x) = [i \in 1 .. n |-> said(i)] /\ n \in Nat
    BY DEF Heard, IsLog
  <1>2. \A i \in 1 .. n : said(i).id = x[i].id /\ said(i).flags = x[i].flags /\ said(i).last = x[i].last
    OBVIOUS
  <1> HIDE DEF said, n
  <1>3. Len(Heard(x)) = n /\ \A i \in 1 .. n : Heard(x)[i] = said(i)
    BY <1>1
  <1> QED
    BY <1>2, <1>3 DEF n

LEMMA JoinsHeardAlike ==
    ASSUME NEW a, NEW b, NEW c, NEW d, IsLog(a), IsLog(b), IsLog(c), IsLog(d),
           Heard(a) = Heard(c), Heard(b) = Heard(d)
    PROVE  Heard(a \o b) = Heard(c \o d)
  <1>1. ASSUME NEW x, NEW y, IsLog(x), IsLog(y), Heard(x) = Heard(y)
        PROVE  /\ Len(x) = Len(y)
               /\ \A i \in 1 .. Len(x) : x[i].id = y[i].id /\ x[i].flags = y[i].flags /\ x[i].last = y[i].last
    BY <1>1, HeardOf
  <1>2. Len(a) = Len(c) /\ Len(b) = Len(d) /\ Len(a \o b) = Len(c \o d)
    BY <1>1, LogsJoin
  <1>3. ASSUME NEW i \in 1 .. Len(a \o b)
        PROVE  /\ (a \o b)[i].id = (c \o d)[i].id /\ (a \o b)[i].flags = (c \o d)[i].flags
               /\ (a \o b)[i].last = (c \o d)[i].last
    <2>1. CASE i \in 1 .. Len(a)
      BY <1>1, <1>2, <2>1, LogsJoin
    <2>2. CASE i - Len(a) \in 1 .. Len(b) /\ i \notin 1 .. Len(a)
      <3>1. (a \o b)[i] = b[i - Len(a)] /\ (c \o d)[i] = d[i - Len(a)]
        BY <1>2, <2>2, LogsJoin
      <3> QED
        BY <1>1, <2>2, <3>1
    <2> QED
      BY <1>2, <2>1, <2>2, LogsJoin
  <1> QED
    BY <1>2, <1>3 DEF Heard
-----------------------------------------------------------------------------
\* A batch alone, and a batch of edits followed by one that tells of a beginning
\* or of an end, are what listeners rely on (SyncEdits_, then CREATE or DESTROY).
LEMMA WholeBatchInOrder ==
    ASSUME NEW b, NEW K, NEW flags, NEW seen, WholeBatch(b, K, flags, seen)
    PROVE  EndsBatch(b) /\ WithinLifetime(b)
  <1>1. b # <<>> => Len(b) \in 1 .. Len(b)
    BY DEF WholeBatch, IsLog
  <1>2. EndsBatch(b)
    BY <1>1 DEF WholeBatch, EndsBatch, Last
  <1> QED
    BY <1>2 DEF WholeBatch, WithinLifetime

Speaks(e, K, flags, seen) == e.id \in K /\ e.flags = flags[e.id] /\ e.seen = seen

LEMMA JoinedSays ==
    ASSUME NEW s, NEW K, NEW fs, NEW ss, WholeBatch(s, K, fs, ss),
           NEW t, NEW G, NEW ft, NEW st, WholeBatch(t, G, ft, st)
    PROVE  /\ \A i \in 1 .. Len(s \o t) :
                 \/ i \in 1 .. Len(s) /\ (s \o t)[i] = s[i] /\ Speaks((s \o t)[i], K, fs, ss)
                 \/ /\ i - Len(s) \in 1 .. Len(t) /\ (s \o t)[i] = t[i - Len(s)]
                    /\ Speaks((s \o t)[i], G, ft, st)
           /\ \A k \in K : \E i \in 1 .. Len(s \o t) : (s \o t)[i].id = k /\ (s \o t)[i].flags = fs[k]
           /\ \A k \in G : \E i \in 1 .. Len(s \o t) : (s \o t)[i].id = k /\ (s \o t)[i].flags = ft[k]
  <1>1. IsLog(s) /\ IsLog(t) /\ Len(s) \in Nat /\ Len(t) \in Nat
    BY DEF WholeBatch, IsLog
  <1>2. /\ \A i \in 1 .. Len(s) : Speaks(s[i], K, fs, ss)
        /\ \A i \in 1 .. Len(t) : Speaks(t[i], G, ft, st)
    BY DEF WholeBatch, Speaks
  <1>3. ASSUME NEW i \in 1 .. Len(s \o t)
        PROVE  \/ i \in 1 .. Len(s) /\ (s \o t)[i] = s[i] /\ Speaks((s \o t)[i], K, fs, ss)
               \/ /\ i - Len(s) \in 1 .. Len(t) /\ (s \o t)[i] = t[i - Len(s)]
                  /\ Speaks((s \o t)[i], G, ft, st)
    BY <1>1, <1>2, LogsJoin
  <1>4. ASSUME NEW k \in K
        PROVE  \E i \in 1 .. Len(s \o t) : (s \o t)[i].id = k /\ (s \o t)[i].flags = fs[k]
    <2>1. PICK i \in 1 .. Len(s) : s[i].id = k /\ s[i].flags = fs[k]
      BY DEF WholeBatch
    <2>2. i \in 1 .. Len(s \o t) /\ (s \o t)[i] = s[i]
      BY <1>1, <2>1, LogsJoin
    <2> QED
      BY <2>1, <2>2
  <1>5. ASSUME NEW k \in G
        PROVE  \E i \in 1 .. Len(s \o t) : (s \o t)[i].id = k /\ (s \o t)[i].flags = ft[k]
    <2>1. PICK i \in 1 .. Len(t) : t[i].id = k /\ t[i].flags = ft[k]
      BY DEF WholeBatch
    <2>2. i + Len(s) \in 1 .. Len(s \o t) /\ (s \o t)[i + Len(s)] = t[i]
      BY <1>1, <2>1, LogsJoin
    <2> QED
      BY <2>1, <2>2
  <1> QED
    BY <1>3, <1>4, <1>5

Begins(K, G, ft) == \A k \in G : k \notin K /\ ft[k] = {"CREATE"}
Ends(G, ft) == \A k \in G : ft[k] = {"DESTROY"}

LEMMA JoinedInOrder ==
    ASSUME NEW s, NEW K, NEW fs, NEW ss, WholeBatch(s, K, fs, ss),
           NEW t, NEW G, NEW ft, NEW st, WholeBatch(t, G, ft, st),
           \A k \in K : "CREATE" \notin fs[k] /\ "DESTROY" \notin fs[k],
           Begins(K, G, ft) \/ Ends(G, ft)
    PROVE  IsLog(s \o t) /\ EndsBatch(s \o t) /\ WithinLifetime(s \o t)
  <1> DEFINE u == s \o t
  <1>1. IsLog(s) /\ IsLog(t) /\ Len(s) \in Nat /\ Len(t) \in Nat
    BY DEF WholeBatch, IsLog
  <1>2. IsLog(u) /\ Len(u) = Len(s) + Len(t)
    BY <1>1, LogsJoin
  <1>3. EndsBatch(u)
    <2>1. CASE Len(t) = 0
      <3>1. Len(u) # 0 => u[Len(u)] = s[Len(s)] /\ s[Len(s)].last
        <4> SUFFICES ASSUME Len(u) # 0
                     PROVE  u[Len(u)] = s[Len(s)] /\ s[Len(s)].last
          OBVIOUS
        <4>1. Len(u) = Len(s) /\ Len(s) \in 1 .. Len(s)
          BY <1>1, <1>2, <2>1
        <4>2. u[Len(s)] = s[Len(s)]
          BY <1>1, <4>1, LogsJoin
        <4>3. s[Len(s)].last
          BY <4>1 DEF WholeBatch
        <4> QED
          BY <4>1, <4>2, <4>3
      <3>2. u # <<>> => Len(u) # 0
        BY <1>2 DEF IsLog
      <3> QED
        BY <3>1, <3>2 DEF EndsBatch, Last
    <2>2. CASE Len(t) # 0
      <3>1. Len(t) \in 1 .. Len(t) /\ Len(t) + Len(s) = Len(u)
        BY <1>1, <1>2, <2>2
      <3>2. u[Len(u)] = t[Len(t)]
        BY <1>1, <3>1, LogsJoin
      <3>3. t[Len(t)].last
        BY <3>1 DEF WholeBatch
      <3> QED
        BY <3>2, <3>3 DEF EndsBatch, Last
    <2> QED
      BY <2>1, <2>2
  <1>4. ASSUME NEW i \in 1 .. Len(u), NEW j \in 1 .. Len(u), i < j, u[i].id = u[j].id
        PROVE  "DESTROY" \notin u[i].flags /\ "CREATE" \notin u[j].flags
    <2> HIDE DEF u
    <2>1. \/ i \in 1 .. Len(s) /\ u[i] = s[i] /\ Speaks(u[i], K, fs, ss)
          \/ i - Len(s) \in 1 .. Len(t) /\ u[i] = t[i - Len(s)] /\ Speaks(u[i], G, ft, st)
      BY JoinedSays DEF u
    <2>2. \/ j \in 1 .. Len(s) /\ u[j] = s[j] /\ Speaks(u[j], K, fs, ss)
          \/ j - Len(s) \in 1 .. Len(t) /\ u[j] = t[j - Len(s)] /\ Speaks(u[j], G, ft, st)
      BY JoinedSays DEF u
    <2>3. CASE i \in 1 .. Len(s) /\ u[i] = s[i] /\ j \in 1 .. Len(s) /\ u[j] = s[j]
      BY <1>4, <2>3 DEF WholeBatch
    <2>4. CASE /\ i - Len(s) \in 1 .. Len(t) /\ u[i] = t[i - Len(s)]
               /\ j - Len(s) \in 1 .. Len(t) /\ u[j] = t[j - Len(s)]
      <3>1. i - Len(s) < j - Len(s)
        BY <1>1, <1>4
      <3> QED
        BY <1>4, <2>4, <3>1 DEF WholeBatch
    <2>5. CASE Speaks(u[i], K, fs, ss) /\ Speaks(u[j], G, ft, st)
      BY <1>4, <2>5 DEF Speaks, Begins, Ends
    <2>6. ~(i - Len(s) \in 1 .. Len(t) /\ j \in 1 .. Len(s))
      BY <1>1, <1>4
    <2> QED
      BY <2>1, <2>2, <2>3, <2>4, <2>5, <2>6
  <1> QED
    BY <1>2, <1>3, <1>4 DEF WithinLifetime
-----------------------------------------------------------------------------
\* What is so at first, and after each step if before it, is so to the last:
\* for listeners that hear event after event, walks over what they change.
LEMMA UpTo ==
    ASSUME NEW n \in Nat, NEW P, 0 \in P, \A i \in 1 .. n : i - 1 \in P => i \in P
    PROVE  \A i \in 0 .. n : i \in P
  <1> DEFINE missing == {i \in 0 .. n : i \notin P}
  <1> SUFFICES ASSUME missing # {} PROVE FALSE
    OBVIOUS
  <1>1. missing \in SUBSET Nat
    OBVIOUS
  <1>2. \E m \in missing : \A k \in missing : <<k, m>> \notin OpToRel(<, Nat)
    BY <1>1, WFMin, NatLessThanWellFounded, Zenon
  <1>3. PICK m \in missing : \A k \in missing : ~(k < m)
    BY <1>1, <1>2 DEF OpToRel
  <1>4. m # 0 /\ m \in 1 .. n /\ m - 1 \in 0 .. n
    OBVIOUS
  <1> QED
    BY <1>3, <1>4
-----------------------------------------------------------------------------
\* The same for other logs and other orders.  A set of numbers has a least one.
LEMMA LeastOf ==
    ASSUME NEW S \in SUBSET Nat, S # {}
    PROVE  Min(S) \in S /\ \A k \in S : Min(S) <= k
  <1>1. \E m \in S : \A k \in S : <<k, m>> \notin OpToRel(<, Nat)
    BY WFMin, NatLessThanWellFounded, Zenon
  <1>2. PICK m \in S : \A k \in S : ~(k < m)
    BY <1>1 DEF OpToRel
  <1>3. \A k \in S : m <= k
    BY <1>2
  <1> QED
    BY <1>3 DEF Min

\* Sequences are logs, and what is done to logs leaves logs.
LEMMA SeqIsLog ==
    ASSUME NEW E, NEW s \in Seq(E)
    PROVE  IsLog(s)
  <1>1. s \in [1 .. Len(s) -> E] /\ Len(s) \in Nat
    BY LenProperties
  <1> QED
    BY <1>1 DEF IsLog

LEMMA LogTail ==
    ASSUME NEW s, IsLog(s), Len(s) > 0
    PROVE  /\ IsLog(Tail(s)) /\ Len(Tail(s)) = Len(s) - 1
           /\ \A i \in 1 .. Len(s) - 1 : Tail(s)[i] = s[i + 1]
           /\ Head(s) = s[1]
  <1> DEFINE X == {s[i] : i \in 1 .. Len(s)}
  <1>1. s \in Seq(X) /\ s # <<>> /\ Len(s) \in Nat
    BY DEF IsLog
  <1>2. Tail(s) \in Seq(X) /\ Len(Tail(s)) = Len(s) - 1 /\ \A i \in 1 .. Len(s) - 1 : Tail(s)[i] = s[i + 1]
    BY <1>1
  <1>3. IsLog(Tail(s))
    BY <1>2, SeqIsLog
  <1> QED
    BY <1>1, <1>2, <1>3

LEMMA LogAppended ==
    ASSUME NEW s, IsLog(s), NEW v
    PROVE  IsLog(Append(s, v)) /\ Len(Append(s, v)) = Len(s) + 1
  <1> DEFINE X == {s[i] : i \in 1 .. Len(s)} \cup {v}
  <1>1. s \in Seq(X) /\ v \in X /\ Len(s) \in Nat
    BY DEF IsLog
  <1> HIDE DEF X
  <1>2. Append(s, v) \in Seq(X) /\ Len(Append(s, v)) = Len(s) + 1
    BY <1>1
  <1> QED
    BY <1>2, SeqIsLog

LEMMA LogJoined ==
    ASSUME NEW s, NEW t, IsLog(s), IsLog(t)
    PROVE  /\ IsLog(s \o t) /\ Len(s \o t) = Len(s) + Len(t)
           /\ \A i \in 1 .. Len(s) : (s \o t)[i] = s[i]
           /\ \A i \in 1 .. Len(t) : (s \o t)[Len(s) + i] = t[i]
  <1> DEFINE X == {s[i] : i \in 1 .. Len(s)} \cup {t[i] : i \in 1 .. Len(t)}
  <1>1. s \in Seq(X) /\ t \in Seq(X) /\ Len(s) \in Nat /\ Len(t) \in Nat
    BY DEF IsLog
  <1> HIDE DEF X
  <1>2. s \o t \in Seq(X) /\ Len(s \o t) = Len(s) + Len(t)
    BY <1>1
  <1>3. /\ \A i \in 1 .. Len(s) : (s \o t)[i] = s[i]
        /\ \A i \in 1 .. Len(t) : (s \o t)[Len(s) + i] = t[i]
    BY <1>1
  <1>4. IsLog(s \o t)
    BY <1>2, SeqIsLog
  <1> QED
    BY <1>2, <1>3, <1>4

\* An element is at the place after those that come before it.
LEMMA SortedAt ==
    ASSUME NEW K, IsFiniteSet(K), NEW R, StrictOrder(K, R), NEW k \in K
    PROVE  /\ Cardinality(Before(k, K, R)) + 1 \in 1 .. Cardinality(K)
           /\ Sorted(K, R)[Cardinality(Before(k, K, R)) + 1] = k
  <1> DEFINE c == Cardinality(Before(k, K, R))
  <1>1. c \in Nat /\ Cardinality(K) \in Nat /\ c <= Cardinality(K) - 1
    <2>1. Before(k, K, R) \in SUBSET (K \ {k})
      BY DEF Before, StrictOrder
    <2>2. IsFiniteSet(K \ {k}) /\ Cardinality(K \ {k}) = Cardinality(K) - 1
      BY FS_RemoveElement
    <2>3. IsFiniteSet(Before(k, K, R)) /\ c <= Cardinality(K) - 1
      BY <2>1, <2>2, FS_Subset
    <2> QED
      BY <2>3, FS_CardinalityType
  <1>2. c + 1 \in 1 .. Cardinality(K) /\ (c + 1) - 1 = c
    BY <1>1
  <1>3. Sorted(K, R)[c + 1] = CHOOSE l \in K : Cardinality(Before(l, K, R)) = c
    BY <1>2 DEF Sorted, Before
  <1> DEFINE l == Sorted(K, R)[c + 1]
  <1>4. l \in K /\ Cardinality(Before(l, K, R)) = c
    BY <1>3
  <1> HIDE DEF l
  <1>5. l = k
    <2> SUFFICES ASSUME l # k PROVE FALSE
      OBVIOUS
    <2>1. <<l, k>> \in R \/ <<k, l>> \in R
      BY <1>4 DEF StrictOrder
    <2>2. c < c
      BY <1>4, <2>1, BeforeGrows
    <2> QED
      BY <1>1, <2>2
  <1> QED
    BY <1>2, <1>5 DEF l

\* An element is in front of those that come after it.
LEMMA SortedIndex ==
    ASSUME NEW K, IsFiniteSet(K), NEW R, StrictOrder(K, R), NEW i \in 1 .. Cardinality(K)
    PROVE  Sorted(K, R)[i] \in K /\ Cardinality(Before(Sorted(K, R)[i], K, R)) + 1 = i
  <1> DEFINE k == Sorted(K, R)[i]
             c == Cardinality(Before(k, K, R)) + 1
  <1>1. k \in K /\ Cardinality(K) \in Nat
    BY SortedInOrder
  <1> HIDE DEF k
  <1>2. c \in 1 .. Cardinality(K) /\ Sorted(K, R)[c] = k
    BY <1>1, SortedAt
  <1>3. \A x, y \in 1 .. Cardinality(K) : x < y => <<Sorted(K, R)[x], Sorted(K, R)[y]>> \in R
    BY SortedInOrder
  <1> HIDE DEF c
  <1>4. <<k, k>> \notin R
    BY <1>1 DEF StrictOrder
  <1>5. c = i
    <2>1. ~(c < i) /\ ~(i < c)
      BY <1>2, <1>3, <1>4 DEF k
    <2> QED
      BY <1>1, <1>2, <2>1
  <1> QED
    BY <1>1, <1>5 DEF k, c

\* If one goes, those behind it move up by one.
LEMMA SortedRemoved ==
    ASSUME NEW K \in SUBSET Int, IsFiniteSet(K), NEW a \in 1 .. Cardinality(K), NEW x,
           x = SortedInts(K)[a]
    PROVE  /\ x \in K /\ IsFiniteSet(K \ {x}) /\ Cardinality(K \ {x}) = Cardinality(K) - 1
           /\ \A j \in a .. Cardinality(K) - 1 : SortedInts(K \ {x})[j] = SortedInts(K)[j + 1]
  <1> DEFINE L == K \ {x}
  <1>1. /\ StrictOrder(K, IntOrder(K)) /\ SortedInts(K) = Sorted(K, IntOrder(K))
        /\ StrictOrder(L, IntOrder(L)) /\ SortedInts(L) = Sorted(L, IntOrder(L))
    BY IntsInOrder
  <1>2. /\ x \in K /\ Cardinality(K) \in Nat
        /\ IsFiniteSet(L) /\ Cardinality(L) = Cardinality(K) - 1
    <2>1. x \in K
      BY <1>1, SortedIndex
    <2> QED
      BY <2>1, FS_RemoveElement, FS_CardinalityType
  <1>3. ASSUME NEW j \in a .. Cardinality(K) - 1
        PROVE  SortedInts(L)[j] = SortedInts(K)[j + 1]
    <2> DEFINE k == SortedInts(K)[j + 1]
    <2>1. j + 1 \in 1 .. Cardinality(K) /\ a < j + 1 /\ j \in Nat
      BY <1>2, <1>3
    <2>2. k \in K /\ Cardinality(Before(k, K, IntOrder(K))) + 1 = j + 1
      BY <1>1, <2>1, SortedIndex
    <2>3. <<x, k>> \in IntOrder(K)
      BY <1>1, <2>1, SortedInOrder
    <2> HIDE DEF k
    <2>4. k \in L /\ x \in Before(k, K, IntOrder(K))
      BY <1>1, <1>2, <2>2, <2>3 DEF Before, StrictOrder
    <2>5. Before(k, L, IntOrder(L)) = Before(k, K, IntOrder(K)) \ {x}
      BY <2>4 DEF Before, IntOrder
    <2>6. IsFiniteSet(Before(k, K, IntOrder(K)))
      <3>1. Before(k, K, IntOrder(K)) \in SUBSET K
        BY DEF Before
      <3> QED
        BY <3>1, FS_Subset
    <2> DEFINE B == Before(k, K, IntOrder(K))
    <2>7. Cardinality(B) \in Nat /\ Cardinality(B \ {x}) = Cardinality(B) - 1
      <3> HIDE DEF B
      <3> QED
        BY <2>4, <2>6, FS_RemoveElement, FS_CardinalityType DEF B
    <2>8. Cardinality(Before(k, L, IntOrder(L))) + 1 = j
      <3>1. Cardinality(B) = j
        BY <2>1, <2>2, <2>7
      <3>2. Before(k, L, IntOrder(L)) = B \ {x}
        BY <2>5
      <3> HIDE DEF B, L
      <3> QED
        BY <2>1, <2>7, <3>1, <3>2
    <2>9. Sorted(L, IntOrder(L))[Cardinality(Before(k, L, IntOrder(L))) + 1] = k
      BY <1>1, <1>2, <2>4, SortedAt
    <2> QED
      BY <1>1, <2>8, <2>9 DEF k
  <1> QED
    BY <1>2, <1>3
=============================================================================
