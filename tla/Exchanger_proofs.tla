-------------------------- MODULE Exchanger_proofs --------------------------
(***************************************************************************)
(* What the records of pairs of grids, the events about them and the data  *)
(* an exchanger derives from them have to do with each other, for any      *)
(* grids, ranks, pairs and edits.                                          *)
(***************************************************************************)
EXTENDS Exchanger, Events_proofs, TLAPS

\* Sides are those of records, and records are of grids that exist; while the
\* assembler is between clearing and creating, nothing has been edited.
SidesOfRecords ==
    /\ \A r \in Ranks : /\ \A k \in LocalMs[r] : k \in Records[r] /\ r \in place[k[1]]
                        /\ \A k \in LocalNs[r] : k \in Records[r] /\ r \in place[k[2]]
                        /\ \A k \in Records[r] : PairPossible(k)
    /\ \A k \in toCreate : PairPossible(k)
    /\ toCreate # {} => \A r \in Ranks : EventFlags[r] = {}

\* What the records and the events satisfy however many records are cleared.
PairOK == PairTypeOK /\ SidesOfRecords /\ RanksAgree /\ NoEditForgotten /\ LogsWellFormed

\* And what they satisfy as long as clearing leaves none behind.
Cleared == toCreate # {} => \A r \in Ranks : Records[r] = {}
SidesOK == LocalsMatchRecords /\ ListenersFindTheSide /\ Cleared
-----------------------------------------------------------------------------
PairOrder(K) == {p \in K \X K : KeyBefore(p[1], p[2])}

LEMMA PairsInOrder ==
    ASSUME NEW K \in SUBSET Pairs
    PROVE  /\ IsFiniteSet(K) /\ StrictOrder(K, PairOrder(K))
           /\ InKeyOrder(K) = Sorted(K, PairOrder(K))
  <1>1. IsFiniteSet(GridIDs \X GridIDs)
    BY PairComponentAssumption, FS_Product
  <1>2. IsFiniteSet(K)
    BY <1>1, PairComponentAssumption, FS_Subset
  <1>3. \A k \in K : k = <<k[1], k[2]>> /\ k[1] \in Nat /\ k[2] \in Nat
    <2>1. \A k \in K : k \in GridIDs \X GridIDs
      BY PairComponentAssumption
    <2>2. \A g \in GridIDs : g \in Nat
      BY PairComponentAssumption
    <2> QED
      BY <2>1, <2>2
  <1>4. ASSUME NEW k \in K, NEW l \in K
        PROVE  <<k, l>> \in PairOrder(K) <=> k[1] < l[1] \/ (k[1] = l[1] /\ k[2] < l[2])
    BY DEF PairOrder, KeyBefore
  <1>5. \A k \in K : <<k, k>> \notin PairOrder(K)
    BY <1>3, <1>4
  <1>6. ASSUME NEW k \in K, NEW l \in K, NEW m \in K,
               <<k, l>> \in PairOrder(K), <<l, m>> \in PairOrder(K)
        PROVE  <<k, m>> \in PairOrder(K)
    <2>1. /\ k[1] < l[1] \/ (k[1] = l[1] /\ k[2] < l[2])
          /\ l[1] < m[1] \/ (l[1] = m[1] /\ l[2] < m[2])
      BY <1>4, <1>6
    <2>2. k[1] < m[1] \/ (k[1] = m[1] /\ k[2] < m[2])
      BY <1>3, <2>1
    <2> QED
      BY <1>4, <2>2
  <1>7. ASSUME NEW k \in K, NEW l \in K, k # l
        PROVE  <<k, l>> \in PairOrder(K) \/ <<l, k>> \in PairOrder(K)
    <2>1. k[1] # l[1] \/ k[2] # l[2]
      BY <1>3, <1>7
    <2>2. \/ k[1] < l[1] \/ (k[1] = l[1] /\ k[2] < l[2])
          \/ l[1] < k[1] \/ (l[1] = k[1] /\ l[2] < k[2])
      BY <1>3, <2>1
    <2> QED
      BY <1>4, <2>2
  <1>8. StrictOrder(K, PairOrder(K))
    BY <1>5, <1>6, <1>7 DEF StrictOrder
  <1> QED
    BY <1>2, <1>8 DEF InKeyOrder, PairOrder

Edited(r) == {k \in Records[r] : ReducedFlags(r, k) # {}}
EditedFlags(r) == [k \in Edited(r) |-> ReducedFlags(r, k)]

LEMMA SyncIsWhole ==
    ASSUME PairTypeOK, NEW r \in Ranks
    PROVE  WholeBatch(SyncEvents(r), Edited(r), EditedFlags(r), Present(r))
  <1>1. Edited(r) \in SUBSET Pairs
    BY DEF PairTypeOK, Edited
  <1>2. SyncEvents(r) = Batch(InKeyOrder(Edited(r)), EditedFlags(r), Present(r))
    BY DEF SyncEvents, Edited, EditedFlags
  <1> QED
    BY <1>1, <1>2, PairsInOrder, BatchIsWhole

LEMMA ToldIsWhole ==
    ASSUME NEW K \in SUBSET Pairs, NEW flag, NEW seen
    PROVE  WholeBatch(Told(K, flag, seen), K, [k \in K |-> {flag}], seen)
  BY PairsInOrder, BatchIsWhole DEF Told

\* All ranks raise the same events (MPI_Allreduce in SyncEdits_).
LEMMA SyncAlike ==
    ASSUME PairTypeOK, RanksAgree, NEW r \in Ranks, NEW q \in Ranks
    PROVE  Heard(SyncEvents(r)) = Heard(SyncEvents(q))
  <1> DEFINE ids == InKeyOrder(Edited(r))
  <1>1. Edited(r) = Edited(q) /\ EditedFlags(r) = EditedFlags(q) /\ Edited(r) \in SUBSET Pairs
    BY DEF PairTypeOK, RanksAgree, Edited, EditedFlags, ReducedFlags
  <1>2. /\ SyncEvents(r) = Batch(ids, EditedFlags(r), Present(r))
        /\ SyncEvents(q) = Batch(ids, EditedFlags(r), Present(q))
    BY <1>1 DEF SyncEvents, Edited, EditedFlags
  <1>3. Len(ids) \in Nat
    BY <1>1, PairsInOrder, SortedIsLog DEF IsLog
  <1> QED
    BY <1>2, <1>3, BatchesHeardAlike

LEMMA ToldAlike ==
    ASSUME NEW K \in SUBSET Pairs, NEW flag, NEW s, NEW t
    PROVE  Heard(Told(K, flag, s)) = Heard(Told(K, flag, t))
  <1>1. Len(InKeyOrder(K)) \in Nat
    BY PairsInOrder, SortedIsLog DEF IsLog
  <1> QED
    BY <1>1, BatchesHeardAlike DEF Told

\* Events in order, that tell of all edits made.
InOrder(u) ==
    /\ EndsBatch(u) /\ WithinLifetime(u)
    /\ \A q \in Ranks : \A e \in EventFlags[q] :
          \E i \in 1 .. Len(u) : u[i].id = e[1] /\ e[2] \in u[i].flags

LEMMA EditsAreSynced ==
    ASSUME PairTypeOK, SidesOfRecords, RanksAgree, NEW r \in Ranks,
           NEW q \in Ranks, NEW e \in EventFlags[q]
    PROVE  /\ e = <<e[1], e[2]>> /\ e[2] \in Edits
           /\ e[1] \in Edited(r) /\ e[2] \in EditedFlags(r)[e[1]]
  <1>1. e \in (LocalMs[q] \X MFlags) \cup (LocalNs[q] \X NFlags)
    BY DEF PairTypeOK
  <1>2. e = <<e[1], e[2]>> /\ e[1] \in LocalMs[q] \cup LocalNs[q] /\ e[2] \in Edits
    BY <1>1 DEF Edits
  <1>3. e[1] \in Records[r]
    BY <1>2 DEF SidesOfRecords, RanksAgree
  <1>4. e[2] \in ReducedFlags(r, e[1])
    BY <1>2 DEF ReducedFlags
  <1> QED
    BY <1>2, <1>3, <1>4 DEF Edited, EditedFlags

LEMMA SyncInOrder ==
    ASSUME PairTypeOK, SidesOfRecords, RanksAgree, NEW r \in Ranks
    PROVE  InOrder(SyncEvents(r))
  <1>1. WholeBatch(SyncEvents(r), Edited(r), EditedFlags(r), Present(r))
    BY SyncIsWhole
  <1>2. EndsBatch(SyncEvents(r)) /\ WithinLifetime(SyncEvents(r))
    BY <1>1, WholeBatchInOrder
  <1>3. ASSUME NEW q \in Ranks, NEW e \in EventFlags[q]
        PROVE  \E i \in 1 .. Len(SyncEvents(r)) :
                   SyncEvents(r)[i].id = e[1] /\ e[2] \in SyncEvents(r)[i].flags
    BY <1>1, EditsAreSynced DEF WholeBatch
  <1> QED
    BY <1>2, <1>3 DEF InOrder

\* The same with pairs that begin or end after the edits have been told of.
Timely(r, K, flag) == flag = "DESTROY" \/ (flag = "CREATE" /\ K \cap Edited(r) = {})

LEMMA SyncThenToldInOrder ==
    ASSUME PairTypeOK, SidesOfRecords, RanksAgree, NEW r \in Ranks,
           NEW K \in SUBSET Pairs, NEW flag, NEW seen, Timely(r, K, flag)
    PROVE  InOrder(SyncEvents(r) \o Told(K, flag, seen))
  <1> DEFINE s == SyncEvents(r)
             t == Told(K, flag, seen)
             f == [k \in K |-> {flag}]
  <1>1. WholeBatch(s, Edited(r), EditedFlags(r), Present(r)) /\ WholeBatch(t, K, f, seen)
    BY SyncIsWhole, ToldIsWhole
  <1>2. \A k \in Edited(r) : "CREATE" \notin EditedFlags(r)[k] /\ "DESTROY" \notin EditedFlags(r)[k]
    BY PairComponentAssumption DEF EditedFlags, ReducedFlags, Edits
  <1>3. Begins(Edited(r), K, f) \/ Ends(K, f)
    BY DEF Begins, Ends, Timely
  <1> HIDE DEF s, t, f
  <1>4. EndsBatch(s \o t) /\ WithinLifetime(s \o t)
    BY <1>1, <1>2, <1>3, JoinedInOrder
  <1>5. ASSUME NEW q \in Ranks, NEW e \in EventFlags[q]
        PROVE  \E i \in 1 .. Len(s \o t) : (s \o t)[i].id = e[1] /\ e[2] \in (s \o t)[i].flags
    <2>1. e[1] \in Edited(r) /\ e[2] \in EditedFlags(r)[e[1]]
      BY EditsAreSynced
    <2>2. \A k \in Edited(r) : \E i \in 1 .. Len(s \o t) :
              (s \o t)[i].id = k /\ (s \o t)[i].flags = EditedFlags(r)[k]
      BY <1>1, JoinedSays
    <2> QED
      BY <2>1, <2>2
  <1> QED
    BY <1>4, <1>5 DEF InOrder, s, t

\* Such events, the same on all ranks, leave nothing untold and nothing flagged.
AllTold ==
    /\ \A r \in Ranks : EventFlags[r] = {} /\ unheard[r] = {}
    /\ unheard \in [Ranks -> SUBSET (Pairs \X Edits)]
    /\ \A r, q \in Ranks : Heard(log[r]) = Heard(log[q])
    /\ LogsWellFormed

LEMMA RaisedInOrder ==
    ASSUME PairOK, NEW ev, Raise(ev), ClearFlags,
           \A r \in Ranks : InOrder(ev[r]),
           \A r, q \in Ranks : Heard(ev[r]) = Heard(ev[q])
    PROVE  AllTold'
  <1>1. log' = ev /\ EventFlags' = [r \in Ranks |-> {}]
    BY DEF Raise, ClearFlags
  <1>2. unheard' = [r \in Ranks |-> {e \in unheard[r] :
                       \A i \in 1 .. Len(ev[r]) : ~(ev[r][i].id = e[1] /\ e[2] \in ev[r][i].flags)}]
    BY DEF Raise
  <1>3. \A r \in Ranks : unheard'[r] = {}
    BY <1>2 DEF PairOK, NoEditForgotten, InOrder
  <1>4. unheard' \in [Ranks -> SUBSET (Pairs \X Edits)]
    BY <1>2 DEF PairOK, PairTypeOK
  <1>5. LogsWellFormed'
    BY <1>1 DEF LogsWellFormed, InOrder
  <1> QED
    BY <1>1, <1>3, <1>4, <1>5 DEF AllTold
-----------------------------------------------------------------------------
\* What a listener on rank r finds of the pair it is told of.
FoundIn(k, seen, r) ==
    /\ seen.place[k[1]] # {} /\ seen.place[k[2]] # {}
    /\ r \in seen.place[k[1]] => k \in seen.ms
    /\ r \in seen.place[k[2]] => k \in seen.ns

LEMMA RecordsAreFound ==
    ASSUME SidesOfRecords, LocalsMatchRecords, NEW r \in Ranks, NEW k \in Records[r]
    PROVE  FoundIn(k, Present(r), r)
  BY DEF FoundIn, Present, LocalsMatchRecords, PairPossible, GridExists

\* Edits alone (SyncEdits_).
LEMMA SyncTells ==
    ASSUME PairOK, NEW ev, \A r \in Ranks : ev[r] = SyncEvents(r), Raise(ev), ClearFlags
    PROVE  AllTold' /\ (SidesOK => ListenersFindTheSide')
  <1>1. PairTypeOK /\ SidesOfRecords /\ RanksAgree
    BY DEF PairOK
  <1>2. \A r \in Ranks : InOrder(ev[r])
    BY <1>1, SyncInOrder
  <1>3. \A r, q \in Ranks : Heard(ev[r]) = Heard(ev[q])
    BY <1>1, SyncAlike
  <1>4. ASSUME SidesOK, NEW r \in Ranks, NEW i \in 1 .. Len(log'[r])
        PROVE  FoundIn(log'[r][i].id, log'[r][i].seen, r)
    <2>1. log'[r] = SyncEvents(r)
      BY DEF Raise
    <2>2. log'[r][i].id \in Records[r] /\ log'[r][i].seen = Present(r)
      BY <1>1, <2>1, SyncIsWhole DEF WholeBatch, Edited
    <2> QED
      BY <1>1, <1>4, <2>2, RecordsAreFound DEF SidesOK
  <1>5. SidesOK => ListenersFindTheSide'
    BY <1>4 DEF ListenersFindTheSide, FoundIn
  <1> QED
    BY <1>2, <1>3, <1>5, RaisedInOrder

\* Edits, then the beginning or the end of the pairs K, the same on all ranks.
TellsOf(ev, K, flag, seen) ==
    /\ \A r, q \in Ranks : K[r] = K[q]
    /\ \A r \in Ranks : Timely(r, K[r], flag)
    /\ \A r \in Ranks : ev[r] = SyncEvents(r) \o Told(K[r], flag, seen[r])
AllFound(K, seen) == \A r \in Ranks : \A k \in K[r] : FoundIn(k, seen[r], r)

LEMMA SyncThenTold ==
    ASSUME PairOK, NEW K \in [Ranks -> SUBSET Pairs], NEW flag, NEW seen, NEW ev,
           TellsOf(ev, K, flag, seen), Raise(ev), ClearFlags
    PROVE  AllTold' /\ (SidesOK /\ AllFound(K, seen) => ListenersFindTheSide')
  <1> USE DEF TellsOf, AllFound
  <1>1. PairTypeOK /\ SidesOfRecords /\ RanksAgree
    BY DEF PairOK
  <1>2. \A r \in Ranks : InOrder(ev[r])
    BY <1>1, SyncThenToldInOrder
  <1>3. ASSUME NEW r \in Ranks, NEW q \in Ranks
        PROVE  Heard(ev[r]) = Heard(ev[q])
    <2>1. K[q] = K[r] /\ K[r] \in SUBSET Pairs
      OBVIOUS
    <2>2. ev[r] = SyncEvents(r) \o Told(K[r], flag, seen[r]) /\ ev[q] = SyncEvents(q) \o Told(K[r], flag, seen[q])
      BY <2>1
    <2>3. /\ IsLog(SyncEvents(r)) /\ IsLog(SyncEvents(q))
          /\ IsLog(Told(K[r], flag, seen[r])) /\ IsLog(Told(K[r], flag, seen[q]))
      BY <1>1, <2>1, SyncIsWhole, ToldIsWhole DEF WholeBatch
    <2>4. /\ Heard(SyncEvents(r)) = Heard(SyncEvents(q))
          /\ Heard(Told(K[r], flag, seen[r])) = Heard(Told(K[r], flag, seen[q]))
      BY <1>1, <2>1, SyncAlike, ToldAlike
    <2> QED
      BY <2>2, <2>3, <2>4, JoinsHeardAlike
  <1>4. ASSUME SidesOK, \A r \in Ranks : \A k \in K[r] : FoundIn(k, seen[r], r),
               NEW r \in Ranks, NEW i \in 1 .. Len(log'[r])
        PROVE  FoundIn(log'[r][i].id, log'[r][i].seen, r)
    <2> DEFINE f == [k \in K[r] |-> {flag}]
    <2>1. log'[r] = SyncEvents(r) \o Told(K[r], flag, seen[r])
      BY DEF Raise
    <2>2. /\ WholeBatch(SyncEvents(r), Edited(r), EditedFlags(r), Present(r))
          /\ WholeBatch(Told(K[r], flag, seen[r]), K[r], f, seen[r])
      BY <1>1, SyncIsWhole, ToldIsWhole
    <2> HIDE DEF f
    <2>3. Speaks(log'[r][i], Edited(r), EditedFlags(r), Present(r)) \/ Speaks(log'[r][i], K[r], f, seen[r])
      BY <2>1, <2>2, JoinedSays
    <2>4. CASE Speaks(log'[r][i], Edited(r), EditedFlags(r), Present(r))
      BY <1>1, <1>4, <2>4, RecordsAreFound DEF SidesOK, Speaks, Edited
    <2>5. CASE Speaks(log'[r][i], K[r], f, seen[r])
      BY <1>4, <2>5 DEF Speaks
    <2> QED
      BY <2>3, <2>4, <2>5
  <1>5. SidesOK /\ AllFound(K, seen) => ListenersFindTheSide'
    BY <1>4 DEF ListenersFindTheSide, FoundIn
  <1> QED
    BY <1>2, <1>3, <1>5, RaisedInOrder
-----------------------------------------------------------------------------
\* The last loop of DestroyOverlaps over a view of the records' own keys.
View(size, store) == [size |-> size, store |-> store]
Erasing(f, keys, m) ==
    f = [i \in 0 .. m |-> IF i = 0 THEN View(Len(keys), keys)
                                   ELSE EraseKey(f[i - 1], f[i - 1].store[i])]

LEMMA ErasingGoesOn ==
    ASSUME NEW keys, Len(keys) \in Nat
    PROVE  \E f : /\ Erasing(f, keys, Len(keys))
                  /\ EraseViewed(keys) = {f[Len(keys)].store[j] : j \in 1 .. f[Len(keys)].size}
  <1> DEFINE n == Len(keys)
             P == {m \in 0 .. n : \E f : Erasing(f, keys, m)}
  <1>1. 0 \in P
    <2> DEFINE f == [i \in 0 .. 0 |-> View(n, keys)]
    <2>1. Erasing(f, keys, 0)
      BY DEF Erasing
    <2> QED
      BY <2>1
  <1>2. ASSUME NEW m \in 1 .. n, m - 1 \in P
        PROVE  m \in P
    <2>1. PICK f : Erasing(f, keys, m - 1)
      BY <1>2
    <2> DEFINE g == [i \in 0 .. m |-> IF i = m THEN EraseKey(f[m - 1], f[m - 1].store[m]) ELSE f[i]]
               h == [i \in 0 .. m |-> IF i = 0 THEN View(n, keys)
                                               ELSE EraseKey(g[i - 1], g[i - 1].store[i])]
    <2>2. ASSUME NEW i \in 0 .. m
          PROVE  g[i] = h[i]
      <3>1. CASE i = m
        <4>1. m - 1 \in 0 .. m /\ m - 1 # m /\ g[m - 1] = f[m - 1]
          OBVIOUS
        <4> QED
          BY <3>1, <4>1
      <3>2. CASE i # m /\ i # 0
        <4>1. i \in 0 .. m - 1 /\ i - 1 \in 0 .. m /\ i - 1 # m
          BY <3>2
        <4>2. g[i] = f[i] /\ g[i - 1] = f[i - 1] /\ h[i] = EraseKey(g[i - 1], g[i - 1].store[i])
          BY <3>2, <4>1
        <4>3. f[i] = EraseKey(f[i - 1], f[i - 1].store[i])
          BY <2>1, <3>2, <4>1 DEF Erasing
        <4> QED
          BY <4>2, <4>3
      <3>3. CASE i # m /\ i = 0
        BY <2>1, <3>3 DEF Erasing
      <3> QED
        BY <3>1, <3>2, <3>3
    <2>3. g = h
      BY <2>2
    <2>4. Erasing(g, keys, m)
      BY <2>3 DEF Erasing
    <2> QED
      BY <2>4
  <1>3. \A m \in 0 .. n : m \in P
    <2> HIDE DEF P, n
    <2> QED
      BY <1>1, <1>2, UpTo DEF n
  <1>4. \E f : Erasing(f, keys, n)
    BY <1>3
  <1> DEFINE after == CHOOSE f : Erasing(f, keys, n)
  <1>5. EraseViewed(keys) = {after[n].store[j] : j \in 1 .. after[n].size}
    BY DEF EraseViewed, Erasing, View
  <1>6. Erasing(after, keys, n)
    BY <1>4
  <1> QED
    BY <1>5, <1>6

LEMMA ErasingSteps ==
    ASSUME NEW keys, NEW n \in Nat, Len(keys) = n, NEW f, Erasing(f, keys, n)
    PROVE  /\ f[0].size = n /\ f[0].store = keys
           /\ \A i \in 1 .. n : f[i] = EraseKey(f[i - 1], f[i - 1].store[i])
  BY DEF Erasing, View

\* map::Erase keeps keys of the map, and takes one away if it is found.
Views(n, K) == [size : 0 .. n, store : [1 .. n -> K]]

LEMMA KeyErased ==
    ASSUME NEW n \in Nat, NEW K, NEW v \in Views(n, K), NEW k
    PROVE  EraseKey(v, k) \in Views(n, K)
  <1> DEFINE at == CHOOSE j \in 1 .. v.size : v.store[j] = k
             moved == [j \in DOMAIN v.store |-> IF j >= at /\ j < v.size THEN v.store[j + 1] ELSE v.store[j]]
  <1>1. v.size \in 0 .. n /\ v.store \in [1 .. n -> K] /\ DOMAIN v.store = 1 .. n
    BY DEF Views
  <1>2. CASE \A j \in 1 .. v.size : v.store[j] # k
    BY <1>2 DEF EraseKey
  <1>3. CASE \E j \in 1 .. v.size : v.store[j] = k
    <2>1. v.size - 1 \in 0 .. n
      BY <1>1, <1>3
    <2>2. moved \in [1 .. n -> K]
      <3> HIDE DEF at
      <3>1. \A j \in 1 .. n : j < v.size => j + 1 \in 1 .. n
        BY <1>1
      <3> QED
        BY <1>1, <3>1
    <2>3. EraseKey(v, k) = [size |-> v.size - 1, store |-> moved]
      BY <1>3 DEF EraseKey
    <2> HIDE DEF moved
    <2> QED
      BY <2>1, <2>2, <2>3 DEF Views
  <1> QED
    BY <1>2, <1>3

\* Whatever is left of the records was a record before.
LEMMA LeftWereThere ==
    ASSUME NEW K \in SUBSET Pairs
    PROVE  EraseViewed(InKeyOrder(K)) \subseteq K
  <1> DEFINE keys == InKeyOrder(K)
             n == Cardinality(K)
  <1>1. n \in Nat /\ keys \in [1 .. n -> K] /\ Len(keys) = n
    BY PairsInOrder, SortedInOrder, SortedIsLog
  <1> HIDE DEF keys, n
  <1>2. PICK f : /\ Erasing(f, keys, n)
                 /\ EraseViewed(keys) = {f[n].store[j] : j \in 1 .. f[n].size}
    BY <1>1, ErasingGoesOn
  <1>3. /\ f[0].size = n /\ f[0].store = keys
        /\ \A i \in 1 .. n : f[i] = EraseKey(f[i - 1], f[i - 1].store[i])
    BY <1>1, <1>2, ErasingSteps
  <1> DEFINE P == {i \in 0 .. n : f[i] \in Views(n, K)}
  <1>4. 0 \in P
    BY <1>1, <1>2 DEF Erasing, View, Views
  <1>5. \A i \in 1 .. n : i - 1 \in P => i \in P
    <2> TAKE i \in 1 .. n
    <2>1. f[i - 1] \in Views(n, K) => f[i] \in Views(n, K)
      BY <1>1, <1>3, KeyErased
    <2>2. i \in 0 .. n
      BY <1>1
    <2> QED
      BY <2>1, <2>2
  <1>6. n \in P
    <2> HIDE DEF P
    <2> QED
      BY <1>1, <1>4, <1>5, UpTo
  <1> QED
    BY <1>2, <1>6 DEF Views, keys

\* One or two records are all erased; of three, one would be left.
LEMMA TwoAreErased ==
    ASSUME NEW K \in SUBSET Pairs, Cardinality(K) <= 2
    PROVE  EraseViewed(InKeyOrder(K)) = {}
  <1> DEFINE keys == InKeyOrder(K)
             n == Cardinality(K)
  <1>1. /\ n \in Nat /\ keys \in [1 .. n -> K] /\ Len(keys) = n
        /\ \A i, j \in 1 .. n : i < j => keys[i] # keys[j]
    <2>1. \A i, j \in 1 .. n : i < j => <<keys[i], keys[j]>> \in PairOrder(K)
      BY PairsInOrder, SortedInOrder
    <2>2. n \in Nat /\ keys \in [1 .. n -> K] /\ Len(keys) = n
      BY PairsInOrder, SortedInOrder, SortedIsLog
    <2>3. \A k \in K : <<k, k>> \notin PairOrder(K)
      BY PairsInOrder DEF StrictOrder
    <2> HIDE DEF keys, n
    <2> QED
      BY <2>1, <2>2, <2>3
  <1>2. n = 0 \/ n = 1 \/ n = 2
    BY <1>1
  <1> HIDE DEF keys, n
  <1>3. PICK f : /\ Erasing(f, keys, n)
                 /\ EraseViewed(keys) = {f[n].store[j] : j \in 1 .. f[n].size}
    BY <1>1, ErasingGoesOn
  <1>4. /\ f[0].size = n /\ f[0].store = keys
        /\ \A i \in 1 .. n : f[i] = EraseKey(f[i - 1], f[i - 1].store[i])
    <2>1. n \in Nat
      BY <1>1
    <2>2. Len(keys) = n
      BY <1>1
    <2>3. Erasing(f, keys, n)
      BY <1>3
    <2> QED
      BY <2>1, <2>2, <2>3, ErasingSteps
  <1>5. CASE n = 0
    BY <1>3, <1>4, <1>5 DEF keys
  <1>6. CASE n = 1
    <2>1. f[1] = EraseKey(f[0], keys[1])
      BY <1>4, <1>6
    <2>2. 1 \in 1 .. f[0].size /\ f[0].store[1] = keys[1] /\ f[0].size - 1 = 0
      BY <1>4, <1>6
    <2>3. f[1].size = 0
      BY <2>1, <2>2 DEF EraseKey
    <2> QED
      BY <1>3, <1>6, <2>3 DEF keys
  <1>7. CASE n = 2
    <2>1. f[1] = EraseKey(f[0], keys[1]) /\ f[2] = EraseKey(f[1], f[1].store[2])
      BY <1>4, <1>7
    <2>2. DOMAIN keys = 1 .. 2 /\ keys[1] # keys[2] /\ f[0].size = 2 /\ f[0].store = keys
      BY <1>1, <1>4, <1>7
    <2>3. (CHOOSE j \in 1 .. 2 : keys[j] = keys[1]) = 1
      BY <2>2
    <2>4. f[1].size = 1 /\ f[1].store = [j \in 1 .. 2 |-> keys[2]]
      <3>1. f[1] = [size |-> 2 - 1,
                    store |-> [j \in 1 .. 2 |-> IF j >= 1 /\ j < 2 THEN keys[j + 1] ELSE keys[j]]]
        BY <2>1, <2>2, <2>3 DEF EraseKey
      <3>2. \A j \in 1 .. 2 : (IF j >= 1 /\ j < 2 THEN keys[j + 1] ELSE keys[j]) = keys[2]
        OBVIOUS
      <3> QED
        BY <3>1, <3>2
    <2>5. f[2] = EraseKey(f[1], keys[2]) /\ 1 \in 1 .. f[1].size /\ f[1].store[1] = keys[2]
      BY <2>1, <2>4
    <2>6. f[2].size = 0
      BY <2>4, <2>5 DEF EraseKey
    <2> QED
      BY <1>3, <1>7, <2>6 DEF keys
  <1> QED
    BY <1>2, <1>5, <1>6, <1>7
-----------------------------------------------------------------------------
\* What is said of the records, apart from the events.
HeldOK ==
    /\ place \in [GridIDs -> Placements \cup {{}}]
    /\ Records \in [Ranks -> SUBSET Pairs]
    /\ LocalMs \in [Ranks -> SUBSET Pairs] /\ LocalNs \in [Ranks -> SUBSET Pairs]
    /\ \A r \in Ranks : /\ \A k \in LocalMs[r] : k \in Records[r] /\ r \in place[k[1]]
                        /\ \A k \in LocalNs[r] : k \in Records[r] /\ r \in place[k[2]]
                        /\ \A k \in Records[r] : PairPossible(k)
    /\ \A r, q \in Ranks : Records[r] = Records[q]
    /\ toCreate \subseteq Pairs /\ \A k \in toCreate : PairPossible(k)

LEMMA ToldKeepsOrder ==
    ASSUME HeldOK', AllTold'
    PROVE  PairOK'
  <1>1. PairTypeOK'
    BY DEF HeldOK, AllTold, PairTypeOK
  <1>2. SidesOfRecords' /\ RanksAgree'
    BY DEF HeldOK, AllTold, SidesOfRecords, RanksAgree
  <1>3. NoEditForgotten' /\ LogsWellFormed'
    BY DEF AllTold, NoEditForgotten
  <1> QED
    BY <1>1, <1>2, <1>3 DEF PairOK

LEMMA OrderIsHeld ==
    ASSUME PairOK
    PROVE  HeldOK
  BY DEF PairOK, PairTypeOK, SidesOfRecords, RanksAgree, HeldOK

\* Closing an edit, and the creation of a grid (SyncEdits_ alone).
LEMMA EndEditKeeps ==
    ASSUME PairOK, EndEdit
    PROVE  PairOK' /\ (SidesOK => SidesOK')
  <1>1. AllTold' /\ (SidesOK => ListenersFindTheSide')
    BY SyncTells DEF EndEdit
  <1>2. HeldOK'
    BY OrderIsHeld DEF EndEdit, HeldOK, PairPossible, GridExists
  <1>3. SidesOK => SidesOK'
    BY <1>1 DEF EndEdit, SidesOK, LocalsMatchRecords, Cleared, PairPossible, GridExists
  <1> QED
    BY <1>1, <1>2, <1>3, ToldKeepsOrder

LEMMA CreateGridKeeps ==
    ASSUME PairOK, NEW g \in GridIDs, NEW P \in Placements, CreateGrid(g, P)
    PROVE  PairOK' /\ (SidesOK => SidesOK')
  <1>1. AllTold' /\ (SidesOK => ListenersFindTheSide')
    BY SyncTells DEF CreateGrid
  <1>2. HeldOK
    BY OrderIsHeld
  <1>3. /\ place' \in [GridIDs -> Placements \cup {{}}]
        /\ \A h \in GridIDs : GridExists(h) => place'[h] = place[h]
    BY <1>2 DEF CreateGrid, HeldOK, GridExists
  <1>4. ASSUME NEW k \in Pairs, PairPossible(k)
        PROVE  place'[k[1]] = place[k[1]] /\ place'[k[2]] = place[k[2]] /\ PairPossible(k)'
    <2>1. k[1] \in GridIDs /\ k[2] \in GridIDs
      BY PairComponentAssumption
    <2> QED
      BY <1>3, <1>4, <2>1 DEF PairPossible, GridExists
  <1>5. UNCHANGED <<Records, LocalMs, LocalNs, toCreate>> /\ toCreate = {}
    BY DEF CreateGrid
  <1>6. HeldOK'
    BY <1>2, <1>3, <1>4, <1>5 DEF HeldOK
  <1>7. SidesOK => SidesOK'
    <2> SUFFICES ASSUME SidesOK PROVE SidesOK'
      OBVIOUS
    <2>1. \A r \in Ranks : \A k \in Records[r] :
              place'[k[1]] = place[k[1]] /\ place'[k[2]] = place[k[2]] /\ PairPossible(k)'
      BY <1>2, <1>4 DEF HeldOK
    <2>2. LocalsMatchRecords'
      BY <1>5, <2>1 DEF SidesOK, LocalsMatchRecords
    <2> QED
      BY <1>1, <1>5, <2>2 DEF SidesOK, Cleared
  <1> QED
    BY <1>1, <1>6, <1>7, ToldKeepsOrder

\* CreateOverlaps: a batch of edits, then one of the pairs created.
SeenOnce(K, r) == [ms |-> LocalMs'[r], ns |-> LocalNs'[r], place |-> place]

LEMMA InsertIs ==
    ASSUME NEW K, Insert(K)
    PROVE  /\ Records' = [r \in Ranks |-> Records[r] \cup K]
           /\ LocalMs' = [r \in Ranks |-> LocalMs[r] \cup {k \in K : r \in place[k[1]]}]
           /\ LocalNs' = [r \in Ranks |-> LocalNs[r] \cup {k \in K : r \in place[k[2]]}]
           /\ Raise([r \in Ranks |-> SyncEvents(r) \o Told(K, "CREATE", SeenOnce(K, r))])
           /\ ClearFlags
  <1> DEFINE ms == [r \in Ranks |-> LocalMs[r] \cup {k \in K : r \in place[k[1]]}]
             ns == [r \in Ranks |-> LocalNs[r] \cup {k \in K : r \in place[k[2]]}]
             ev == [r \in Ranks |-> SyncEvents(r) \o
                       Told(K, "CREATE", [ms |-> ms[r], ns |-> ns[r], place |-> place])]
             es == [r \in Ranks |-> SyncEvents(r) \o Told(K, "CREATE", SeenOnce(K, r))]
  <1>1. LocalMs' = ms /\ LocalNs' = ns /\ Raise(ev)
    BY DEF Insert
  <1>2. ev = es
    BY <1>1 DEF SeenOnce
  <1>3. Raise(es)
    <2> HIDE DEF ev, es
    <2> QED
      BY <1>1, <1>2
  <1> QED
    BY <1>1, <1>3 DEF Insert

LEMMA InsertKeeps ==
    ASSUME PairOK, NEW K \in SUBSET Pairs, Insert(K), place' = place, toCreate' = {},
           \A k \in K : PairPossible(k), \A r \in Ranks : K \cap Edited(r) = {}
    PROVE  PairOK' /\ (SidesOK => SidesOK')
  <1> DEFINE ev == [r \in Ranks |-> SyncEvents(r) \o Told(K, "CREATE", SeenOnce(K, r))]
             KK == [r \in Ranks |-> K]
             seen == [r \in Ranks |-> SeenOnce(K, r)]
  <1>1. /\ Records' = [r \in Ranks |-> Records[r] \cup K]
        /\ LocalMs' = [r \in Ranks |-> LocalMs[r] \cup {k \in K : r \in place[k[1]]}]
        /\ LocalNs' = [r \in Ranks |-> LocalNs[r] \cup {k \in K : r \in place[k[2]]}]
        /\ Raise(ev) /\ ClearFlags
    BY InsertIs
  <1>2. KK \in [Ranks -> SUBSET Pairs] /\ TellsOf(ev, KK, "CREATE", seen)
    BY DEF Timely, TellsOf
  <1>3. AllFound(KK, seen)
    BY <1>1 DEF AllFound, FoundIn, SeenOnce, PairPossible, GridExists
  <1>4. AllTold' /\ (SidesOK => ListenersFindTheSide')
    <2> HIDE DEF ev, KK, seen
    <2> QED
      BY <1>1, <1>2, <1>3, SyncThenTold
  <1>5. HeldOK'
    <2>1. HeldOK /\ \A k : PairPossible(k)' <=> PairPossible(k)
      BY OrderIsHeld DEF PairPossible, GridExists
    <2> QED
      BY <1>1, <2>1 DEF HeldOK
  <1>6. SidesOK => SidesOK'
    <2>1. SidesOK => LocalsMatchRecords'
      BY <1>1 DEF SidesOK, LocalsMatchRecords, PairPossible, GridExists
    <2> QED
      BY <1>4, <2>1 DEF SidesOK, Cleared
  <1> QED
    BY <1>4, <1>5, <1>6, ToldKeepsOrder

LEMMA CreateKeeps ==
    ASSUME PairOK, NEW K \in SUBSET Pairs, Create(K)
    PROVE  PairOK' /\ (SidesOK => SidesOK')
  BY InsertKeeps DEF Create, Edited

LEMMA CreateForAssemblyKeeps ==
    ASSUME PairOK, CreateForAssembly
    PROVE  PairOK' /\ (SidesOK => SidesOK')
  <1>1. toCreate \in SUBSET Pairs /\ \A k \in toCreate : PairPossible(k)
    BY DEF PairOK, PairTypeOK, SidesOfRecords
  <1>2. \A r \in Ranks : Edited(r) = {}
    <2>1. \A r \in Ranks : EventFlags[r] = {}
      BY DEF CreateForAssembly, PairOK, SidesOfRecords
    <2> QED
      BY <2>1 DEF Edited, ReducedFlags
  <1> QED
    BY <1>1, <1>2, InsertKeeps DEF CreateForAssembly

\* DestroyOverlaps: a batch of edits, then one of the pairs K[r] to go.
LEMMA RemoveTells ==
    ASSUME PairOK, NEW K \in [Ranks -> SUBSET Pairs], RemovePairs(K),
           \A r, q \in Ranks : K[r] = K[q], \A r \in Ranks : K[r] \subseteq Records[r]
    PROVE  AllTold' /\ (SidesOK => ListenersFindTheSide')
  <1> DEFINE ev == [r \in Ranks |-> DestroyEvents(r, K[r])]
             seen == [r \in Ranks |-> Present(r)]
  <1>1. Raise(ev) /\ ClearFlags
    BY DEF RemovePairs
  <1>2. TellsOf(ev, K, "DESTROY", seen)
    BY DEF Timely, DestroyEvents, TellsOf
  <1>3. SidesOK => AllFound(K, seen)
    BY RecordsAreFound DEF SidesOK, PairOK, AllFound
  <1> HIDE DEF ev, seen
  <1> QED
    BY <1>1, <1>2, <1>3, SyncThenTold

\* What goes, goes with its sides; what stays of the records, the grids may have.
LEMMA RemoveHolds ==
    ASSUME HeldOK, NEW K \in [Ranks -> SUBSET Pairs], RemovePairs(K),
           NEW left \in [Ranks -> SUBSET Pairs], Records' = left,
           \A r, q \in Ranks : left[r] = left[q],
           \A r \in Ranks : Records[r] \ K[r] \subseteq left[r] /\ left[r] \subseteq Records[r],
           place' \in [GridIDs -> Placements \cup {{}}],
           \A r \in Ranks : \A k \in left[r] : place'[k[1]] = place[k[1]] /\ place'[k[2]] = place[k[2]],
           toCreate' \subseteq Pairs, \A k \in toCreate' : PairPossible(k)'
    PROVE  HeldOK'
  <1>1. /\ LocalMs' = [r \in Ranks |-> LocalMs[r] \ K[r]]
        /\ LocalNs' = [r \in Ranks |-> LocalNs[r] \ K[r]]
    BY DEF RemovePairs
  <1>2. ASSUME NEW r \in Ranks
        PROVE  /\ \A k \in LocalMs'[r] : k \in left[r] /\ r \in place'[k[1]]
               /\ \A k \in LocalNs'[r] : k \in left[r] /\ r \in place'[k[2]]
    BY <1>1 DEF HeldOK
  <1>3. \A r \in Ranks : \A k \in left[r] : PairPossible(k)'
    BY DEF HeldOK, PairPossible, GridExists
  <1> QED
    BY <1>1, <1>2, <1>3 DEF HeldOK

LEMMA DestroyKeeps ==
    ASSUME PairOK, NEW K \in SUBSET Pairs, Destroy(K)
    PROVE  PairOK' /\ (SidesOK => SidesOK')
  <1> DEFINE KK == [r \in Ranks |-> K]
             left == [r \in Ranks |-> Records[r] \ K]
  <1>1. /\ RemovePairs(KK) /\ Records' = left /\ place' = place /\ toCreate' = {}
        /\ \A r \in Ranks : KK[r] = K /\ K \subseteq Records[r]
        /\ KK \in [Ranks -> SUBSET Pairs]
    BY DEF Destroy
  <1>2. HeldOK
    BY OrderIsHeld
  <1>3. /\ left \in [Ranks -> SUBSET Pairs] /\ \A r, q \in Ranks : left[r] = left[q]
        /\ \A r \in Ranks : Records[r] \ KK[r] \subseteq left[r] /\ left[r] \subseteq Records[r]
    BY <1>1, <1>2 DEF HeldOK
  <1>4. LocalMs' = [r \in Ranks |-> LocalMs[r] \ K] /\ LocalNs' = [r \in Ranks |-> LocalNs[r] \ K]
    BY <1>1 DEF RemovePairs
  <1>5. SidesOK => LocalsMatchRecords'
    BY <1>1, <1>4 DEF SidesOK, LocalsMatchRecords, PairPossible, GridExists
  <1> HIDE DEF KK, left
  <1>6. AllTold' /\ (SidesOK => ListenersFindTheSide')
    BY <1>1, RemoveTells
  <1>7. HeldOK'
    BY <1>1, <1>2, <1>3, RemoveHolds DEF HeldOK
  <1> QED
    BY <1>1, <1>5, <1>6, <1>7, ToldKeepsOrder DEF SidesOK, Cleared

\* ClearOverlaps before CreateOverlaps: up to two records leave none behind.
LEMMA ClearKeeps ==
    ASSUME PairOK, NEW K \in SUBSET Pairs, ClearForAssembly(K)
    PROVE  PairOK' /\ (MaxCleared <= 2 /\ SidesOK => SidesOK')
  <1> DEFINE left == [r \in Ranks |-> EraseViewed(InKeyOrder(Records[r]))]
  <1>1. /\ RemovePairs(Records) /\ Records' = left /\ place' = place /\ toCreate' = K
        /\ \A k \in K : PairPossible(k)
        /\ \A r \in Ranks : Cardinality(Records[r]) <= MaxCleared
    BY DEF ClearForAssembly
  <1>2. HeldOK
    BY OrderIsHeld
  <1>3. /\ left \in [Ranks -> SUBSET Pairs] /\ \A r, q \in Ranks : left[r] = left[q]
        /\ \A r \in Ranks : Records[r] \ Records[r] \subseteq left[r] /\ left[r] \subseteq Records[r]
    BY <1>2, LeftWereThere DEF HeldOK
  <1>4. MaxCleared <= 2 => \A r \in Ranks : left[r] = {}
    <2> SUFFICES ASSUME MaxCleared <= 2, NEW r \in Ranks PROVE left[r] = {}
      OBVIOUS
    <2>1. Records[r] \in SUBSET Pairs
      BY <1>2 DEF HeldOK
    <2>2. Cardinality(Records[r]) \in Nat
      BY <2>1, PairsInOrder, FS_CardinalityType
    <2>3. Cardinality(Records[r]) <= 2
      BY <1>1, <2>2, PairComponentAssumption
    <2> QED
      BY <2>1, <2>3, TwoAreErased
  <1> HIDE DEF left
  <1>5. /\ AllTold' /\ (SidesOK => ListenersFindTheSide')
    BY <1>1, <1>2, RemoveTells DEF HeldOK
  <1>6. HeldOK'
    <2>1. \A k : PairPossible(k)' <=> PairPossible(k)
      BY <1>1 DEF PairPossible, GridExists
    <2>2. Records \in [Ranks -> SUBSET Pairs] /\ place' \in [GridIDs -> Placements \cup {{}}]
      BY <1>1, <1>2 DEF HeldOK
    <2> QED
      BY <1>1, <1>2, <1>3, <2>1, <2>2, RemoveHolds
  <1>7. /\ LocalMs' = [r \in Ranks |-> LocalMs[r] \ Records[r]]
        /\ LocalNs' = [r \in Ranks |-> LocalNs[r] \ Records[r]]
    BY <1>1 DEF RemovePairs
  <1>8. MaxCleared <= 2 /\ SidesOK => LocalsMatchRecords' /\ Cleared'
    BY <1>1, <1>4, <1>7 DEF SidesOK, LocalsMatchRecords, Cleared
  <1> QED
    BY <1>5, <1>6, <1>8, ToldKeepsOrder DEF SidesOK

\* Dying grids take the pairs along that have one of them on either side.
LEMMA DestroyGridsKeeps ==
    ASSUME PairOK, NEW G \in SUBSET GridIDs, DestroyGrids(G)
    PROVE  PairOK' /\ (SidesOK => SidesOK')
  <1> DEFINE K == [r \in Ranks |-> Dying(r, G)]
             left == [r \in Ranks |-> Records[r] \ Dying(r, G)]
  <1>1. /\ RemovePairs(K) /\ Records' = left /\ toCreate' = {}
        /\ place' = [g \in GridIDs |-> IF g \in G THEN {} ELSE place[g]]
    BY DEF DestroyGrids
  <1>2. HeldOK
    BY OrderIsHeld
  <1>3. \A r \in Ranks : K[r] = {k \in Records[r] : k[1] \in G \/ k[2] \in G}
    BY DEF Dying
  <1>4. \A r \in Ranks : left[r] = Records[r] \ K[r] /\ left[r] \in SUBSET Pairs
    BY <1>2 DEF HeldOK
  <1>5. K \in [Ranks -> SUBSET Pairs] /\ left \in [Ranks -> SUBSET Pairs]
    BY <1>2 DEF HeldOK, Dying
  <1> HIDE DEF K, left
  <1>6. \A r, q \in Ranks : K[r] = K[q] /\ left[r] = left[q] /\ K[r] \subseteq Records[r]
    <2> TAKE r \in Ranks, q \in Ranks
    <2>1. Records[r] = Records[q]
      BY <1>2 DEF HeldOK
    <2>2. K[r] = K[q] /\ K[r] \subseteq Records[r]
      BY <1>3, <2>1
    <2> QED
      BY <1>4, <2>1, <2>2
  <1>7. AllTold' /\ (SidesOK => ListenersFindTheSide')
    BY <1>1, <1>5, <1>6, RemoveTells
  <1>8. place' \in [GridIDs -> Placements \cup {{}}]
    BY <1>1, <1>2 DEF HeldOK
  <1>9. \A r \in Ranks : \A k \in left[r] : place'[k[1]] = place[k[1]] /\ place'[k[2]] = place[k[2]]
    <2> SUFFICES ASSUME NEW r \in Ranks, NEW k \in left[r]
                 PROVE  place'[k[1]] = place[k[1]] /\ place'[k[2]] = place[k[2]]
      OBVIOUS
    <2>1. k[1] \in GridIDs /\ k[2] \in GridIDs
      BY <1>4, PairComponentAssumption
    <2>2. k[1] \notin G /\ k[2] \notin G
      BY <1>3, <1>4
    <2> QED
      BY <1>1, <2>1, <2>2
  <1>10. \A r \in Ranks : Records[r] \ K[r] \subseteq left[r] /\ left[r] \subseteq Records[r]
    BY <1>4
  <1>11. HeldOK'
    BY <1>1, <1>2, <1>5, <1>6, <1>8, <1>9, <1>10, RemoveHolds
  <1>12. /\ LocalMs' = [r \in Ranks |-> LocalMs[r] \ K[r]]
         /\ LocalNs' = [r \in Ranks |-> LocalNs[r] \ K[r]]
    BY <1>1 DEF RemovePairs
  <1>13. SidesOK => LocalsMatchRecords'
    <2> SUFFICES ASSUME SidesOK, NEW r \in Ranks
                 PROVE  /\ LocalMs'[r] = {k \in left[r] : r \in place'[k[1]]}
                        /\ LocalNs'[r] = {k \in left[r] : r \in place'[k[2]]}
      BY <1>1, <1>11 DEF LocalsMatchRecords, HeldOK
    <2>1. /\ LocalMs[r] = {k \in Records[r] : r \in place[k[1]]}
          /\ LocalNs[r] = {k \in Records[r] : r \in place[k[2]]}
      BY DEF SidesOK, LocalsMatchRecords
    <2> QED
      BY <1>4, <1>9, <1>12, <2>1
  <1> QED
    BY <1>1, <1>7, <1>11, <1>13, ToldKeepsOrder DEF SidesOK, Cleared

\* An edit is flagged on the ranks that make it, and is to be told of everywhere.
LEMMA FlagKeeps ==
    ASSUME PairOK, NEW k \in Pairs, NEW ranks \in SUBSET Ranks, ranks # {}, NEW flags,
           \/ flags \subseteq MFlags /\ \A r \in ranks : k \in LocalMs[r]
           \/ flags \subseteq NFlags /\ \A r \in ranks : k \in LocalNs[r],
           FlagSide(k, ranks, flags)
    PROVE  PairOK' /\ (SidesOK => SidesOK')
  <1>1. /\ \A r \in Ranks : EventFlags'[r] = EventFlags[r] \cup IF r \in ranks THEN {k} \X flags ELSE {}
        /\ \A r \in Ranks : unheard'[r] = unheard[r] \cup ({k} \X flags)
        /\ \A r \in Ranks : log'[r] = <<>>
        /\ UNCHANGED <<place, Records, LocalMs, LocalNs, toCreate>> /\ toCreate = {}
    BY DEF FlagSide
  <1>2. \A r \in Ranks : EventFlags'[r] \subseteq (LocalMs'[r] \X MFlags) \cup (LocalNs'[r] \X NFlags)
    BY <1>1 DEF PairOK, PairTypeOK
  <1>3. unheard' \in [Ranks -> SUBSET (Pairs \X Edits)]
    <2>1. {k} \X flags \subseteq Pairs \X Edits
      BY DEF Edits
    <2> QED
      BY <2>1 DEF FlagSide, PairOK, PairTypeOK
  <1>4. PairTypeOK'
    BY <1>1, <1>2, <1>3 DEF PairOK, PairTypeOK
  <1>5. NoEditForgotten'
    <2> SUFFICES ASSUME NEW r \in Ranks, NEW e \in unheard'[r]
                 PROVE  \E q \in Ranks : e \in EventFlags'[q]
      BY DEF NoEditForgotten
    <2>1. CASE e \in unheard[r]
      BY <1>1, <2>1 DEF PairOK, NoEditForgotten
    <2>2. CASE e \in {k} \X flags
      BY <1>1, <2>2
    <2> QED
      BY <1>1, <2>1, <2>2
  <1>6. LogsWellFormed' /\ ListenersFindTheSide' /\ RanksAgree'
    <2>1. LogsWellFormed' /\ ListenersFindTheSide'
      BY <1>1 DEF LogsWellFormed, ListenersFindTheSide, EndsBatch, WithinLifetime
    <2>2. RanksAgree'
      <3> SUFFICES ASSUME NEW r \in Ranks, NEW q \in Ranks
                   PROVE  Records[r] = Records[q]
        BY <1>1 DEF RanksAgree, Heard
      <3> QED
        BY DEF PairOK, RanksAgree
    <2> QED
      BY <2>1, <2>2
  <1>7. SidesOfRecords'
    BY <1>1 DEF PairOK, SidesOfRecords, PairPossible, GridExists
  <1>8. SidesOK => SidesOK'
    BY <1>1, <1>6 DEF SidesOK, LocalsMatchRecords, Cleared, PairPossible, GridExists
  <1> QED
    BY <1>4, <1>5, <1>6, <1>7, <1>8 DEF PairOK

\* Whose sides are open for editing (EditOverlapM, EditOverlapN, Resize).
LEMMA SideEdited ==
    ASSUME PairOK, NEW k \in Pairs,
           \/ \E f : EditM(k, f) \/ EditN(k, f)
           \/ ResizeM(k) \/ ResizeN(k)
    PROVE  PairOK' /\ (SidesOK => SidesOK')
  <1>1. place[k[1]] \in SUBSET Ranks /\ place[k[2]] \in SUBSET Ranks
    <2>1. k[1] \in GridIDs /\ k[2] \in GridIDs
      BY PairComponentAssumption
    <2>2. \A g \in GridIDs : place[g] \in Placements \cup {{}}
      BY DEF PairOK, PairTypeOK
    <2>3. \A P \in Placements \cup {{}} : P \in SUBSET Ranks
      BY PairComponentAssumption
    <2> QED
      BY <2>1, <2>2, <2>3
  <1>2. ASSUME OpenM(k), NEW flags \in SUBSET MFlags, FlagSide(k, place[k[1]], flags)
        PROVE  PairOK' /\ (SidesOK => SidesOK')
    BY <1>1, <1>2, FlagKeeps DEF OpenM, PairPossible, GridExists
  <1>3. ASSUME OpenN(k), NEW flags \in SUBSET NFlags, FlagSide(k, place[k[2]], flags)
        PROVE  PairOK' /\ (SidesOK => SidesOK')
    BY <1>1, <1>3, FlagKeeps DEF OpenN, PairPossible, GridExists
  <1>4. ASSUME NEW f, EditM(k, f) \/ EditN(k, f)
        PROVE  PairOK' /\ (SidesOK => SidesOK')
    BY <1>2, <1>3, <1>4 DEF EditM, EditN
  <1>5. CASE ResizeM(k) \/ ResizeN(k)
    BY <1>2, <1>3, <1>5 DEF ResizeM, ResizeN
  <1> QED
    BY <1>4, <1>5

\* A new component has no records at all (domain::DestroyComponent).
LEMMA ReplaceKeeps ==
    ASSUME PairOK, ReplaceComponent
    PROVE  PairOK' /\ SidesOK'
  <1>1. /\ \A r \in Ranks : /\ Records'[r] = {} /\ LocalMs'[r] = {} /\ LocalNs'[r] = {}
                            /\ EventFlags'[r] = {} /\ unheard'[r] = {} /\ log'[r] = <<>>
        /\ place' = place /\ toCreate' = toCreate /\ toCreate = {}
    BY DEF ReplaceComponent
  <1>2. PairTypeOK'
    BY <1>1 DEF ReplaceComponent, PairOK, PairTypeOK
  <1>3. SidesOfRecords' /\ RanksAgree' /\ NoEditForgotten'
    BY <1>1 DEF SidesOfRecords, RanksAgree, NoEditForgotten, Heard
  <1>4. LogsWellFormed' /\ SidesOK'
    BY <1>1 DEF LogsWellFormed, EndsBatch, WithinLifetime,
                SidesOK, LocalsMatchRecords, ListenersFindTheSide, Cleared
  <1> QED
    BY <1>2, <1>3, <1>4 DEF PairOK

LEMMA UntouchedKeeps ==
    ASSUME PairOK, UNCHANGED pairVars
    PROVE  PairOK' /\ (SidesOK => SidesOK')
  <1> USE DEF pairVars
  <1>1. PairTypeOK' /\ NoEditForgotten'
    BY DEF PairOK, PairTypeOK, NoEditForgotten
  <1>2. RanksAgree' /\ LogsWellFormed'
    BY DEF PairOK, RanksAgree, LogsWellFormed, Heard
  <1>3. SidesOfRecords'
    BY DEF PairOK, SidesOfRecords, PairPossible, GridExists
  <1>4. LocalsMatchRecords => LocalsMatchRecords'
    BY DEF LocalsMatchRecords, PairPossible, GridExists
  <1>5. ListenersFindTheSide /\ Cleared => ListenersFindTheSide' /\ Cleared'
    BY DEF ListenersFindTheSide, Cleared
  <1> QED
    BY <1>1, <1>2, <1>3, <1>4, <1>5 DEF PairOK, SidesOK

\* The exchanger's own steps leave the component as it is.
OwnStep ==
    \/ Bind \/ Unbind
    \/ \E k \in Pairs :
          \/ CreateCollect(k) \/ CreateSend(k) \/ CreateReceive(k) \/ CreateDisperse(k)
          \/ DestroyCollect(k) \/ DestroySend(k) \/ DestroyReceive(k) \/ DestroyDisperse(k)

LEMMA OwnStepsTouchNothing ==
    ASSUME OwnStep
    PROVE  UNCHANGED pairVars
  BY DEF OwnStep, Bind, Unbind, CreateCollect, CreateSend, CreateReceive, CreateDisperse,
         DestroyCollect, DestroySend, DestroyReceive, DestroyDisperse, Adds, Drops

LEMMA StepKeepsPairs ==
    ASSUME PairOK, [Next]_vars
    PROVE  PairOK' /\ (MaxCleared <= 2 /\ SidesOK => SidesOK')
  <1>1. CASE ComponentStep
    <2>1. CASE EndEdit
      BY <2>1, EndEditKeeps
    <2>2. CASE CreateForAssembly
      BY <2>2, CreateForAssemblyKeeps
    <2>3. ASSUME NEW K \in SUBSET Pairs, Create(K) \/ Destroy(K) \/ ClearForAssembly(K)
          PROVE  PairOK' /\ (MaxCleared <= 2 /\ SidesOK => SidesOK')
      BY <2>3, CreateKeeps, DestroyKeeps, ClearKeeps
    <2>4. ASSUME NEW g \in GridIDs, NEW P \in Placements, CreateGrid(g, P)
          PROVE  PairOK' /\ (MaxCleared <= 2 /\ SidesOK => SidesOK')
      BY <2>4, CreateGridKeeps
    <2>5. ASSUME NEW G \in SUBSET GridIDs, DestroyGrids(G)
          PROVE  PairOK' /\ (MaxCleared <= 2 /\ SidesOK => SidesOK')
      BY <2>5, DestroyGridsKeeps
    <2>6. ASSUME NEW e \in EditsMade, EditM(e[1], e[2]) \/ EditN(e[1], e[2])
          PROVE  PairOK' /\ (MaxCleared <= 2 /\ SidesOK => SidesOK')
      <3>1. e[1] \in Pairs
        BY PairComponentAssumption
      <3> QED
        BY <2>6, <3>1, SideEdited
    <2>7. ASSUME NEW s \in Resized, ResizeM(s[1]) \/ ResizeN(s[1])
          PROVE  PairOK' /\ (MaxCleared <= 2 /\ SidesOK => SidesOK')
      <3>1. s[1] \in Pairs
        BY PairComponentAssumption
      <3> QED
        BY <2>7, <3>1, SideEdited
    <2> QED
      BY <1>1, <2>1, <2>2, <2>3, <2>4, <2>5, <2>6, <2>7 DEF ComponentStep, CreateOne, DestroyOne
  <1>2. CASE ReplaceComponent
    BY <1>2, ReplaceKeeps
  <1>3. CASE OwnStep
    BY <1>3, OwnStepsTouchNothing, UntouchedKeeps
  <1>4. CASE UNCHANGED vars
    BY <1>4, UntouchedKeeps DEF vars
  <1> QED
    BY <1>1, <1>2, <1>3, <1>4 DEF Next, OwnStep

LEMMA PairsBegin ==
    ASSUME Init
    PROVE  PairOK /\ SidesOK
  <1>1. /\ \A r \in Ranks : /\ Records[r] = {} /\ LocalMs[r] = {} /\ LocalNs[r] = {}
                            /\ EventFlags[r] = {} /\ unheard[r] = {} /\ log[r] = <<>>
        /\ toCreate = {}
    BY DEF Init, PairInit
  <1>2. PairTypeOK
    BY <1>1 DEF Init, PairInit, PairTypeOK
  <1>3. SidesOfRecords /\ RanksAgree /\ NoEditForgotten
    BY <1>1 DEF SidesOfRecords, RanksAgree, NoEditForgotten, Heard
  <1>4. LogsWellFormed /\ SidesOK
    BY <1>1 DEF LogsWellFormed, EndsBatch, WithinLifetime,
                SidesOK, LocalsMatchRecords, ListenersFindTheSide, Cleared
  <1> QED
    BY <1>2, <1>3, <1>4 DEF PairOK

\* Flags are on sides of records, records of grids that exist, and all ranks
\* have the same, however many are cleared (SyncEdits_, OverlapRecords_).
THEOREM PairInvariance == Spec => []PairOK
  <1>1. Init => PairOK
    BY PairsBegin
  <1>2. PairOK /\ [Next]_vars => PairOK'
    BY StepKeepsPairs
  <1> QED
    BY <1>1, <1>2, PTL DEF Spec

\* With no more than two records to clear, none of them is left behind.
THEOREM SidesInvariance == ASSUME MaxCleared <= 2 PROVE Spec => [](PairOK /\ SidesOK)
  <1>1. Init => PairOK /\ SidesOK
    BY PairsBegin
  <1>2. PairOK /\ SidesOK /\ [Next]_vars => PairOK' /\ SidesOK'
    BY StepKeepsPairs
  <1> QED
    BY <1>1, <1>2, PTL DEF Spec

\* An edit that some rank's listeners have not heard of is flagged on a rank that
\* made it: the next synchronisation, which no operation goes without, tells of
\* it (EventFlags of the records, SyncEdits_), even after a clearing gone wrong.
THEOREM EditsRemembered == Spec => []NoEditForgotten
  <1>1. PairOK => NoEditForgotten
    BY DEF PairOK
  <1> QED
    BY <1>1, PairInvariance, PTL

\* The ranks agree on the records and hold the sides that these and their grids
\* call for (CreateOverlaps, DestroyOverlaps, DestroyOverlapsForDyingGrids_), if
\* no more than two records are ever cleared at once: of three, one stays.
THEOREM RanksHaveTheirSides == ASSUME MaxCleared <= 2 PROVE Spec => []RecordsAgree
  <1>1. PairOK /\ SidesOK => RecordsAgree
    BY DEF PairOK, SidesOK, RecordsAgree
  <1> QED
    BY <1>1, SidesInvariance, PTL

\* Listeners hear of edits after the beginning and before the end, in batches
\* that end, and find the sides and grids they are told of, on the same condition.
THEOREM ListenersServed == ASSUME MaxCleared <= 2 PROVE Spec => []ListenersFindTheirWay
  <1>1. PairOK /\ SidesOK => ListenersFindTheirWay
    BY DEF PairOK, SidesOK, ListenersFindTheirWay
  <1> QED
    BY <1>1, SidesInvariance, PTL
-----------------------------------------------------------------------------
\* The exchanger's answers to one event after another.
Answering(f, x, r, events, m) ==
    f = [i \in 0 .. m |-> IF i = 0 THEN x ELSE OnConnectivityEvent(f[i - 1], r, events[i])]

Answers(f, x, r, events) ==
    /\ f[0] = x
    /\ \A i \in 1 .. Len(events) : f[i] = OnConnectivityEvent(f[i - 1], r, events[i])
    /\ Answer(x, r, events) = f[Len(events)]

LEMMA AnsweringGoesOn ==
    ASSUME NEW x, NEW r, NEW events, Len(events) \in Nat
    PROVE  \E f : Answers(f, x, r, events)
  <1> DEFINE n == Len(events)
             P == {m \in 0 .. n : \E f : Answering(f, x, r, events, m)}
  <1>1. 0 \in P
    <2> DEFINE f == [i \in 0 .. 0 |-> x]
    <2>1. Answering(f, x, r, events, 0)
      BY DEF Answering
    <2> QED
      BY <2>1
  <1>2. ASSUME NEW m \in 1 .. n, m - 1 \in P
        PROVE  m \in P
    <2>1. PICK f : Answering(f, x, r, events, m - 1)
      BY <1>2
    <2> DEFINE g == [i \in 0 .. m |-> IF i = m THEN OnConnectivityEvent(f[m - 1], r, events[m]) ELSE f[i]]
               h == [i \in 0 .. m |-> IF i = 0 THEN x ELSE OnConnectivityEvent(g[i - 1], r, events[i])]
    <2>2. ASSUME NEW i \in 0 .. m
          PROVE  g[i] = h[i]
      <3>1. CASE i = m
        <4>1. m - 1 \in 0 .. m /\ m - 1 # m /\ g[m - 1] = f[m - 1]
          OBVIOUS
        <4> QED
          BY <3>1, <4>1
      <3>2. CASE i # m /\ i # 0
        <4>1. i \in 0 .. m - 1 /\ i - 1 \in 0 .. m /\ i - 1 # m
          BY <3>2
        <4>2. g[i] = f[i] /\ g[i - 1] = f[i - 1] /\ h[i] = OnConnectivityEvent(g[i - 1], r, events[i])
          BY <3>2, <4>1
        <4>3. f[i] = OnConnectivityEvent(f[i - 1], r, events[i])
          BY <2>1, <3>2, <4>1 DEF Answering
        <4> QED
          BY <4>2, <4>3
      <3>3. CASE i # m /\ i = 0
        BY <2>1, <3>3 DEF Answering
      <3> QED
        BY <3>1, <3>2, <3>3
    <2>3. g = h
      BY <2>2
    <2>4. Answering(g, x, r, events, m)
      BY <2>3 DEF Answering
    <2> QED
      BY <2>4
  <1>3. \A m \in 0 .. n : m \in P
    <2> HIDE DEF P, n
    <2> QED
      BY <1>1, <1>2, UpTo DEF n
  <1>4. \E f : Answering(f, x, r, events, n)
    BY <1>3
  <1> DEFINE after == CHOOSE f : Answering(f, x, r, events, n)
  <1>5. Answer(x, r, events) = after[n]
    BY DEF Answer, Answering
  <1>6. Answering(after, x, r, events, n)
    BY <1>4
  <1> HIDE DEF after
  <1>7. after[0] = x /\ \A i \in 1 .. n : after[i] = OnConnectivityEvent(after[i - 1], r, events[i])
    BY <1>6 DEF Answering
  <1> QED
    BY <1>5, <1>7 DEF Answers

\* Two batches are answered one after the other.
LEMMA AnswersJoin ==
    ASSUME NEW x, NEW r, NEW s, NEW t, IsLog(s), IsLog(t)
    PROVE  Answer(x, r, s \o t) = Answer(Answer(x, r, s), r, t)
  <1> DEFINE m == Len(s)
             n == Len(t)
             u == s \o t
             y == Answer(x, r, s)
  <1>1. /\ m \in Nat /\ n \in Nat /\ Len(u) = m + n /\ Len(u) \in Nat
        /\ \A i \in 1 .. m : u[i] = s[i]
        /\ \A i \in 1 .. n : u[i + m] = t[i]
    BY LogsJoin DEF IsLog
  <1> HIDE DEF u
  <1>2. PICK f : Answers(f, x, r, u)
    BY <1>1, AnsweringGoesOn
  <1>3. PICK g : Answers(g, x, r, s)
    BY <1>1, AnsweringGoesOn
  <1>4. PICK h : Answers(h, y, r, t)
    BY <1>1, AnsweringGoesOn
  <1>5. /\ f[0] = x /\ \A i \in 1 .. m + n : f[i] = OnConnectivityEvent(f[i - 1], r, u[i])
        /\ g[0] = x /\ \A i \in 1 .. m : g[i] = OnConnectivityEvent(g[i - 1], r, s[i])
        /\ h[0] = g[m] /\ \A i \in 1 .. n : h[i] = OnConnectivityEvent(h[i - 1], r, t[i])
        /\ Answer(x, r, u) = f[m + n] /\ Answer(y, r, t) = h[n]
    BY <1>1, <1>2, <1>3, <1>4 DEF Answers
  <1>6. m \in Nat /\ n \in Nat
    BY <1>1
  <1> HIDE DEF y, m, n
  <1>7. f[m] = g[m]
    <2> DEFINE P == {i \in 0 .. m : f[i] = g[i]}
    <2>1. 0 \in P
      BY <1>5, <1>6
    <2>2. ASSUME NEW i \in 1 .. m, i - 1 \in P
          PROVE  i \in P
      <3>1. i \in 1 .. m + n /\ i \in 0 .. m
        BY <1>1
      <3> QED
        BY <1>1, <1>5, <2>2, <3>1
    <2>3. \A i \in 1 .. m : i - 1 \in P => i \in P
      BY <2>2
    <2>4. m \in 0 .. m /\ m \in P
      <3> HIDE DEF P
      <3> QED
        BY <1>6, <2>1, <2>3, UpTo
    <2> QED
      BY <2>4
  <1>8. f[n + m] = h[n]
    <2> DEFINE P == {i \in 0 .. n : f[i + m] = h[i]}
    <2>1. 0 \in P
      BY <1>7, <1>5, <1>6
    <2>2. ASSUME NEW i \in 1 .. n, i - 1 \in P
          PROVE  i \in P
      <3>1. i + m \in 1 .. m + n /\ i \in 0 .. n /\ (i + m) - 1 = (i - 1) + m
        BY <1>1
      <3>2. f[i + m] = OnConnectivityEvent(f[(i - 1) + m], r, u[i + m])
        BY <1>5, <3>1
      <3> QED
        BY <1>1, <1>5, <2>2, <3>1, <3>2
    <2>3. \A i \in 1 .. n : i - 1 \in P => i \in P
      BY <2>2
    <2>4. n \in 0 .. n /\ n \in P
      <3> HIDE DEF P
      <3> QED
        BY <1>6, <2>1, <2>3, UpTo
    <2> QED
      BY <2>4
  <1>9. n + m = m + n
    BY <1>1
  <1> QED
    BY <1>8, <1>9, <1>5 DEF u, y
-----------------------------------------------------------------------------
\* The exchanger's state on a rank, and what it notes of events.
Local ==
    [ms : SUBSET Pairs, ns : SUBSET Pairs,
     create : SUBSET Pairs, destroy : SUBSET Pairs, ranks : SUBSET Pairs, reset : SUBSET Pairs,
     ranksBehind : SUBSET (Pairs \X Edits), mapsBehind : SUBSET (Pairs \X Edits),
     ownMapsBehind : SUBSET (Pairs \X Edits),
     exchanges : SUBSET (Pairs \X Kinds), exchangesBehind : SUBSET (Pairs \X Kinds \X Edits),
     lost : SUBSET Pairs]

NoneNoted(x) == x.create = {} /\ x.destroy = {} /\ x.ranks = {} /\ x.reset = {}

Noting(x, c, d, s, t) == [x EXCEPT !.create = c, !.destroy = d, !.ranks = s, !.reset = t]

Creating(e) == "CREATE" \in e.flags
Destroying(e) == "DESTROY" \in e.flags
ChangingRanks(e) == Creating(e) \/ e.flags \cap RankEdits # {}
Changing(e) == Creating(e) \/ e.flags \cap Edits # {}

LEMMA NoteAdds ==
    ASSUME NEW x \in Local, NEW c, NEW d, NEW s, NEW t, NEW e
    PROVE  Note(Noting(x, c, d, s, t), e) =
           Noting(x, c \cup When(Creating(e), e.id), d \cup When(Destroying(e), e.id),
                     s \cup When(ChangingRanks(e), e.id), t \cup When(Changing(e), e.id))
  BY DEF Note, Noting, Creating, Destroying, ChangingRanks, Changing, Local

LEMMA NotingNothing ==
    ASSUME NEW x \in Local, NoneNoted(x)
    PROVE  Noting(x, {}, {}, {}, {}) = x
  BY DEF Noting, NoneNoted, Local

\* The objects that the first i events at places in S are about.
About(b, i, S) == {b[j].id : j \in S \cap 1 .. i}

LEMMA AboutGrows ==
    ASSUME NEW b, NEW n \in Nat, NEW i \in 1 .. n, NEW S
    PROVE  About(b, i, S) = About(b, i - 1, S) \cup When(i \in S, b[i].id)
  <1>1. 1 .. i = (1 .. i - 1) \cup {i}
    OBVIOUS
  <1>2. CASE i \in S
    <2>1. S \cap 1 .. i = (S \cap 1 .. i - 1) \cup {i}
      BY <1>1, <1>2
    <2> QED
      BY <1>2, <2>1 DEF About, When
  <1>3. CASE i \notin S
    <2>1. S \cap 1 .. i = S \cap 1 .. i - 1
      BY <1>1, <1>3
    <2> QED
      BY <1>3, <2>1 DEF About, When
  <1> QED
    BY <1>2, <1>3

NotedUpTo(x, b, i) ==
    Noting(x, About(b, i, {j \in 1 .. Len(b) : Creating(b[j])}),
              About(b, i, {j \in 1 .. Len(b) : Destroying(b[j])}),
              About(b, i, {j \in 1 .. Len(b) : ChangingRanks(b[j])}),
              About(b, i, {j \in 1 .. Len(b) : Changing(b[j])}))

LEMMA NotedNext ==
    ASSUME NEW x \in Local, NEW b, Len(b) \in Nat, NEW i \in 1 .. Len(b)
    PROVE  Note(NotedUpTo(x, b, i - 1), b[i]) = NotedUpTo(x, b, i)
  <1> DEFINE n == Len(b)
             C == {j \in 1 .. n : Creating(b[j])}
             D == {j \in 1 .. n : Destroying(b[j])}
             S == {j \in 1 .. n : ChangingRanks(b[j])}
             T == {j \in 1 .. n : Changing(b[j])}
  <1>1. /\ (i \in C) = Creating(b[i]) /\ (i \in D) = Destroying(b[i])
        /\ (i \in S) = ChangingRanks(b[i]) /\ (i \in T) = Changing(b[i])
    BY DEF Creating, Destroying, ChangingRanks, Changing
  <1>2. /\ NotedUpTo(x, b, i - 1) =
             Noting(x, About(b, i - 1, C), About(b, i - 1, D), About(b, i - 1, S), About(b, i - 1, T))
        /\ NotedUpTo(x, b, i) =
             Noting(x, About(b, i, C), About(b, i, D), About(b, i, S), About(b, i, T))
    BY DEF NotedUpTo
  <1> HIDE DEF C, D, S, T
  <1>3. /\ About(b, i, C) = About(b, i - 1, C) \cup When(Creating(b[i]), b[i].id)
        /\ About(b, i, D) = About(b, i - 1, D) \cup When(Destroying(b[i]), b[i].id)
        /\ About(b, i, S) = About(b, i - 1, S) \cup When(ChangingRanks(b[i]), b[i].id)
        /\ About(b, i, T) = About(b, i - 1, T) \cup When(Changing(b[i]), b[i].id)
    BY <1>1, AboutGrows
  <1> HIDE DEF n
  <1> QED
    BY <1>2, <1>3, NoteAdds

\* What is noted of a whole batch in which the flags of the objects K are F.
Noted(x, K, F) ==
    Noting(x, {k \in K : "CREATE" \in F[k]}, {k \in K : "DESTROY" \in F[k]},
              {k \in K : "CREATE" \in F[k] \/ F[k] \cap RankEdits # {}},
              {k \in K : "CREATE" \in F[k] \/ F[k] \cap Edits # {}})

LEMMA AllNoted ==
    ASSUME NEW x, NEW b, NEW K, NEW F, NEW seen, WholeBatch(b, K, F, seen)
    PROVE  NotedUpTo(x, b, Len(b)) = Noted(x, K, F)
  <1> DEFINE n == Len(b)
  <1>1. /\ \A i \in 1 .. n : b[i].id \in K /\ b[i].flags = F[b[i].id]
        /\ \A k \in K : \E i \in 1 .. n : b[i].id = k
    BY DEF WholeBatch
  <1> HIDE DEF n
  <1>2. /\ About(b, n, {j \in 1 .. n : Creating(b[j])}) = {k \in K : "CREATE" \in F[k]}
        /\ About(b, n, {j \in 1 .. n : Destroying(b[j])}) = {k \in K : "DESTROY" \in F[k]}
    BY <1>1 DEF About, Creating, Destroying
  <1>3. About(b, n, {j \in 1 .. n : ChangingRanks(b[j])})
            = {k \in K : "CREATE" \in F[k] \/ F[k] \cap RankEdits # {}}
    BY <1>1 DEF About, Creating, ChangingRanks
  <1>4. About(b, n, {j \in 1 .. n : Changing(b[j])})
            = {k \in K : "CREATE" \in F[k] \/ F[k] \cap Edits # {}}
    BY <1>1 DEF About, Creating, Changing
  <1> QED
    BY <1>2, <1>3, <1>4 DEF NotedUpTo, Noted, n

\* A batch is noted event by event and acted on at its end, if it has one.
LEMMA BatchAnswered ==
    ASSUME NEW x \in Local, NoneNoted(x), NEW r, NEW b, NEW K, NEW F, NEW seen,
           WholeBatch(b, K, F, seen)
    PROVE  Answer(x, r, b) = IF K = {} THEN x ELSE Update(Noted(x, K, F), r, seen)
  <1> DEFINE n == Len(b)
  <1>1. n \in Nat
    BY DEF WholeBatch, IsLog
  <1>2. PICK f : Answers(f, x, r, b)
    BY <1>1, AnsweringGoesOn
  <1>3. f[0] = x /\ Answer(x, r, b) = f[n]
    BY <1>2 DEF Answers
  <1>4. \A i \in 1 .. n : f[i] = IF i = n THEN Update(Note(f[i - 1], b[i]), r, seen)
                                          ELSE Note(f[i - 1], b[i])
    BY <1>2 DEF Answers, OnConnectivityEvent, WholeBatch
  <1>5. K = {} <=> n = 0
    BY <1>1 DEF WholeBatch
  <1>6. CASE n # 0
    <2> DEFINE P == {i \in 0 .. n - 1 : f[i] = NotedUpTo(x, b, i)}
    <2>1. 0 \in P
      <3>1. \A S : About(b, 0, S) = {}
        BY DEF About
      <3>2. NotedUpTo(x, b, 0) = x
        BY <3>1, NotingNothing DEF NotedUpTo
      <3> QED
        BY <1>1, <1>3, <1>6, <3>2
    <2>2. ASSUME NEW i \in 1 .. n - 1, i - 1 \in P
          PROVE  i \in P
      <3>1. i \in 1 .. n /\ i # n /\ i \in 0 .. n - 1
        BY <1>1
      <3>2. f[i] = Note(NotedUpTo(x, b, i - 1), b[i])
        BY <1>4, <2>2, <3>1
      <3> QED
        BY <1>1, <3>1, <3>2, NotedNext
    <2>3. n - 1 \in P
      <3>1. \A i \in 1 .. n - 1 : i - 1 \in P => i \in P
        BY <2>2
      <3>2. n - 1 \in Nat /\ n - 1 \in 0 .. n - 1
        BY <1>1, <1>6
      <3> HIDE DEF P, n
      <3> QED
        BY <2>1, <3>1, <3>2, UpTo
    <2>4. n \in 1 .. n /\ f[n] = Update(Note(NotedUpTo(x, b, n - 1), b[n]), r, seen)
      BY <1>1, <1>4, <1>6, <2>3
    <2>5. f[n] = Update(Noted(x, K, F), r, seen)
      BY <1>1, <2>4, NotedNext, AllNoted
    <2> QED
      BY <1>3, <1>5, <1>6, <2>5
  <1>7. CASE n = 0
    BY <1>3, <1>5, <1>7
  <1> QED
    BY <1>6, <1>7
-----------------------------------------------------------------------------
\* What Update_ makes of the four sets that were noted, field by field.
Other(e, K) == e[1] \notin K

LEMMA LocalsCreated ==
    ASSUME NEW x \in Local, NEW r, NEW seen, NEW y, y = CreateLocals(x, r, seen)
    PROVE  /\ y \in Local
           /\ y.ms = x.ms \cup {k \in x.create : r \in seen.place[k[1]]}
           /\ y.ns = x.ns \cup {k \in x.create : r \in seen.place[k[2]]}
           /\ y.lost = x.lost \cup ({k \in x.create : r \in seen.place[k[1]]} \ seen.ms)
                              \cup ({k \in x.create : r \in seen.place[k[2]]} \ seen.ns)
           /\ y.create = x.create /\ y.destroy = x.destroy /\ y.ranks = x.ranks /\ y.reset = x.reset
           /\ y.ranksBehind = x.ranksBehind /\ y.mapsBehind = x.mapsBehind
           /\ y.ownMapsBehind = x.ownMapsBehind
           /\ y.exchanges = x.exchanges /\ y.exchangesBehind = x.exchangesBehind
  BY DEF CreateLocals, Local

LEMMA LocalsGone ==
    ASSUME NEW x \in Local, NEW K, NEW y, y = Without(x, K)
    PROVE  /\ y \in Local
           /\ y.ms = x.ms \ K /\ y.ns = x.ns \ K /\ y.lost = x.lost
           /\ y.create = x.create /\ y.destroy = x.destroy /\ y.ranks = x.ranks /\ y.reset = x.reset
           /\ y.ranksBehind = {e \in x.ranksBehind : Other(e, K)}
           /\ y.mapsBehind = {e \in x.mapsBehind : Other(e, K)}
           /\ y.ownMapsBehind = {e \in x.ownMapsBehind : Other(e, K)}
           /\ y.exchanges = {h \in x.exchanges : Other(h, K)}
           /\ y.exchangesBehind = {h \in x.exchangesBehind : Other(h, K)}
  BY DEF Without, Local, Other

LEMMA RanksUpdated ==
    ASSUME NEW x \in Local, NEW r, NEW seen, NEW y, y = UpdateSourceDestRanks(x, r, seen)
    PROVE  /\ y \in Local
           /\ y.ms = x.ms /\ y.ns = x.ns /\ y.lost = x.lost \cup Missing(x, r, seen, x.ranks)
           /\ y.create = x.create /\ y.destroy = x.destroy /\ y.ranks = x.ranks /\ y.reset = x.reset
           /\ y.ranksBehind = {e \in x.ranksBehind : Other(e, x.ranks)}
           /\ y.mapsBehind = x.mapsBehind /\ y.ownMapsBehind = x.ownMapsBehind
           /\ y.exchanges = x.exchanges /\ y.exchangesBehind = x.exchangesBehind
  <1>1. Missing(x, r, seen, x.ranks) \subseteq Pairs
    BY DEF Missing, Local
  <1> QED
    BY <1>1 DEF UpdateSourceDestRanks, Local, Other

LEMMA ExchangesReset ==
    ASSUME NEW x \in Local, NEW r, NEW seen, NEW y, y = ResetExchanges(x, r, seen)
    PROVE  /\ y \in Local
           /\ y.ms = x.ms /\ y.ns = x.ns /\ y.lost = x.lost \cup Missing(x, r, seen, x.reset)
           /\ y.create = x.create /\ y.destroy = x.destroy /\ y.ranks = x.ranks /\ y.reset = x.reset
           /\ y.ranksBehind = x.ranksBehind
           /\ \A e \in y.mapsBehind : \/ e \in x.mapsBehind /\ Other(e, x.reset)
                                      \/ e \in x.ranksBehind /\ e[1] \in x.reset
           /\ y.ownMapsBehind = {e \in x.ownMapsBehind : Other(e, x.reset)}
           /\ y.exchanges = {h \in x.exchanges : Other(h, x.reset)}
           /\ y.exchangesBehind = {h \in x.exchangesBehind : Other(h, x.reset)}
  <1>1. Missing(x, r, seen, x.reset) \subseteq Pairs
    BY DEF Missing, Local
  <1> QED
    BY <1>1 DEF ResetExchanges, Local, Other

\* Some of what was noted of x is left to y.
Fewer(y, x) ==
    /\ \A e \in y.ranksBehind : e \in x.ranksBehind /\ Other(e, x.ranks)
    /\ \A e \in y.mapsBehind : \/ e \in x.mapsBehind /\ Other(e, x.reset)
                               \/ e \in x.ranksBehind /\ Other(e, x.ranks)
    /\ \A e \in y.ownMapsBehind : e \in x.ownMapsBehind /\ Other(e, x.reset)
    /\ \A h \in y.exchanges : h \in x.exchanges
    /\ \A h \in y.exchangesBehind : h \in x.exchangesBehind /\ Other(h, x.reset)

LEMMA Updated ==
    ASSUME NEW x \in Local, NEW r, NEW seen
    PROVE  LET y == Update(x, r, seen)
               ms == {k \in x.create : r \in seen.place[k[1]]}
               ns == {k \in x.create : r \in seen.place[k[2]]}
           IN  /\ y \in Local /\ NoneNoted(y) /\ Fewer(y, x)
               /\ y.ms = (x.ms \cup ms) \ x.destroy /\ y.ns = (x.ns \cup ns) \ x.destroy
               /\ \A e \in y.ranksBehind \cup y.mapsBehind \cup y.ownMapsBehind
                           \cup y.exchanges \cup y.exchangesBehind : Other(e, x.destroy)
               /\ y.lost = x.lost \cup (ms \ seen.ms) \cup (ns \ seen.ns)
                                  \cup Missing(y, r, seen, x.ranks \cup x.reset)
  <1> DEFINE a == CreateLocals(x, r, seen)
             b == DestroyLocals(a)
             c == UpdateSourceDestRanks(b, r, seen)
             d == ResetExchanges(c, r, seen)
             y == Update(x, r, seen)
             ms == {k \in x.create : r \in seen.place[k[1]]}
             ns == {k \in x.create : r \in seen.place[k[2]]}
  <1>1. /\ a \in Local /\ a.ms = x.ms \cup ms /\ a.ns = x.ns \cup ns
        /\ a.lost = x.lost \cup (ms \ seen.ms) \cup (ns \ seen.ns)
        /\ a.destroy = x.destroy /\ a.ranks = x.ranks /\ a.reset = x.reset
        /\ a.ranksBehind = x.ranksBehind /\ a.mapsBehind = x.mapsBehind
        /\ a.ownMapsBehind = x.ownMapsBehind
        /\ a.exchanges = x.exchanges /\ a.exchangesBehind = x.exchangesBehind
    BY LocalsCreated
  <1> HIDE DEF a
  <1>2. /\ b \in Local /\ b.ms = a.ms \ a.destroy /\ b.ns = a.ns \ a.destroy /\ b.lost = a.lost
        /\ b.ranks = a.ranks /\ b.reset = a.reset
        /\ b.ranksBehind = {e \in a.ranksBehind : Other(e, a.destroy)}
        /\ b.mapsBehind = {e \in a.mapsBehind : Other(e, a.destroy)}
        /\ b.ownMapsBehind = {e \in a.ownMapsBehind : Other(e, a.destroy)}
        /\ b.exchanges = {h \in a.exchanges : Other(h, a.destroy)}
        /\ b.exchangesBehind = {h \in a.exchangesBehind : Other(h, a.destroy)}
    <2>1. b = Without(a, a.destroy)
      BY DEF DestroyLocals
    <2> HIDE DEF b
    <2> QED
      BY <1>1, <2>1, LocalsGone
  <1> HIDE DEF b
  <1>3. /\ c \in Local /\ c.ms = b.ms /\ c.ns = b.ns
        /\ c.lost = b.lost \cup Missing(b, r, seen, b.ranks) /\ c.reset = b.reset
        /\ c.ranksBehind = {e \in b.ranksBehind : Other(e, b.ranks)}
        /\ c.mapsBehind = b.mapsBehind /\ c.ownMapsBehind = b.ownMapsBehind
        /\ c.exchanges = b.exchanges /\ c.exchangesBehind = b.exchangesBehind
    BY <1>2, RanksUpdated
  <1> HIDE DEF c
  <1>4. /\ d \in Local /\ d.ms = c.ms /\ d.ns = c.ns
        /\ d.lost = c.lost \cup Missing(c, r, seen, c.reset)
        /\ d.ranksBehind = c.ranksBehind
        /\ \A e \in d.mapsBehind : \/ e \in c.mapsBehind /\ Other(e, c.reset)
                                   \/ e \in c.ranksBehind /\ e[1] \in c.reset
        /\ d.ownMapsBehind = {e \in c.ownMapsBehind : Other(e, c.reset)}
        /\ d.exchanges = {h \in c.exchanges : Other(h, c.reset)}
        /\ d.exchangesBehind = {h \in c.exchangesBehind : Other(h, c.reset)}
    BY <1>3, ExchangesReset
  <1>5. y = [d EXCEPT !.create = {}, !.destroy = {}, !.ranks = {}, !.reset = {}]
    BY DEF Update, a, b, c
  <1> HIDE DEF d, y
  <1>6. /\ y \in Local /\ NoneNoted(y) /\ y.ms = d.ms /\ y.ns = d.ns /\ y.lost = d.lost
        /\ y.ranksBehind = d.ranksBehind /\ y.mapsBehind = d.mapsBehind
        /\ y.ownMapsBehind = d.ownMapsBehind
        /\ y.exchanges = d.exchanges /\ y.exchangesBehind = d.exchangesBehind
    BY <1>4, <1>5 DEF Local, NoneNoted
  <1> HIDE DEF ms, ns
  <1>7. y.ms = (x.ms \cup ms) \ x.destroy /\ y.ns = (x.ns \cup ns) \ x.destroy
    BY <1>1, <1>2, <1>3, <1>4, <1>6
  <1>8. Fewer(y, x)
    BY <1>1, <1>2, <1>3, <1>4, <1>6 DEF Fewer
  <1>9. \A e \in y.ranksBehind \cup y.mapsBehind \cup y.ownMapsBehind
                 \cup y.exchanges \cup y.exchangesBehind : Other(e, x.destroy)
    BY <1>1, <1>2, <1>3, <1>4, <1>6
  <1>10. /\ b.ms = y.ms /\ b.ns = y.ns /\ c.ms = y.ms /\ c.ns = y.ns
         /\ b.ranks = x.ranks /\ c.reset = x.reset
    BY <1>1, <1>2, <1>3, <1>4, <1>6
  <1>11. /\ Missing(b, r, seen, b.ranks) \cup Missing(c, r, seen, c.reset)
                 = Missing(y, r, seen, x.ranks \cup x.reset)
    BY <1>10 DEF Missing
  <1>12. y.lost = x.lost \cup (ms \ seen.ms) \cup (ns \ seen.ns)
                         \cup Missing(y, r, seen, x.ranks \cup x.reset)
    BY <1>1, <1>2, <1>3, <1>4, <1>6, <1>11
  <1> QED
    BY <1>6, <1>7, <1>8, <1>9, <1>12 DEF y, ms, ns
-----------------------------------------------------------------------------
\* The exchanger's state on a rank between operations, with entries for the
\* sides ms and ns, and behind no edits but those in O, as far as it follows them.
Orderly(x, ms, ns) ==
    /\ x \in Local /\ NoneNoted(x) /\ x.lost = {} /\ x.ms = ms /\ x.ns = ns
    /\ \A h \in x.exchanges : h[1] \in IF h[2] \in {"collect", "send"} THEN ms ELSE ns
    /\ \A e \in x.ranksBehind \cup x.mapsBehind \cup x.ownMapsBehind \cup x.exchangesBehind :
          e[1] \in ms \cup ns

Follows(x, O) ==
    /\ \A e \in x.ranksBehind \cup x.mapsBehind : e[2] \in RankEdits => e \in O
    /\ \A e \in x.ownMapsBehind : e \in O
    /\ \A h \in x.exchangesBehind :
          h[2] \in {"collect", "disperse"} \/ h[3] \in RankEdits => <<h[1], h[3]>> \in O

\* An update of what was noted (c, d, s, t) takes account of all edits in O that
\* are not in P, because they were noted.
Covers(O, P, s, t) == \A e \in O : e \in P \/ (e[1] \in t /\ (e[2] \in RankEdits => e[1] \in s))

\* It finds what it looks up on the way.
Finds(r, seen, c, s, t, ms, ns) ==
    /\ \A k \in c : (r \in seen.place[k[1]] => k \in seen.ms) /\ (r \in seen.place[k[2]] => k \in seen.ns)
    /\ \A k \in s \cup t : (r \in seen.place[k[1]] => k \in ms) /\ (r \in seen.place[k[2]] => k \in ns)

LEMMA UpdateKeeps ==
    ASSUME NEW ms, NEW ns, NEW x, Orderly(x, ms, ns),
           NEW c \in SUBSET Pairs, NEW d \in SUBSET Pairs, NEW s \in SUBSET Pairs, NEW t \in SUBSET Pairs,
           NEW r, NEW seen, NEW ms1, NEW ns1,
           ms1 = (ms \cup {k \in c : r \in seen.place[k[1]]}) \ d,
           ns1 = (ns \cup {k \in c : r \in seen.place[k[2]]}) \ d,
           Finds(r, seen, c, s, t, ms1, ns1),
           NEW O, NEW P, Follows(x, O), Covers(O, P, s, t)
    PROVE  LET y == Update(Noting(x, c, d, s, t), r, seen)
           IN  Orderly(y, ms1, ns1) /\ Follows(y, P)
  <1> DEFINE z == Noting(x, c, d, s, t)
             y == Update(z, r, seen)
  <1>1. /\ z \in Local /\ z.create = c /\ z.destroy = d /\ z.ranks = s /\ z.reset = t
        /\ z.ms = x.ms /\ z.ns = x.ns /\ z.lost = x.lost
        /\ z.ranksBehind = x.ranksBehind /\ z.mapsBehind = x.mapsBehind
        /\ z.ownMapsBehind = x.ownMapsBehind
        /\ z.exchanges = x.exchanges /\ z.exchangesBehind = x.exchangesBehind
    BY DEF Noting, Local, Orderly
  <1> HIDE DEF z
  <1> DEFINE cm == {k \in c : r \in seen.place[k[1]]}
             cn == {k \in c : r \in seen.place[k[2]]}
  <1>2. /\ y \in Local /\ NoneNoted(y) /\ Fewer(y, z) /\ y.ms = ms1 /\ y.ns = ns1
        /\ \A e \in y.ranksBehind \cup y.mapsBehind \cup y.ownMapsBehind
                    \cup y.exchanges \cup y.exchangesBehind : Other(e, d)
        /\ y.lost = x.lost \cup (cm \ seen.ms) \cup (cn \ seen.ns) \cup Missing(y, r, seen, s \cup t)
    <2> DEFINE zm == {k \in z.create : r \in seen.place[k[1]]}
               zn == {k \in z.create : r \in seen.place[k[2]]}
    <2>1. /\ y \in Local /\ NoneNoted(y) /\ Fewer(y, z)
          /\ y.ms = (z.ms \cup zm) \ z.destroy /\ y.ns = (z.ns \cup zn) \ z.destroy
          /\ \A e \in y.ranksBehind \cup y.mapsBehind \cup y.ownMapsBehind
                      \cup y.exchanges \cup y.exchangesBehind : Other(e, z.destroy)
          /\ y.lost = z.lost \cup (zm \ seen.ms) \cup (zn \ seen.ns)
                             \cup Missing(y, r, seen, z.ranks \cup z.reset)
      BY <1>1, Updated
    <2>2. zm = cm /\ zn = cn /\ x.ms = ms /\ x.ns = ns
      BY <1>1 DEF Orderly
    <2> HIDE DEF y, zm, zn
    <2> QED
      BY <1>1, <2>1, <2>2
  <1> HIDE DEF y
  <1>3. y.lost = {}
    <2>1. cm \ seen.ms = {} /\ cn \ seen.ns = {}
      BY DEF Finds
    <2>2. Missing(y, r, seen, s \cup t) = {}
      BY <1>2 DEF Missing, Finds
    <2>3. x.lost = {}
      BY DEF Orderly
    <2> HIDE DEF cm, cn
    <2> QED
      BY <1>2, <2>1, <2>2, <2>3
  <1>4. (ms \cup ns) \ d \subseteq ms1 \cup ns1 /\ ms \ d \subseteq ms1 /\ ns \ d \subseteq ns1
    OBVIOUS
  <1>5. \A h \in y.exchanges : h[1] \in IF h[2] \in {"collect", "send"} THEN ms1 ELSE ns1
    <2> TAKE h \in y.exchanges
    <2>1. h \in x.exchanges /\ h[1] \notin d
      BY <1>1, <1>2 DEF Fewer, Other
    <2> QED
      BY <1>4, <2>1 DEF Orderly
  <1>6. \A e \in y.ranksBehind \cup y.mapsBehind \cup y.ownMapsBehind \cup y.exchangesBehind :
            e[1] \in ms1 \cup ns1
    <2> TAKE e \in y.ranksBehind \cup y.mapsBehind \cup y.ownMapsBehind \cup y.exchangesBehind
    <2>1. e \in x.ranksBehind \cup x.mapsBehind \cup x.ownMapsBehind \cup x.exchangesBehind
      BY <1>1, <1>2 DEF Fewer
    <2>2. e[1] \in ms \cup ns /\ e[1] \notin d
      BY <1>2, <2>1 DEF Orderly, Other
    <2> QED
      BY <1>4, <2>2
  <1>7. Follows(y, P)
    <2>1. ASSUME NEW e \in y.ranksBehind \cup y.mapsBehind, e[2] \in RankEdits
          PROVE  e \in P
      <3>1. e \in x.ranksBehind \cup x.mapsBehind /\ (Other(e, s) \/ Other(e, t))
        BY <1>1, <1>2 DEF Fewer
      <3>2. e \in O
        BY <2>1, <3>1 DEF Follows
      <3> QED
        BY <2>1, <3>1, <3>2 DEF Covers, Other
    <2>2. ASSUME NEW e \in y.ownMapsBehind
          PROVE  e \in P
      <3>1. e \in x.ownMapsBehind /\ Other(e, t)
        BY <1>1, <1>2 DEF Fewer
      <3> QED
        BY <3>1 DEF Covers, Other, Follows
    <2>3. ASSUME NEW h \in y.exchangesBehind,
                 h[2] \in {"collect", "disperse"} \/ h[3] \in RankEdits
          PROVE  <<h[1], h[3]>> \in P
      <3>1. h \in x.exchangesBehind /\ h[1] \notin t
        BY <1>1, <1>2 DEF Fewer, Other
      <3>2. <<h[1], h[3]>> \in O
        BY <2>3, <3>1 DEF Follows
      <3> QED
        BY <3>1, <3>2 DEF Covers
    <2> QED
      BY <2>1, <2>2, <2>3 DEF Follows
  <1> QED
    BY <1>2, <1>3, <1>5, <1>6, <1>7 DEF Orderly, y, z

AllFlags == UNION {EventFlags[q] : q \in Ranks}

\* What a synchronisation tells of, the exchanger is no longer behind.
LEMMA SyncAnswered ==
    ASSUME PairOK, SidesOK, NEW r \in Ranks, NEW x,
           Orderly(x, LocalMs[r], LocalNs[r]), Follows(x, AllFlags)
    PROVE  /\ Orderly(Answer(x, r, SyncEvents(r)), LocalMs[r], LocalNs[r])
           /\ Follows(Answer(x, r, SyncEvents(r)), {})
  <1> DEFINE K == Edited(r)
             F == EditedFlags(r)
             s == {k \in K : F[k] \cap RankEdits # {}}
  <1>1. PairTypeOK /\ SidesOfRecords /\ RanksAgree
    BY DEF PairOK
  <1>2. x \in Local /\ NoneNoted(x)
    BY DEF Orderly
  <1>3. Answer(x, r, SyncEvents(r)) = IF K = {} THEN x ELSE Update(Noted(x, K, F), r, Present(r))
    <2>1. WholeBatch(SyncEvents(r), K, F, Present(r))
      BY <1>1, SyncIsWhole
    <2> QED
      BY <1>2, <2>1, BatchAnswered
  <1>4. Covers(AllFlags, {}, s, K)
    <2> SUFFICES ASSUME NEW q \in Ranks, NEW e \in EventFlags[q]
                 PROVE  e[1] \in K /\ (e[2] \in RankEdits => e[1] \in s)
      BY DEF AllFlags, Covers
    <2>1. e[1] \in K /\ e[2] \in F[e[1]]
      BY <1>1, EditsAreSynced
    <2> QED
      BY <2>1
  <1>5. CASE K = {}
    <2>1. AllFlags = {}
      BY <1>4, <1>5 DEF Covers
    <2>2. Answer(x, r, SyncEvents(r)) = x
      BY <1>3, <1>5
    <2> HIDE DEF K, F
    <2> QED
      BY <2>1, <2>2
  <1>6. CASE K # {}
    <2>1. K \in SUBSET Pairs /\ K \subseteq Records[r]
      BY <1>1 DEF PairTypeOK, Edited
    <2>2. \A k \in K : F[k] = ReducedFlags(r, k) /\ F[k] # {} /\ F[k] \subseteq Edits
      BY DEF Edited, EditedFlags, ReducedFlags
    <2> HIDE DEF K, F
    <2>3. "CREATE" \notin Edits /\ "DESTROY" \notin Edits
      BY PairComponentAssumption DEF Edits
    <2>4. /\ {k \in K : "CREATE" \in F[k]} = {} /\ {k \in K : "DESTROY" \in F[k]} = {}
          /\ {k \in K : "CREATE" \in F[k] \/ F[k] \cap RankEdits # {}} = s
          /\ {k \in K : "CREATE" \in F[k] \/ F[k] \cap Edits # {}} = K
      BY <2>2, <2>3
    <2>5. Noted(x, K, F) = Noting(x, {}, {}, s, K)
      BY <2>4 DEF Noted
    <2>6. Finds(r, Present(r), {}, s, K, LocalMs[r], LocalNs[r])
      BY <2>1 DEF Finds, Present, SidesOK, LocalsMatchRecords
    <2>7. s \in SUBSET Pairs
      BY <2>1
    <2> HIDE DEF s
    <2>8. LET y == Update(Noting(x, {}, {}, s, K), r, Present(r))
          IN  Orderly(y, LocalMs[r], LocalNs[r]) /\ Follows(y, {})
      <3>1. /\ LocalMs[r] = (LocalMs[r] \cup {k \in {} : r \in Present(r).place[k[1]]}) \ {}
            /\ LocalNs[r] = (LocalNs[r] \cup {k \in {} : r \in Present(r).place[k[2]]}) \ {}
        OBVIOUS
      <3>2. {} \in SUBSET Pairs
        OBVIOUS
      <3> QED
        BY <1>4, <2>1, <2>6, <2>7, <3>1, <3>2, UpdateKeeps
    <2> QED
      BY <1>3, <1>6, <2>5, <2>8
  <1> QED
    BY <1>5, <1>6

\* What begins gets its entries, its ranks and its maps.
LEMMA BeginningAnswered ==
    ASSUME NEW r, NEW x, NEW ms, NEW ns, Orderly(x, ms, ns), NEW O, Follows(x, O),
           NEW K \in SUBSET Pairs, NEW seen,
           seen.ms = ms \cup {k \in K : r \in seen.place[k[1]]},
           seen.ns = ns \cup {k \in K : r \in seen.place[k[2]]}
    PROVE  /\ Orderly(Answer(x, r, Told(K, "CREATE", seen)), seen.ms, seen.ns)
           /\ Follows(Answer(x, r, Told(K, "CREATE", seen)), O)
  <1> DEFINE F == [k \in K |-> {"CREATE"}]
  <1>1. Answer(x, r, Told(K, "CREATE", seen)) = IF K = {} THEN x ELSE Update(Noted(x, K, F), r, seen)
    <2>1. WholeBatch(Told(K, "CREATE", seen), K, F, seen)
      BY ToldIsWhole
    <2> QED
      BY <2>1, BatchAnswered DEF Orderly
  <1>2. Noted(x, K, F) = Noting(x, K, {}, K, K)
    <2>1. /\ {k \in K : "CREATE" \in F[k]} = K /\ {k \in K : "DESTROY" \in F[k]} = {}
          /\ {k \in K : "CREATE" \in F[k] \/ F[k] \cap RankEdits # {}} = K
          /\ {k \in K : "CREATE" \in F[k] \/ F[k] \cap Edits # {}} = K
      OBVIOUS
    <2> HIDE DEF F
    <2> QED
      BY <2>1 DEF Noted
  <1> HIDE DEF F
  <1>3. LET y == Update(Noting(x, K, {}, K, K), r, seen)
        IN  Orderly(y, seen.ms, seen.ns) /\ Follows(y, O)
    <2>1. /\ seen.ms = (ms \cup {k \in K : r \in seen.place[k[1]]}) \ {}
          /\ seen.ns = (ns \cup {k \in K : r \in seen.place[k[2]]}) \ {}
      OBVIOUS
    <2>2. Finds(r, seen, K, K, K, seen.ms, seen.ns) /\ Covers(O, O, K, K) /\ {} \in SUBSET Pairs
      BY DEF Finds, Covers
    <2> QED
      BY <2>1, <2>2, UpdateKeeps
  <1>4. CASE K = {}
    <2>1. seen.ms = ms /\ seen.ns = ns
      BY <1>4
    <2> QED
      BY <1>1, <1>4, <2>1
  <1>5. CASE K # {}
    BY <1>1, <1>2, <1>3, <1>5
  <1> QED
    BY <1>4, <1>5

\* What ends loses its entries, and everything derived for it.
LEMMA EndAnswered ==
    ASSUME NEW r, NEW x, NEW ms, NEW ns, Orderly(x, ms, ns), NEW O, Follows(x, O),
           NEW K \in SUBSET Pairs, NEW seen
    PROVE  /\ Orderly(Answer(x, r, Told(K, "DESTROY", seen)), ms \ K, ns \ K)
           /\ Follows(Answer(x, r, Told(K, "DESTROY", seen)), O)
  <1> DEFINE F == [k \in K |-> {"DESTROY"}]
  <1>1. Answer(x, r, Told(K, "DESTROY", seen)) = IF K = {} THEN x ELSE Update(Noted(x, K, F), r, seen)
    <2>1. WholeBatch(Told(K, "DESTROY", seen), K, F, seen)
      BY ToldIsWhole
    <2> QED
      BY <2>1, BatchAnswered DEF Orderly
  <1>2. Noted(x, K, F) = Noting(x, {}, K, {}, {})
    <2>1. "DESTROY" \notin Edits /\ RankEdits \subseteq Edits
      BY PairComponentAssumption, ExchangerAssumption DEF Edits, RankEdits
    <2>2. /\ {k \in K : "CREATE" \in F[k]} = {} /\ {k \in K : "DESTROY" \in F[k]} = K
          /\ {k \in K : "CREATE" \in F[k] \/ F[k] \cap RankEdits # {}} = {}
          /\ {k \in K : "CREATE" \in F[k] \/ F[k] \cap Edits # {}} = {}
      BY <2>1
    <2> HIDE DEF F
    <2> QED
      BY <2>2 DEF Noted
  <1> HIDE DEF F
  <1>3. LET y == Update(Noting(x, {}, K, {}, {}), r, seen)
        IN  Orderly(y, ms \ K, ns \ K) /\ Follows(y, O)
    <2>1. /\ ms \ K = (ms \cup {k \in {} : r \in seen.place[k[1]]}) \ K
          /\ ns \ K = (ns \cup {k \in {} : r \in seen.place[k[2]]}) \ K
      OBVIOUS
    <2>2. Finds(r, seen, {}, {}, {}, ms \ K, ns \ K) /\ Covers(O, O, {}, {}) /\ {} \in SUBSET Pairs
      BY DEF Finds, Covers
    <2> QED
      BY <2>1, <2>2, UpdateKeeps
  <1>4. CASE K = {}
    <2>1. ms \ K = ms /\ ns \ K = ns
      BY <1>4
    <2> QED
      BY <1>1, <1>4, <2>1
  <1>5. CASE K # {}
    BY <1>1, <1>2, <1>3, <1>5
  <1> QED
    BY <1>4, <1>5
-----------------------------------------------------------------------------
\* The exchanger on all ranks: bound, it has an entry for each side there is.
ExchangerOK ==
    /\ bound \in BOOLEAN
    /\ \A r \in Ranks : /\ bound => Orderly(local[r], LocalMs[r], LocalNs[r])
                        /\ ~bound => Orderly(local[r], {}, {})
                        /\ Follows(local[r], AllFlags)

\* Without entries there is nothing that could be behind.
LEMMA NothingBehind ==
    ASSUME NEW x, Orderly(x, {}, {}), NEW O
    PROVE  Follows(x, O)
  BY DEF Orderly, Follows

LEMMA AllCleared ==
    ASSUME ClearFlags
    PROVE  AllFlags' = {}
  BY DEF ClearFlags, AllFlags

LEMMA UnboundListens ==
    ASSUME ExchangerOK, ~bound, Listen
    PROVE  ExchangerOK'
  <1>1. \A r \in Ranks : local'[r] = local[r] /\ Orderly(local[r], {}, {})
    BY DEF Listen, ExchangerOK
  <1>2. \A r \in Ranks : Follows(local'[r], AllFlags')
    BY <1>1, NothingBehind
  <1> QED
    BY <1>1, <1>2 DEF ExchangerOK, Listen

LEMMA ListensToSync ==
    ASSUME PairOK, SidesOK, ExchangerOK, NEW ev, \A r \in Ranks : ev[r] = SyncEvents(r),
           Raise(ev), ClearFlags, UNCHANGED <<LocalMs, LocalNs>>, Listen
    PROVE  ExchangerOK'
  <1>1. CASE bound
    <2>1. \A r \in Ranks : local'[r] = Answer(local[r], r, SyncEvents(r))
      BY <1>1 DEF Listen, Raise
    <2>2. AllFlags' = {} /\ bound' = bound
      BY AllCleared DEF Listen
    <2>3. \A r \in Ranks : Orderly(local[r], LocalMs[r], LocalNs[r]) /\ Follows(local[r], AllFlags)
      BY <1>1 DEF ExchangerOK
    <2>4. \A r \in Ranks : Orderly(local'[r], LocalMs'[r], LocalNs'[r]) /\ Follows(local'[r], {})
      BY <2>1, <2>3, SyncAnswered
    <2> QED
      BY <1>1, <2>2, <2>4 DEF ExchangerOK
  <1> QED
    BY <1>1, UnboundListens

LEMMA ListensToCreation ==
    ASSUME PairOK, SidesOK, ExchangerOK, NEW K \in SUBSET Pairs, Insert(K), Listen
    PROVE  ExchangerOK'
  <1>1. CASE bound
    <2>1. /\ LocalMs' = [r \in Ranks |-> LocalMs[r] \cup {k \in K : r \in place[k[1]]}]
          /\ LocalNs' = [r \in Ranks |-> LocalNs[r] \cup {k \in K : r \in place[k[2]]}]
          /\ Raise([r \in Ranks |-> SyncEvents(r) \o Told(K, "CREATE", SeenOnce(K, r))])
          /\ AllFlags' = {} /\ bound' = bound
      BY InsertIs, AllCleared DEF Listen
    <2>2. \A r \in Ranks : local'[r] = Answer(local[r], r, SyncEvents(r) \o Told(K, "CREATE", SeenOnce(K, r)))
      BY <1>1, <2>1 DEF Listen, Raise
    <2>3. ASSUME NEW r \in Ranks
          PROVE  Orderly(local'[r], LocalMs'[r], LocalNs'[r]) /\ Follows(local'[r], {})
      <3> DEFINE y == Answer(local[r], r, SyncEvents(r))
      <3>1. Orderly(local[r], LocalMs[r], LocalNs[r]) /\ Follows(local[r], AllFlags)
        BY <1>1 DEF ExchangerOK
      <3>2. Orderly(y, LocalMs[r], LocalNs[r]) /\ Follows(y, {})
        BY <3>1, SyncAnswered
      <3>3. IsLog(SyncEvents(r)) /\ IsLog(Told(K, "CREATE", SeenOnce(K, r)))
        BY SyncIsWhole, ToldIsWhole DEF WholeBatch, PairOK
      <3>4. local'[r] = Answer(y, r, Told(K, "CREATE", SeenOnce(K, r)))
        BY <2>2, <3>3, AnswersJoin
      <3>5. /\ SeenOnce(K, r).ms = LocalMs[r] \cup {k \in K : r \in SeenOnce(K, r).place[k[1]]}
            /\ SeenOnce(K, r).ns = LocalNs[r] \cup {k \in K : r \in SeenOnce(K, r).place[k[2]]}
            /\ SeenOnce(K, r).ms = LocalMs'[r] /\ SeenOnce(K, r).ns = LocalNs'[r]
        BY <2>1 DEF SeenOnce
      <3> HIDE DEF y
      <3> QED
        BY <3>2, <3>4, <3>5, BeginningAnswered
    <2> QED
      BY <1>1, <2>1, <2>3 DEF ExchangerOK
  <1> QED
    BY <1>1, UnboundListens

LEMMA ListensToEnd ==
    ASSUME PairOK, SidesOK, ExchangerOK, NEW K \in [Ranks -> SUBSET Pairs], RemovePairs(K), Listen
    PROVE  ExchangerOK'
  <1>1. CASE bound
    <2>1. /\ \A r \in Ranks : LocalMs'[r] = LocalMs[r] \ K[r] /\ LocalNs'[r] = LocalNs[r] \ K[r]
          /\ log' = [r \in Ranks |-> DestroyEvents(r, K[r])]
          /\ AllFlags' = {} /\ bound' = bound
      BY AllCleared DEF RemovePairs, Raise, Listen
    <2>2. \A r \in Ranks : local'[r] = Answer(local[r], r, SyncEvents(r) \o Told(K[r], "DESTROY", Present(r)))
      BY <1>1, <2>1 DEF Listen, DestroyEvents
    <2>3. ASSUME NEW r \in Ranks
          PROVE  Orderly(local'[r], LocalMs'[r], LocalNs'[r]) /\ Follows(local'[r], {})
      <3> DEFINE y == Answer(local[r], r, SyncEvents(r))
      <3>1. Orderly(local[r], LocalMs[r], LocalNs[r]) /\ Follows(local[r], AllFlags)
        BY <1>1 DEF ExchangerOK
      <3>2. Orderly(y, LocalMs[r], LocalNs[r]) /\ Follows(y, {})
        BY <3>1, SyncAnswered
      <3>3. IsLog(SyncEvents(r)) /\ IsLog(Told(K[r], "DESTROY", Present(r)))
        BY SyncIsWhole, ToldIsWhole DEF WholeBatch, PairOK
      <3>4. local'[r] = Answer(y, r, Told(K[r], "DESTROY", Present(r)))
        BY <2>2, <3>3, AnswersJoin
      <3> HIDE DEF y
      <3>5. K[r] \in SUBSET Pairs
        OBVIOUS
      <3>6. LET z == Answer(y, r, Told(K[r], "DESTROY", Present(r)))
            IN  Orderly(z, LocalMs[r] \ K[r], LocalNs[r] \ K[r]) /\ Follows(z, {})
        BY <3>2, <3>5, EndAnswered
      <3> QED
        BY <2>1, <3>4, <3>6
    <2> QED
      BY <1>1, <2>1, <2>3 DEF ExchangerOK
  <1> QED
    BY <1>1, UnboundListens

\* An edit that has just been made is outstanding.
LEMMA FallenBehind ==
    ASSUME NEW x, NEW ms, NEW ns, Orderly(x, ms, ns), NEW O, Follows(x, O),
           NEW k \in Pairs, NEW flags \in SUBSET Edits
    PROVE  /\ Orderly(FallBehind(x, k, flags), ms, ns)
           /\ Follows(FallBehind(x, k, flags), O \cup ({k} \X flags))
  <1> DEFINE edits == IF k \in x.ms \cup x.ns THEN {k} \X flags ELSE {}
             late == {<<k, h[2], f>> : h \in {g \in x.exchanges : g[1] = k}, f \in flags}
             y == FallBehind(x, k, flags)
  <1>1. x \in Local
    BY DEF Orderly
  <1>2. edits \subseteq Pairs \X Edits /\ \A e \in edits : e[1] \in x.ms \cup x.ns /\ e \in {k} \X flags
    OBVIOUS
  <1>3. ASSUME NEW h \in late
        PROVE  /\ h \in Pairs \X Kinds \X Edits /\ h[1] = k
               /\ <<h[1], h[3]>> \in {k} \X flags
               /\ \E g \in x.exchanges : g[1] = k
    <2>1. PICK g \in x.exchanges, f \in flags : g[1] = k /\ h = <<k, g[2], f>>
      OBVIOUS
    <2>2. g[2] \in Kinds
      BY <1>1 DEF Local
    <2> QED
      BY <2>1, <2>2
  <1>4. late \subseteq Pairs \X Kinds \X Edits
    <2> HIDE DEF late
    <2> QED
      BY <1>3
  <1>5. y = [x EXCEPT !.ranksBehind = @ \cup edits, !.mapsBehind = @ \cup edits,
                      !.ownMapsBehind = @ \cup edits, !.exchangesBehind = @ \cup late]
    BY DEF FallBehind
  <1> HIDE DEF edits, late, y
  <1>6. /\ y \in Local /\ NoneNoted(y) /\ y.lost = {} /\ y.ms = ms /\ y.ns = ns
        /\ y.exchanges = x.exchanges
        /\ y.ranksBehind = x.ranksBehind \cup edits /\ y.mapsBehind = x.mapsBehind \cup edits
        /\ y.ownMapsBehind = x.ownMapsBehind \cup edits
        /\ y.exchangesBehind = x.exchangesBehind \cup late
    BY <1>1, <1>2, <1>4, <1>5 DEF Local, Orderly, NoneNoted
  <1>7. \A h \in late : h[1] \in ms \cup ns
    BY <1>3 DEF Orderly
  <1>8. \A e \in edits : e[1] \in ms \cup ns
    BY <1>2 DEF Orderly
  <1>9. Orderly(y, ms, ns)
    <2>1. \A h \in y.exchanges : h[1] \in IF h[2] \in {"collect", "send"} THEN ms ELSE ns
      BY <1>6 DEF Orderly
    <2>2. \A e \in y.ranksBehind \cup y.mapsBehind \cup y.ownMapsBehind \cup y.exchangesBehind :
              e[1] \in ms \cup ns
      BY <1>6, <1>7, <1>8 DEF Orderly
    <2> QED
      BY <1>6, <2>1, <2>2 DEF Orderly
  <1>10. Follows(y, O \cup ({k} \X flags))
    BY <1>2, <1>3, <1>6 DEF Follows
  <1> QED
    BY <1>9, <1>10 DEF y

LEMMA FallsBehindKeeps ==
    ASSUME ExchangerOK, NEW k \in Pairs, NEW ranks \in SUBSET Ranks, ranks # {},
           NEW flags \in SUBSET Edits, FlagSide(k, ranks, flags), FallsBehind(k, flags)
    PROVE  ExchangerOK'
  <1>1. /\ UNCHANGED <<LocalMs, LocalNs, bound>>
        /\ \A r \in Ranks : local'[r] = FallBehind(local[r], k, flags)
    BY DEF FlagSide, FallsBehind
  <1>2. AllFlags' = AllFlags \cup ({k} \X flags)
    <2>1. \A q \in Ranks : EventFlags'[q] = EventFlags[q] \cup IF q \in ranks THEN {k} \X flags ELSE {}
      BY DEF FlagSide
    <2>2. PICK p \in Ranks : p \in ranks
      OBVIOUS
    <2>3. \A e : e \in AllFlags' <=> e \in AllFlags \/ e \in {k} \X flags
      BY <2>1, <2>2 DEF AllFlags
    <2> QED
      BY <2>3
  <1>3. \A r \in Ranks : /\ bound => Orderly(local'[r], LocalMs[r], LocalNs[r])
                         /\ ~bound => Orderly(local'[r], {}, {})
                         /\ Follows(local'[r], AllFlags \cup ({k} \X flags))
    BY <1>1, FallenBehind DEF ExchangerOK
  <1> QED
    BY <1>1, <1>2, <1>3 DEF ExchangerOK

\* Everything goes when the exchanger lets go of the component.
LEMMA LetGo ==
    ASSUME NEW x, NEW ms, NEW ns, Orderly(x, ms, ns)
    PROVE  Orderly(Without(x, x.ms \cup x.ns), {}, {})
  <1> DEFINE K == x.ms \cup x.ns
             y == Without(x, K)
  <1>1. x \in Local /\ x.ms = ms /\ x.ns = ns
    BY DEF Orderly
  <1> HIDE DEF K
  <1>2. /\ y \in Local
        /\ y.ms = x.ms \ K /\ y.ns = x.ns \ K /\ y.lost = x.lost
        /\ y.create = x.create /\ y.destroy = x.destroy /\ y.ranks = x.ranks /\ y.reset = x.reset
        /\ y.ranksBehind = {e \in x.ranksBehind : Other(e, K)}
        /\ y.mapsBehind = {e \in x.mapsBehind : Other(e, K)}
        /\ y.ownMapsBehind = {e \in x.ownMapsBehind : Other(e, K)}
        /\ y.exchanges = {h \in x.exchanges : Other(h, K)}
        /\ y.exchangesBehind = {h \in x.exchangesBehind : Other(h, K)}
    BY <1>1, LocalsGone
  <1> HIDE DEF y
  <1>3. y.ms = {} /\ y.ns = {} /\ y.exchanges = {}
    BY <1>1, <1>2 DEF Orderly, Other, K
  <1>4. y.ranksBehind = {} /\ y.mapsBehind = {} /\ y.ownMapsBehind = {} /\ y.exchangesBehind = {}
    BY <1>1, <1>2 DEF Orderly, Other, K
  <1>5. NoneNoted(y) /\ y.lost = {}
    BY <1>2 DEF Orderly, NoneNoted
  <1> QED
    BY <1>2, <1>3, <1>4, <1>5 DEF Orderly, y, K

Added(x, h, late) == [x EXCEPT !.exchanges = @ \cup {h}, !.exchangesBehind = @ \cup late]

LEMMA ExchangeAdded ==
    ASSUME NEW x, NEW ms, NEW ns, Orderly(x, ms, ns),
           NEW h \in Pairs \X Kinds, NEW late \in SUBSET (Pairs \X Kinds \X Edits),
           NEW y, y = Added(x, h, late)
    PROVE  /\ y \in Local /\ NoneNoted(y) /\ y.lost = {} /\ y.ms = ms /\ y.ns = ns
           /\ y.exchanges = x.exchanges \cup {h}
           /\ y.ranksBehind = x.ranksBehind /\ y.mapsBehind = x.mapsBehind
           /\ y.ownMapsBehind = x.ownMapsBehind
           /\ y.exchangesBehind = x.exchangesBehind \cup late
  <1>1. x \in Local
    BY DEF Orderly
  <1> QED
    BY <1>1 DEF Added, Local, Orderly, NoneNoted

\* An exchange is as far behind as the map that it is made on.
Made(x, k, kind) ==
    [x EXCEPT !.exchanges = @ \cup {<<k, kind>>},
              !.exchangesBehind = @ \cup {<<k, kind, e[2]>> :
                  e \in {d \in MapBehind(x, kind) : d[1] = k}}]

LEMMA ExchangeMade ==
    ASSUME NEW x, NEW ms, NEW ns, Orderly(x, ms, ns), NEW O, Follows(x, O),
           NEW k \in Pairs, NEW kind \in Kinds,
           k \in IF kind \in {"collect", "send"} THEN ms ELSE ns
    PROVE  Orderly(Made(x, k, kind), ms, ns) /\ Follows(Made(x, k, kind), O)
  <1> DEFINE y == Made(x, k, kind)
             late == {<<k, kind, e[2]>> : e \in {d \in MapBehind(x, kind) : d[1] = k}}
  <1>1. x \in Local
    BY DEF Orderly
  <1>2. MapBehind(x, kind) \subseteq Pairs \X Edits
    BY <1>1 DEF MapBehind, Local
  <1>3. \A h \in late : /\ h \in Pairs \X Kinds \X Edits /\ h[1] = k /\ h[2] = kind
                        /\ <<k, h[3]>> \in MapBehind(x, kind)
    <2> TAKE h \in late
    <2>1. PICK e \in MapBehind(x, kind) : e[1] = k /\ h = <<k, kind, e[2]>>
      OBVIOUS
    <2>2. e = <<e[1], e[2]>> /\ e[2] \in Edits
      BY <1>2
    <2> QED
      BY <2>1, <2>2
  <1>4. late \subseteq Pairs \X Kinds \X Edits
    <2> HIDE DEF late
    <2> QED
      BY <1>3
  <1> HIDE DEF late, y
  <1>5. /\ y \in Local /\ NoneNoted(y) /\ y.lost = {} /\ y.ms = ms /\ y.ns = ns
        /\ y.exchanges = x.exchanges \cup {<<k, kind>>}
        /\ y.ranksBehind = x.ranksBehind /\ y.mapsBehind = x.mapsBehind
        /\ y.ownMapsBehind = x.ownMapsBehind
        /\ y.exchangesBehind = x.exchangesBehind \cup late
    <2>1. y = Added(x, <<k, kind>>, late)
      BY DEF late, y, Made, Added
    <2>2. <<k, kind>> \in Pairs \X Kinds
      OBVIOUS
    <2>3. late \in SUBSET (Pairs \X Kinds \X Edits)
      BY <1>4
    <2> QED
      BY <2>1, <2>2, <2>3, ExchangeAdded
  <1>6. Orderly(y, ms, ns)
    <2>1. \A h \in y.exchanges : h[1] \in IF h[2] \in {"collect", "send"} THEN ms ELSE ns
      BY <1>5 DEF Orderly
    <2>2. \A e \in y.ranksBehind \cup y.mapsBehind \cup y.ownMapsBehind \cup y.exchangesBehind :
              e[1] \in ms \cup ns
      BY <1>3, <1>5 DEF Orderly
    <2> QED
      BY <1>5, <2>1, <2>2 DEF Orderly
  <1>7. ASSUME NEW h \in late, h[2] \in {"collect", "disperse"} \/ h[3] \in RankEdits
        PROVE  <<h[1], h[3]>> \in O
    <2>1. h[1] = k /\ h[2] = kind /\ <<k, h[3]>> \in MapBehind(x, kind)
      BY <1>3
    <2>2. CASE kind \in {"collect", "disperse"}
      BY <2>1, <2>2 DEF MapBehind, Follows
    <2>3. CASE kind \notin {"collect", "disperse"}
      BY <1>7, <2>1, <2>3 DEF MapBehind, Follows
    <2> QED
      BY <2>2, <2>3
  <1>8. Follows(y, O)
    BY <1>5, <1>7 DEF Follows
  <1> QED
    BY <1>6, <1>8 DEF y

Dropped(x, k, kind) ==
    [x EXCEPT !.exchanges = @ \ {<<k, kind>>},
              !.exchangesBehind = {h \in @ : h[1] # k \/ h[2] # kind}]

LEMMA ExchangeDropped ==
    ASSUME NEW x, NEW ms, NEW ns, Orderly(x, ms, ns), NEW O, Follows(x, O), NEW k, NEW kind
    PROVE  Orderly(Dropped(x, k, kind), ms, ns) /\ Follows(Dropped(x, k, kind), O)
  <1> DEFINE y == Dropped(x, k, kind)
  <1>1. x \in Local
    BY DEF Orderly
  <1>2. /\ y \in Local /\ NoneNoted(y) /\ y.lost = {} /\ y.ms = ms /\ y.ns = ns
        /\ y.exchanges \subseteq x.exchanges
        /\ y.ranksBehind = x.ranksBehind /\ y.mapsBehind = x.mapsBehind
        /\ y.ownMapsBehind = x.ownMapsBehind
        /\ y.exchangesBehind \subseteq x.exchangesBehind
    BY <1>1 DEF Dropped, Local, Orderly, NoneNoted
  <1> HIDE DEF y
  <1>3. Orderly(y, ms, ns) /\ Follows(y, O)
    BY <1>2 DEF Orderly, Follows
  <1> QED
    BY <1>3 DEF y
-----------------------------------------------------------------------------
\* The exchanger's own steps.
LEMMA BindKeeps ==
    ASSUME PairOK, SidesOK, ExchangerOK, Bind
    PROVE  ExchangerOK'
  <1>1. /\ bound' /\ bound' \in BOOLEAN /\ ~bound
        /\ UNCHANGED <<LocalMs, LocalNs, EventFlags>>
        /\ AllFlags' = AllFlags
    BY DEF Bind, pairVars, AllFlags
  <1>2. ASSUME NEW r \in Ranks
        PROVE  Orderly(local'[r], LocalMs[r], LocalNs[r]) /\ Follows(local'[r], AllFlags)
    <2> DEFINE x == local[r]
               K == Records[r]
               noted == [x EXCEPT !.create = @ \cup K, !.ranks = @ \cup K, !.reset = @ \cup K]
    <2>1. Orderly(x, {}, {}) /\ Follows(x, AllFlags)
      BY <1>1 DEF ExchangerOK
    <2>2. local'[r] = Update(noted, r, Present(r))
      BY DEF Bind
    <2> HIDE DEF x, K
    <2>3. noted = Noting(x, K, {}, K, K)
      BY <2>1 DEF Orderly, NoneNoted, Noting, Local
    <2> HIDE DEF noted
    <2>4. /\ LocalMs[r] = ({} \cup {k \in K : r \in Present(r).place[k[1]]}) \ {}
          /\ LocalNs[r] = ({} \cup {k \in K : r \in Present(r).place[k[2]]}) \ {}
          /\ K \in SUBSET Pairs /\ {} \in SUBSET Pairs
      BY DEF SidesOK, LocalsMatchRecords, PairOK, PairTypeOK, Present, K
    <2>5. Finds(r, Present(r), K, K, K, LocalMs[r], LocalNs[r])
      BY DEF SidesOK, LocalsMatchRecords, Finds, Present, K
    <2>6. Covers(AllFlags, AllFlags, K, K)
      BY DEF Covers
    <2>7. LET y == Update(Noting(x, K, {}, K, K), r, Present(r))
          IN  Orderly(y, LocalMs[r], LocalNs[r]) /\ Follows(y, AllFlags)
      BY <2>1, <2>4, <2>5, <2>6, UpdateKeeps
    <2> QED
      BY <2>2, <2>3, <2>7
  <1> QED
    BY <1>1, <1>2 DEF ExchangerOK

LEMMA UnbindKeeps ==
    ASSUME ExchangerOK, Unbind \/ ReplaceComponent
    PROVE  ExchangerOK'
  <1>1. bound' = FALSE
    BY DEF Unbind, ReplaceComponent
  <1>2. \A r \in Ranks : Orderly(local'[r], {}, {})
    <2> TAKE r \in Ranks
    <2>1. CASE bound
      <3>1. local'[r] = Without(local[r], local[r].ms \cup local[r].ns)
        BY <2>1 DEF Unbind, ReplaceComponent
      <3>2. Orderly(local[r], LocalMs[r], LocalNs[r])
        BY <2>1 DEF ExchangerOK
      <3> QED
        BY <3>1, <3>2, LetGo
    <2>2. CASE ~bound
      BY <2>2 DEF Unbind, ReplaceComponent, ExchangerOK
    <2> QED
      BY <2>1, <2>2
  <1>3. \A r \in Ranks : Follows(local'[r], AllFlags')
    BY <1>2, NothingBehind
  <1> QED
    BY <1>1, <1>2, <1>3 DEF ExchangerOK

LEMMA AddsKeeps ==
    ASSUME ExchangerOK, NEW k \in Pairs, NEW kind \in Kinds, NEW ranks,
           \A r \in Ranks \cap ranks : k \in IF kind \in {"collect", "send"} THEN LocalMs[r] ELSE LocalNs[r],
           Adds(ranks, k, kind)
    PROVE  ExchangerOK'
  <1>1. /\ bound /\ bound' = bound /\ UNCHANGED <<LocalMs, LocalNs>> /\ AllFlags' = AllFlags
        /\ \A r \in Ranks : local'[r] = IF r \in ranks THEN Made(local[r], k, kind) ELSE local[r]
    BY DEF Adds, pairVars, AllFlags, Made
  <1>2. ASSUME NEW r \in Ranks
        PROVE  Orderly(local'[r], LocalMs[r], LocalNs[r]) /\ Follows(local'[r], AllFlags)
    <2>1. Orderly(local[r], LocalMs[r], LocalNs[r]) /\ Follows(local[r], AllFlags)
      BY <1>1 DEF ExchangerOK
    <2>2. CASE r \in ranks
      BY <1>1, <2>1, <2>2, ExchangeMade
    <2>3. CASE r \notin ranks
      BY <1>1, <2>1, <2>3
    <2> QED
      BY <2>2, <2>3
  <1> QED
    BY <1>1, <1>2 DEF ExchangerOK

LEMMA DropsKeeps ==
    ASSUME ExchangerOK, NEW k, NEW kind, NEW ranks, Drops(ranks, k, kind)
    PROVE  ExchangerOK'
  <1>1. /\ bound /\ bound' = bound /\ UNCHANGED <<LocalMs, LocalNs>> /\ AllFlags' = AllFlags
    BY DEF Drops, pairVars, AllFlags
  <1>2. ASSUME NEW r \in Ranks
        PROVE  Orderly(local'[r], LocalMs[r], LocalNs[r]) /\ Follows(local'[r], AllFlags)
    <2>1. Orderly(local[r], LocalMs[r], LocalNs[r]) /\ Follows(local[r], AllFlags)
      BY <1>1 DEF ExchangerOK
    <2>2. CASE r \in ranks
      <3>1. local'[r] = Dropped(local[r], k, kind)
        BY <2>2 DEF Drops, Dropped
      <3> QED
        BY <2>1, <3>1, ExchangeDropped
    <2>3. CASE r \notin ranks
      BY <2>1, <2>3 DEF Drops
    <2> QED
      BY <2>2, <2>3
  <1> QED
    BY <1>1, <1>2 DEF ExchangerOK

LEMMA ExchangesKeep ==
    ASSUME PairOK, SidesOK, ExchangerOK, NEW k \in Pairs,
           \/ CreateCollect(k) \/ CreateSend(k) \/ CreateReceive(k) \/ CreateDisperse(k)
           \/ DestroyCollect(k) \/ DestroySend(k) \/ DestroyReceive(k) \/ DestroyDisperse(k)
    PROVE  ExchangerOK'
  <1>1. /\ \A r \in Ranks : k \in Records[r] /\ r \in place[k[1]] => k \in LocalMs[r]
        /\ \A r \in Ranks : k \in Records[r] /\ r \in place[k[2]] => k \in LocalNs[r]
    BY DEF SidesOK, LocalsMatchRecords
  <1>2. CASE CreateCollect(k) \/ CreateSend(k)
    <2>1. PICK kind \in {"collect", "send"} : Adds(place[k[1]], k, kind)
      BY <1>2 DEF CreateCollect, CreateSend
    <2>2. \A r \in Ranks \cap place[k[1]] :
              k \in IF kind \in {"collect", "send"} THEN LocalMs[r] ELSE LocalNs[r]
      BY <1>1, <2>1 DEF Adds
    <2> QED
      BY <2>1, <2>2, AddsKeeps DEF Kinds
  <1>3. CASE CreateReceive(k) \/ CreateDisperse(k)
    <2>1. PICK kind \in {"receive", "disperse"} : Adds(place[k[2]], k, kind)
      BY <1>3 DEF CreateReceive, CreateDisperse
    <2>2. \A r \in Ranks \cap place[k[2]] :
              k \in IF kind \in {"collect", "send"} THEN LocalMs[r] ELSE LocalNs[r]
      BY <1>1, <2>1 DEF Adds
    <2> QED
      BY <2>1, <2>2, AddsKeeps DEF Kinds
  <1>4. CASE DestroyCollect(k) \/ DestroySend(k) \/ DestroyReceive(k) \/ DestroyDisperse(k)
    BY <1>4, DropsKeeps DEF DestroyCollect, DestroySend, DestroyReceive, DestroyDisperse
  <1> QED
    BY <1>2, <1>3, <1>4

\* Edits of a side leave what was derived from the pair behind, until told of.
LEMMA EditedFallsBehind ==
    ASSUME PairOK, ExchangerOK, NEW k \in Pairs, NEW flags, FallsBehind(k, flags),
           \/ flags \subseteq MFlags /\ OpenM(k) /\ FlagSide(k, place[k[1]], flags)
           \/ flags \subseteq NFlags /\ OpenN(k) /\ FlagSide(k, place[k[2]], flags)
    PROVE  ExchangerOK'
  <1>1. place[k[1]] \in SUBSET Ranks /\ place[k[2]] \in SUBSET Ranks
    <2>1. k[1] \in GridIDs /\ k[2] \in GridIDs
      BY PairComponentAssumption
    <2>2. \A g \in GridIDs : place[g] \in Placements \cup {{}}
      BY DEF PairOK, PairTypeOK
    <2>3. \A P \in Placements \cup {{}} : P \in SUBSET Ranks
      BY PairComponentAssumption
    <2> QED
      BY <2>1, <2>2, <2>3
  <1>2. flags \in SUBSET Edits
    BY DEF Edits
  <1> QED
    BY <1>1, <1>2, FallsBehindKeeps DEF OpenM, OpenN, PairPossible, GridExists

\* The component's steps, each with the exchanger's part in it.
LEMMA ComponentStepKeeps ==
    ASSUME PairOK, SidesOK, ExchangerOK, ComponentStep
    PROVE  ExchangerOK'
  <1>1. ASSUME EndEdit, Listen
        PROVE  ExchangerOK'
    <2> DEFINE ev == [r \in Ranks |-> SyncEvents(r)]
    <2>1. /\ Raise(ev) /\ ClearFlags /\ UNCHANGED <<LocalMs, LocalNs>>
          /\ \A r \in Ranks : ev[r] = SyncEvents(r)
      BY <1>1 DEF EndEdit
    <2> HIDE DEF ev
    <2> QED
      BY <1>1, <2>1, ListensToSync
  <1>2. ASSUME NEW g \in GridIDs, NEW P \in Placements, CreateGrid(g, P), Listen
        PROVE  ExchangerOK'
    <2> DEFINE ev == [r \in Ranks |-> SyncEvents(r)]
    <2>1. /\ Raise(ev) /\ ClearFlags /\ UNCHANGED <<LocalMs, LocalNs>>
          /\ \A r \in Ranks : ev[r] = SyncEvents(r)
      BY <1>2 DEF CreateGrid
    <2> HIDE DEF ev
    <2> QED
      BY <1>2, <2>1, ListensToSync
  <1>3. ASSUME CreateForAssembly, Listen
        PROVE  ExchangerOK'
    <2>1. toCreate \in SUBSET Pairs
      BY DEF PairOK, PairTypeOK
    <2> QED
      BY <1>3, <2>1, ListensToCreation DEF CreateForAssembly
  <1>4. ASSUME NEW K \in SUBSET Pairs, Create(K), Listen
        PROVE  ExchangerOK'
    BY <1>4, ListensToCreation DEF Create
  <1>5. ASSUME NEW K \in SUBSET Pairs, Destroy(K), Listen
        PROVE  ExchangerOK'
    <2>1. [r \in Ranks |-> K] \in [Ranks -> SUBSET Pairs]
      OBVIOUS
    <2> QED
      BY <1>5, <2>1, ListensToEnd DEF Destroy
  <1>6. ASSUME NEW K, ClearForAssembly(K), Listen
        PROVE  ExchangerOK'
    <2>1. Records \in [Ranks -> SUBSET Pairs]
      BY DEF PairOK, PairTypeOK
    <2> QED
      BY <1>6, <2>1, ListensToEnd DEF ClearForAssembly
  <1>7. ASSUME NEW G, DestroyGrids(G), Listen
        PROVE  ExchangerOK'
    <2> DEFINE K == [r \in Ranks |-> Dying(r, G)]
    <2>1. K \in [Ranks -> SUBSET Pairs]
      BY DEF Dying, PairOK, PairTypeOK
    <2>2. RemovePairs(K)
      BY <1>7 DEF DestroyGrids
    <2> HIDE DEF K
    <2> QED
      BY <1>7, <2>1, <2>2, ListensToEnd
  <1>8. ASSUME NEW e \in EditsMade, EditM(e[1], e[2]) \/ EditN(e[1], e[2]), FallsBehind(e[1], {e[2]})
        PROVE  ExchangerOK'
    <2>1. e[1] \in Pairs
      BY PairComponentAssumption
    <2> QED
      BY <1>8, <2>1, EditedFallsBehind DEF EditM, EditN
  <1>9. ASSUME NEW s \in Resized,
               \/ ResizeM(s[1]) /\ FallsBehind(s[1], MFlags)
               \/ ResizeN(s[1]) /\ FallsBehind(s[1], NFlags)
        PROVE  ExchangerOK'
    <2>1. s[1] \in Pairs
      BY PairComponentAssumption
    <2> QED
      BY <1>9, <2>1, EditedFallsBehind DEF ResizeM, ResizeN
  <1>10. \A k \in Pairs : {k} \in SUBSET Pairs
    OBVIOUS
  <1> QED
    BY <1>1, <1>2, <1>3, <1>4, <1>5, <1>6, <1>7, <1>8, <1>9, <1>10
       DEF ComponentStep, CreateOne, DestroyOne

LEMMA StepKeepsExchanger ==
    ASSUME PairOK, SidesOK, ExchangerOK, [Next]_vars
    PROVE  ExchangerOK'
  <1>1. CASE UNCHANGED vars
    BY <1>1 DEF vars, pairVars, ExchangerOK, AllFlags
  <1>2. CASE ComponentStep
    BY <1>2, ComponentStepKeeps
  <1>3. CASE Bind
    BY <1>3, BindKeeps
  <1>4. CASE Unbind \/ ReplaceComponent
    BY <1>4, UnbindKeeps
  <1>5. ASSUME NEW k \in Pairs,
               \/ CreateCollect(k) \/ CreateSend(k) \/ CreateReceive(k) \/ CreateDisperse(k)
               \/ DestroyCollect(k) \/ DestroySend(k) \/ DestroyReceive(k) \/ DestroyDisperse(k)
        PROVE  ExchangerOK'
    BY <1>5, ExchangesKeep
  <1> QED
    BY <1>1, <1>2, <1>3, <1>4, <1>5 DEF Next

LEMMA ExchangerBegins ==
    ASSUME Init
    PROVE  ExchangerOK
  <1>1. ~bound /\ bound \in BOOLEAN /\ \A r \in Ranks : local[r] = Empty
    BY DEF Init
  <1>2. Orderly(Empty, {}, {})
    BY DEF Empty, Orderly, NoneNoted, Local
  <1> QED
    BY <1>1, <1>2, NothingBehind DEF ExchangerOK
-----------------------------------------------------------------------------
\* The exchanger has on each rank an entry for each side that the component has
\* there, nothing noted in UpdateManifest_, and is behind only by edits that are
\* still to be told of (OnConnectivityEvent_, Update_), as long as clearing
\* leaves no record behind.
THEOREM ExchangerInvariance ==
    ASSUME MaxCleared <= 2
    PROVE  Spec => [](PairOK /\ SidesOK /\ ExchangerOK)
  <1>1. Init => PairOK /\ SidesOK /\ ExchangerOK
    BY PairsBegin, ExchangerBegins
  <1>2. PairOK /\ SidesOK /\ ExchangerOK /\ [Next]_vars => PairOK' /\ SidesOK' /\ ExchangerOK'
    BY StepKeepsPairs, StepKeepsExchanger
  <1> QED
    BY <1>1, <1>2, PTL DEF Spec

\* Between operations LocalMs_ and LocalNs_ of a bound exchanger are those of
\* the component, each exchange has the entry that it was made for, no entry
\* was ever looked up in vain, and UpdateManifest_ is clean.
THEOREM EntriesStayInOrder == ASSUME MaxCleared <= 2 PROVE Spec => []EntriesInOrder
  <1>1. ExchangerOK => EntriesInOrder
    <2> SUFFICES ASSUME ExchangerOK, NEW r \in Ranks
                 PROVE  /\ local[r].ms = IF bound THEN LocalMs[r] ELSE {}
                        /\ local[r].ns = IF bound THEN LocalNs[r] ELSE {}
                        /\ \A h \in local[r].exchanges :
                              h[1] \in IF h[2] \in {"collect", "send"} THEN local[r].ms ELSE local[r].ns
                        /\ local[r].lost = {} /\ NoneNoted(local[r])
      BY DEF EntriesInOrder, EntriesMatchComponent, ManifestActedOn, NoneNoted
    <2>1. CASE bound
      BY <2>1 DEF ExchangerOK, Orderly
    <2>2. CASE ~bound
      BY <2>2 DEF ExchangerOK, Orderly
    <2> QED
      BY <2>1, <2>2
  <1> QED
    BY <1>1, ExchangerInvariance, PTL

\* Source and destination ranks, the maps made from them and the exchanges
\* built on the maps lack only edits that no synchronisation has told of yet
\* (UpdateSourceDestRanks_ before ResetExchanges_, in the batch that tells).
THEOREM DerivedDataFollows == ASSUME MaxCleared <= 2 PROVE Spec => []DerivedFollowsEdits
  <1>1. ExchangerOK => DerivedFollowsEdits
    <2> SUFFICES ASSUME ExchangerOK, NEW r \in Ranks
                 PROVE  /\ \A e \in local[r].ranksBehind : e[2] \in RankEditsMade => Outstanding(e)
                        /\ \A e \in local[r].mapsBehind : e[2] \in RankEditsMade => Outstanding(e)
                        /\ \A e \in local[r].ownMapsBehind : Outstanding(e)
                        /\ \A h \in local[r].exchangesBehind :
                              h[2] \in {"collect", "disperse"} \/ h[3] \in RankEditsMade
                                  => Outstanding(<<h[1], h[3]>>)
      BY DEF DerivedFollowsEdits, RanksFollowEdits, MapsFollowEdits, NoExchangeOnOldMap
    <2>1. Follows(local[r], AllFlags) /\ RankEditsMade = RankEdits
      BY DEF ExchangerOK, RankEditsMade, RankEdits
    <2>2. \A e : e \in AllFlags <=> Outstanding(e)
      BY DEF AllFlags, Outstanding
    <2> QED
      BY <2>1, <2>2 DEF Follows
  <1> QED
    BY <1>1, ExchangerInvariance, PTL
=============================================================================
