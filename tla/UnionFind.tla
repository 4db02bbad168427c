----------------------------- MODULE UnionFind -----------------------------
(***************************************************************************)
(* core/UnionFind.hpp: disjoint sets of integers, united by rank and       *)
(* renamed by Relabel.  A union_find is a record of each element's parent  *)
(* and rank; path compression does not change what Find returns.           *)
(***************************************************************************)
EXTENDS Integers, FiniteSets, Sequences, FiniteSetsExt

Singletons(S) == [parent |-> [e \in S |-> e], rank |-> [e \in S |-> 0]]

Insert(U, e) ==
  IF e \in DOMAIN U.parent THEN U
  ELSE LET S == DOMAIN U.parent \union {e}
       IN [parent |-> [x \in S |-> IF x = e THEN e ELSE U.parent[x]],
           rank |-> [x \in S |-> IF x = e THEN 0 ELSE U.rank[x]]]

Roots(U) ==
  LET Root[e \in DOMAIN U.parent] == IF U.parent[e] = e THEN e ELSE Root[U.parent[e]]
  IN Root
Find(U, e) == Roots(U)[e]

Unite(U, left, right) ==
  LET l == Find(U, left)
      r == Find(U, right)
  IN IF l = r THEN U
     ELSE IF U.rank[l] < U.rank[r] THEN [U EXCEPT !.parent[l] = r]
     ELSE [U EXCEPT !.parent[r] = l,
                    !.rank[l] = IF U.rank[l] = U.rank[r] THEN @ + 1 ELSE @]

Only(S) == CHOOSE x \in S : TRUE

\* Pairs are inserted and united one after the other.
UniteAll(U, pairs) ==
  LET After[n \in 0..Len(pairs)] ==
        IF n = 0 THEN U
        ELSE LET a == pairs[n][1]
                 b == pairs[n][2]
             IN Only({Unite(V, a, b) : V \in {Insert(Insert(After[n - 1], a), b)}})
  IN After[Len(pairs)]

\* The new root of a set is its last element below the old root, if there is one.
Relabel(U) ==
  LET root == Roots(U)
      Below(r) == {e \in DOMAIN root : root[e] = r /\ e < r}
      New == [e \in DOMAIN root |->
                IF Below(root[e]) = {} THEN root[e] ELSE Max(Below(root[e]))]
  IN [parent |-> New, rank |-> [e \in DOMAIN New |-> IF New[e] = e THEN 1 ELSE 0]]
=============================================================================
