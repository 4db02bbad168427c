------------------------------- MODULE Masks -------------------------------
(***************************************************************************)
(* What the operations of core/DistributedFieldOps promise, on a mask that *)
(* is in one place: a set of points of the global range.                   *)
(***************************************************************************)
EXTENDS Decomp

\* The value at p, which may lie outside: there the boundary condition says.
MaskValue(C, M, bc, p) ==
  LET q == PeriodicAdjust(C, p)
  IN IF HasPoint(C.range, q) THEN q \in M
     ELSE \/ bc = "TRUE"
          \/ bc = "MIRROR" /\ ClampToRange(C.range, q) \in M

\* Points of one side of the mask's edge that touch the other side.
EdgeOf(C, M, type, bc, exterior) ==
  {p \in Points(IF exterior THEN CartIncludeExteriorPoint(C).range ELSE C.range) :
     LET v == MaskValue(C, M, bc, p)
     IN v = (type = "INNER") /\ \E q \in Neighbors(p) : MaskValue(C, M, bc, q) # v}

Dilate(C, M, amount, bc) ==
  LET After[n \in 0..amount] ==
        IF n = 0 THEN M
        ELSE UNION {N \union EdgeOf(C, N, "OUTER", bc, FALSE) : N \in {After[n - 1]}}
  IN After[amount]

Erode(C, M, amount, bc) ==
  LET After[n \in 0..amount] ==
        IF n = 0 THEN M
        ELSE UNION {N \ EdgeOf(C, N, "INNER", bc, FALSE) : N \in {After[n - 1]}}
  IN After[amount]

\* The points of Open that can be reached in it from the points of S.  The two copies of
\* a doubled point are not next to one another.
Reachable(C, S, Open) ==
  LET Seen(p) == {Wrapped(C, q) : q \in Neighbors(p)}
      Grown(T) ==
        {p \in Open : p \in T \/ \E q \in T : p \in Seen(q) \/ q \in Seen(p)}
      Reached[n \in 0..Cardinality(Open)] ==
        IF n = 0 THEN S \intersect Open ELSE UNION {Grown(T) : T \in {Reached[n - 1]}}
  IN Reached[Cardinality(Open)]

\* Fills the connected parts of the complement of the barrier that the mask meets.
Flood(C, M, barrier) == M \union Reachable(C, M, {p \in Points(C.range) : p \notin barrier})
=============================================================================
