--------------------------- MODULE XINTOUT_proofs ---------------------------
(***************************************************************************)
(* The import of XINTOUT files does not get stuck, and all ranks of the    *)
(* domain agree on whether there is one, for any number of ranks, any      *)
(* grids on them and whatever cannot be read.  First what the program of a *)
(* rank is: which operations there are, in which order, which of them a    *)
(* rank comes to with a given file, and with which errors.                 *)
(***************************************************************************)
EXTENDS XINTOUT, Events_proofs

\* What of the file in use cannot be read.
Fails(op) ==
    \/ \E x \in file.faults : x.op = op
    \/ op.what = "size" /\ Behind(op.grid, op.side)
GlobalFails == Fails(Global)
InfoFails(g) == Fails(Op("info", g, ""))
SideFails(g, side) == Fails(Op("size", g, side)) \/ Fails(Op("read", g, side))
GridFails(g) == InfoFails(g) \/ SideFails(g, "donors") \/ SideFails(g, "receivers")
AnyGridFails == \E g \in Grids(file) : GridFails(g)

\* The operations there are.
InDomain == {Global, Check, Totals, Announce, Meet, Answer, Create}
InGrid == {"info", "hash", "handshake", "deliver"}
InSide == {"split", "size", "read", "agree"}
OpsOf(g) ==
    {Op(what, g, "") : what \in InGrid}
        \union UNION {{Op(what, g, side) : what \in InSide} : side \in Sides}
Ops == InDomain \union UNION {OpsOf(g) : g \in Grids(file)}

\* The order of the program: by phase, then by grid, then by the part of what
\* is done for the grid.
Phase(op) ==
    IF op.what = "global" THEN 0
    ELSE IF op.what \in {"info", "split", "size", "read", "agree"} THEN 1
    ELSE IF op.what = "check" THEN 2
    ELSE IF op.what = "totals" THEN 3
    ELSE IF op.what = "handshake" /\ op.grid = 0 THEN 4
    ELSE IF op.what = "meet" THEN 5
    ELSE IF op.what = "answer" THEN 6
    ELSE IF op.what \in {"hash", "handshake", "deliver"} THEN 7
    ELSE IF op.what = "create" THEN 8
    ELSE 9
PartOf(op) ==
    IF op.what = "split" THEN IF op.side = "donors" THEN 1 ELSE 5
    ELSE IF op.what = "size" THEN IF op.side = "donors" THEN 2 ELSE 6
    ELSE IF op.what = "read" THEN IF op.side = "donors" THEN 3 ELSE 7
    ELSE IF op.what = "agree" THEN IF op.side = "donors" THEN 4 ELSE 8
    ELSE IF op.what = "handshake" /\ op.grid # 0 THEN 1
    ELSE IF op.what = "deliver" THEN 2
    ELSE 0
Earlier(a, b) ==
    \/ Phase(a) < Phase(b)
    \/ Phase(a) = Phase(b) /\ a.grid < b.grid
    \/ Phase(a) = Phase(b) /\ a.grid = b.grid /\ PartOf(a) < PartOf(b)

\* A rank that takes part in an operation comes to it, with this file.
Reaches(r, op) ==
    /\ Phase(op) > 0 => ~GlobalFails
    /\ Phase(op) = 1 =>
         /\ \A h \in LocalGrids(file, r) : h < op.grid => ~GridFails(h)
         /\ PartOf(op) > 0 => ~InfoFails(op.grid)
         /\ PartOf(op) > 4 => ~SideFails(op.grid, "donors")
         /\ PartOf(op) = 3 => ~Fails(Op("size", op.grid, "donors"))
         /\ PartOf(op) = 7 => ~Fails(Op("size", op.grid, "receivers"))
    /\ Phase(op) > 2 => ~AnyGridFails

\* It comes to it with an error.
Hits(r, op) == \E x \in file.faults : x.op = op /\ r \in x.ranks
Erring(r, op) ==
    \/ op.what \in {"global", "info"} /\ Hits(r, op)
    \/ op.what = "agree" /\ HasChunk(file, r, op.grid, op.side) /\ SideFails(op.grid, op.side)
    \/ op.what = "check" /\ \E g \in LocalGrids(file, r) : GridFails(g)
    \/ op.what = "out" /\ (GlobalFails \/ AnyGridFails)

\* Everybody leaves it with an error.
Fatal(op) ==
    \/ op.what \in {"global", "info", "size", "read"} /\ Fails(op)
    \/ op.what = "agree" /\ SideFails(op.grid, op.side)
    \/ op.what = "check" /\ AnyGridFails

\* The inductive invariant.  A rank is where its program has led it, and has
\* come to everything before that ...
Codes == {"none", "read", "open"}
InProgram ==
    \A r \in Ranks :
        /\ at[r] # Out => at[r] \in Ops /\ r \in Members(file, at[r]) /\ Reaches(r, at[r])
        /\ \A op \in Ops :
             r \in Members(file, op) /\ Reaches(r, op) /\ (op = at[r] \/ Earlier(op, at[r]))
                => op \in DOMAIN said[r]

\* ... with an error exactly where the file makes it err.
Told ==
    \A r \in Ranks :
        /\ at[r] \in DOMAIN said[r] /\ error[r] = said[r][at[r]]
        /\ \A op \in DOMAIN said[r] :
             said[r][op] \in Codes /\ (said[r][op] # "none" <=> Erring(r, op))

\* The records a rank has read lead to ranks there are.
IsRecord(rec) ==
    rec = [grid |-> rec.grid, other |-> rec.other, place |-> rec.place, id |-> rec.id]
AllLead(recs) ==
    /\ IsLog(recs)
    /\ \A i \in 1 .. Len(recs) : IsRecord(recs[i]) /\ BinOf(file, recs[i]) \in Ranks
RecordsLead == \A r \in Ranks, side \in Sides : AllLead(chunk[r][side])

ImportInv ==
    /\ file \in Files
    /\ at = [r \in Ranks |-> at[r]]
    /\ said = [r \in Ranks |-> said[r]]
    /\ error = [r \in Ranks |-> error[r]]
    /\ chunk = [r \in Ranks |-> [side \in Sides |-> chunk[r][side]]]
    /\ InProgram /\ Told /\ RecordsLead
-----------------------------------------------------------------------------
\* What the assumptions say of the file in use.
LEMMA FileFacts ==
    ASSUME file \in Files
    PROVE  /\ \A g \in Grids(file) : g \in Nat /\ g > 0 /\ RanksOf(file, g) \subseteq Ranks
           /\ \A x \in file.faults :
                /\ x.op \in CanFail(file) /\ x.code \in {"open", "read"}
                /\ x.ranks # {} /\ x.ranks \subseteq Members(file, x.op)
                /\ x.op.what = "size" => x.ranks = Members(file, x.op)
  <1>1. WellFormed(file)
    BY FilesAssumption
  <1>2. FaultsInMembers(file)
    BY <1>1 DEF WellFormed
  <1>3. \A g \in Grids(file) : g \in Nat \ {0} /\ RanksOf(file, g) \subseteq Ranks
    BY <1>1 DEF WellFormed
  <1> QED
    BY <1>2, <1>3 DEF FaultsInMembers

\* An operation is known by its phase, its grid and its part.
IsAt(op, phase, g, part) == Phase(op) = phase /\ op.grid = g /\ PartOf(op) = part

Canon(phase, g, part) ==
    IF phase = 0 THEN Global
    ELSE IF phase = 1
    THEN IF part = 0 THEN Op("info", g, "")
         ELSE IF part = 1 THEN Op("split", g, "donors")
         ELSE IF part = 2 THEN Op("size", g, "donors")
         ELSE IF part = 3 THEN Op("read", g, "donors")
         ELSE IF part = 4 THEN Op("agree", g, "donors")
         ELSE IF part = 5 THEN Op("split", g, "receivers")
         ELSE IF part = 6 THEN Op("size", g, "receivers")
         ELSE IF part = 7 THEN Op("read", g, "receivers")
         ELSE Op("agree", g, "receivers")
    ELSE IF phase = 2 THEN Check
    ELSE IF phase = 3 THEN Totals
    ELSE IF phase = 4 THEN Announce
    ELSE IF phase = 5 THEN Meet
    ELSE IF phase = 6 THEN Answer
    ELSE IF phase = 7
    THEN IF part = 0 THEN Op("hash", g, "")
         ELSE IF part = 1 THEN Op("handshake", g, "")
         ELSE Op("deliver", g, "")
    ELSE Create
Located(op) ==
    /\ Phase(op) \in 0 .. 8 /\ op.grid \in Nat /\ PartOf(op) \in 0 .. 8
    /\ op.grid = 0 => Phase(op) \notin {1, 7} /\ PartOf(op) = 0
    /\ op.grid # 0 => Phase(op) \in {1, 7} /\ op.grid \in Grids(file)
    /\ Phase(op) = 7 => PartOf(op) < 3
    /\ op = Canon(Phase(op), op.grid, PartOf(op))

LEMMA DomainPlaces ==
    /\ IsAt(Global, 0, 0, 0) /\ IsAt(Check, 2, 0, 0) /\ IsAt(Create, 8, 0, 0) /\ IsAt(Out, 9, 0, 0)
    /\ IsAt(Totals, 3, 0, 0) /\ IsAt(Announce, 4, 0, 0)
    /\ IsAt(Meet, 5, 0, 0) /\ IsAt(Answer, 6, 0, 0)
  <1>1. IsAt(Global, 0, 0, 0) /\ IsAt(Check, 2, 0, 0)
    BY DEF IsAt, Global, Check, Op, Phase, PartOf
  <1>2. IsAt(Create, 8, 0, 0) /\ IsAt(Out, 9, 0, 0)
    BY DEF IsAt, Create, Out, Op, Phase, PartOf
  <1>3. IsAt(Totals, 3, 0, 0) /\ IsAt(Announce, 4, 0, 0)
    BY DEF IsAt, Totals, Announce, Op, Phase, PartOf
  <1>4. IsAt(Meet, 5, 0, 0) /\ IsAt(Answer, 6, 0, 0)
    BY DEF IsAt, Meet, Answer, Op, Phase, PartOf
  <1> QED
    BY <1>1, <1>2, <1>3, <1>4

LEMMA GridPlaces ==
    ASSUME NEW g \in Nat, g > 0
    PROVE  /\ IsAt(Op("info", g, ""), 1, g, 0) /\ IsAt(Op("hash", g, ""), 7, g, 0)
           /\ IsAt(Op("handshake", g, ""), 7, g, 1) /\ IsAt(Op("deliver", g, ""), 7, g, 2)
           /\ IsAt(Op("split", g, "donors"), 1, g, 1) /\ IsAt(Op("split", g, "receivers"), 1, g, 5)
           /\ IsAt(Op("size", g, "donors"), 1, g, 2) /\ IsAt(Op("size", g, "receivers"), 1, g, 6)
           /\ IsAt(Op("read", g, "donors"), 1, g, 3) /\ IsAt(Op("read", g, "receivers"), 1, g, 7)
           /\ IsAt(Op("agree", g, "donors"), 1, g, 4) /\ IsAt(Op("agree", g, "receivers"), 1, g, 8)
  <1>1. /\ IsAt(Op("info", g, ""), 1, g, 0) /\ IsAt(Op("hash", g, ""), 7, g, 0)
        /\ IsAt(Op("handshake", g, ""), 7, g, 1) /\ IsAt(Op("deliver", g, ""), 7, g, 2)
    BY DEF IsAt, Op, Phase, PartOf
  <1>2. /\ IsAt(Op("split", g, "donors"), 1, g, 1) /\ IsAt(Op("split", g, "receivers"), 1, g, 5)
        /\ IsAt(Op("size", g, "donors"), 1, g, 2) /\ IsAt(Op("size", g, "receivers"), 1, g, 6)
    BY DEF IsAt, Op, Phase, PartOf
  <1>3. /\ IsAt(Op("read", g, "donors"), 1, g, 3) /\ IsAt(Op("read", g, "receivers"), 1, g, 7)
        /\ IsAt(Op("agree", g, "donors"), 1, g, 4) /\ IsAt(Op("agree", g, "receivers"), 1, g, 8)
    BY DEF IsAt, Op, Phase, PartOf
  <1> QED
    BY <1>1, <1>2, <1>3

LEMMA OpKinds ==
    ASSUME NEW op \in Ops
    PROVE  \/ op \in InDomain
           \/ \E g \in Grids(file) :
                \/ \E what \in InGrid : op = Op(what, g, "")
                \/ \E side \in Sides : \E what \in InSide : op = Op(what, g, side)
  <1>1. op \in InDomain \/ \E g \in Grids(file) : op \in OpsOf(g)
    BY DEF Ops
  <1>2. ASSUME NEW g, op \in OpsOf(g)
        PROVE  \/ \E what \in InGrid : op = Op(what, g, "")
               \/ \E side \in Sides : \E what \in InSide : op = Op(what, g, side)
    <2>1. \/ op \in {Op(what, g, "") : what \in InGrid}
          \/ \E side \in Sides : op \in {Op(what, g, side) : what \in InSide}
      BY <1>2 DEF OpsOf
    <2> QED
      BY <2>1
  <1> QED
    BY <1>1, <1>2

\* An operation of a grid that is at a place is the one of that place.
LEMMA GridOpLocated ==
    ASSUME file \in Files, NEW g \in Grids(file), NEW op, NEW phase \in {1, 7}, NEW part \in 0 .. 8,
           phase = 7 => part < 3, IsAt(op, phase, g, part), op = Canon(phase, g, part)
    PROVE  Located(op)
  BY FileFacts DEF IsAt, Located

LEMMA DomainOpLocated ==
    ASSUME NEW op, NEW phase \in {0, 2, 3, 4, 5, 6, 8}, IsAt(op, phase, 0, 0), op = Canon(phase, 0, 0)
    PROVE  Located(op)
  BY DEF IsAt, Located

LEMMA CanonOfGrid ==
    ASSUME NEW g
    PROVE  /\ Canon(1, g, 0) = Op("info", g, "") /\ Canon(7, g, 0) = Op("hash", g, "")
           /\ Canon(7, g, 1) = Op("handshake", g, "") /\ Canon(7, g, 2) = Op("deliver", g, "")
  BY DEF Canon

LEMMA OpFacts ==
    ASSUME file \in Files, NEW op \in Ops
    PROVE  Located(op)
  <1>1. CASE op \in InDomain
    <2>1. CASE op = Global
      <3>1. IsAt(op, 0, 0, 0)
        BY <2>1, DomainPlaces
      <3>2. op = Canon(0, 0, 0)
        BY <2>1 DEF Canon
      <3> QED
        BY <3>1, <3>2, DomainOpLocated
    <2>2. CASE op = Check
      <3>1. IsAt(op, 2, 0, 0)
        BY <2>2, DomainPlaces
      <3>2. op = Canon(2, 0, 0)
        BY <2>2 DEF Canon
      <3> QED
        BY <3>1, <3>2, DomainOpLocated
    <2>3. CASE op = Totals
      <3>1. IsAt(op, 3, 0, 0)
        BY <2>3, DomainPlaces
      <3>2. op = Canon(3, 0, 0)
        BY <2>3 DEF Canon
      <3> QED
        BY <3>1, <3>2, DomainOpLocated
    <2>4. CASE op = Announce
      <3>1. IsAt(op, 4, 0, 0)
        BY <2>4, DomainPlaces
      <3>2. op = Canon(4, 0, 0)
        BY <2>4 DEF Canon
      <3> QED
        BY <3>1, <3>2, DomainOpLocated
    <2>5. CASE op = Meet
      <3>1. IsAt(op, 5, 0, 0)
        BY <2>5, DomainPlaces
      <3>2. op = Canon(5, 0, 0)
        BY <2>5 DEF Canon
      <3> QED
        BY <3>1, <3>2, DomainOpLocated
    <2>6. CASE op = Answer
      <3>1. IsAt(op, 6, 0, 0)
        BY <2>6, DomainPlaces
      <3>2. op = Canon(6, 0, 0)
        BY <2>6 DEF Canon
      <3> QED
        BY <3>1, <3>2, DomainOpLocated
    <2>7. CASE op = Create
      <3>1. IsAt(op, 8, 0, 0)
        BY <2>7, DomainPlaces
      <3>2. op = Canon(8, 0, 0)
        BY <2>7 DEF Canon
      <3> QED
        BY <3>1, <3>2, DomainOpLocated
    <2> QED
      BY <1>1, <2>1, <2>2, <2>3, <2>4, <2>5, <2>6, <2>7 DEF InDomain
  <1>2. ASSUME NEW g \in Grids(file), NEW what \in InGrid, op = Op(what, g, "")
        PROVE  Located(op)
    <2>1. g \in Nat /\ g > 0
      BY FileFacts
    <2>2. CASE what = "info"
      <3>1. IsAt(op, 1, g, 0)
        BY <1>2, <2>1, <2>2, GridPlaces
      <3>2. op = Canon(1, g, 0)
        BY <1>2, <2>2, CanonOfGrid
      <3> QED
        BY <3>1, <3>2, GridOpLocated
    <2>3. CASE what = "hash"
      <3>1. IsAt(op, 7, g, 0)
        BY <1>2, <2>1, <2>3, GridPlaces
      <3>2. op = Canon(7, g, 0)
        BY <1>2, <2>3, CanonOfGrid
      <3> QED
        BY <3>1, <3>2, GridOpLocated
    <2>4. CASE what = "handshake"
      <3>1. IsAt(op, 7, g, 1)
        BY <1>2, <2>1, <2>4, GridPlaces
      <3>2. op = Canon(7, g, 1)
        BY <1>2, <2>4, CanonOfGrid
      <3> QED
        BY <3>1, <3>2, GridOpLocated
    <2>5. CASE what = "deliver"
      <3>1. IsAt(op, 7, g, 2)
        BY <1>2, <2>1, <2>5, GridPlaces
      <3>2. op = Canon(7, g, 2)
        BY <1>2, <2>5, CanonOfGrid
      <3> QED
        BY <3>1, <3>2, GridOpLocated
    <2> QED
      BY <2>2, <2>3, <2>4, <2>5 DEF InGrid
  <1>3. ASSUME NEW g \in Grids(file), NEW side \in Sides, NEW what \in InSide, op = Op(what, g, side)
        PROVE  Located(op)
    <2>1. g \in Nat /\ g > 0
      BY FileFacts
    <2>2. CASE what = "split" /\ side = "donors"
      <3>1. IsAt(op, 1, g, 1)
        BY <1>3, <2>1, <2>2, GridPlaces
      <3>2. op = Canon(1, g, 1)
        BY <1>3, <2>2 DEF Canon
      <3> QED
        BY <3>1, <3>2, GridOpLocated
    <2>3. CASE what = "size" /\ side = "donors"
      <3>1. IsAt(op, 1, g, 2)
        BY <1>3, <2>1, <2>3, GridPlaces
      <3>2. op = Canon(1, g, 2)
        BY <1>3, <2>3 DEF Canon
      <3> QED
        BY <3>1, <3>2, GridOpLocated
    <2>4. CASE what = "read" /\ side = "donors"
      <3>1. IsAt(op, 1, g, 3)
        BY <1>3, <2>1, <2>4, GridPlaces
      <3>2. op = Canon(1, g, 3)
        BY <1>3, <2>4 DEF Canon
      <3> QED
        BY <3>1, <3>2, GridOpLocated
    <2>5. CASE what = "agree" /\ side = "donors"
      <3>1. IsAt(op, 1, g, 4)
        BY <1>3, <2>1, <2>5, GridPlaces
      <3>2. op = Canon(1, g, 4)
        BY <1>3, <2>5 DEF Canon
      <3> QED
        BY <3>1, <3>2, GridOpLocated
    <2>6. CASE what = "split" /\ side = "receivers"
      <3>1. IsAt(op, 1, g, 5)
        BY <1>3, <2>1, <2>6, GridPlaces
      <3>2. op = Canon(1, g, 5)
        BY <1>3, <2>6 DEF Canon
      <3> QED
        BY <3>1, <3>2, GridOpLocated
    <2>7. CASE what = "size" /\ side = "receivers"
      <3>1. IsAt(op, 1, g, 6)
        BY <1>3, <2>1, <2>7, GridPlaces
      <3>2. op = Canon(1, g, 6)
        BY <1>3, <2>7 DEF Canon
      <3> QED
        BY <3>1, <3>2, GridOpLocated
    <2>8. CASE what = "read" /\ side = "receivers"
      <3>1. IsAt(op, 1, g, 7)
        BY <1>3, <2>1, <2>8, GridPlaces
      <3>2. op = Canon(1, g, 7)
        BY <1>3, <2>8 DEF Canon
      <3> QED
        BY <3>1, <3>2, GridOpLocated
    <2>9. CASE what = "agree" /\ side = "receivers"
      <3>1. IsAt(op, 1, g, 8)
        BY <1>3, <2>1, <2>9, GridPlaces
      <3>2. op = Canon(1, g, 8)
        BY <1>3, <2>9 DEF Canon
      <3> QED
        BY <3>1, <3>2, GridOpLocated
    <2> QED
      BY <2>2, <2>3, <2>4, <2>5, <2>6, <2>7, <2>8, <2>9 DEF InSide, Sides
  <1> QED
    BY <1>1, <1>2, <1>3, OpKinds

\* Whatever is not in the one order is in the other.
LEMMA InOrder ==
    ASSUME file \in Files, NEW a \in Ops, NEW b \in Ops
    PROVE  a = b \/ Earlier(a, b) \/ Earlier(b, a)
  <1>1. Located(a) /\ Located(b)
    BY OpFacts
  <1>2. CASE Phase(a) = Phase(b) /\ a.grid = b.grid /\ PartOf(a) = PartOf(b)
    BY <1>1, <1>2 DEF Located
  <1>3. CASE Phase(a) # Phase(b) \/ a.grid # b.grid \/ PartOf(a) # PartOf(b)
    BY <1>1, <1>3 DEF Located, Earlier
  <1> QED
    BY <1>2, <1>3

\* The first of some grids.
LEMMA FirstGrid ==
    ASSUME file \in Files, NEW gs \in SUBSET Grids(file), gs # {}
    PROVE  Min(gs) \in gs /\ \A g \in gs : Min(gs) <= g
  BY FileFacts, LeastOf
-----------------------------------------------------------------------------
\* Where an operation leads a rank that leaves it with error e.
Found(r, op, e) == IF op.what = "info" THEN Fault(r, op) ELSE e
Leads(r, op, n, e) ==
    /\ n # Out => n \in Ops /\ r \in Members(file, n) /\ Reaches(r, n)
    /\ Found(r, n, e) # "none" <=> Erring(r, n)
    /\ \A b \in Ops : r \in Members(file, b) /\ Earlier(op, b) /\ Earlier(b, n) => ~Reaches(r, b)

\* Which operations there are, and who takes part in them.
LEMMA OpsThere ==
    /\ Global \in Ops /\ Check \in Ops /\ Totals \in Ops /\ Announce \in Ops /\ Meet \in Ops
    /\ Answer \in Ops /\ Create \in Ops
    /\ \A g \in Grids(file) :
         /\ \A what \in InGrid : Op(what, g, "") \in Ops
         /\ \A what \in InSide, side \in Sides : Op(what, g, side) \in Ops
  <1>1. \A op \in InDomain : op \in Ops
    BY DEF Ops
  <1>2. \A g \in Grids(file) : OpsOf(g) \subseteq Ops
    BY DEF Ops
  <1>3. ASSUME NEW g \in Grids(file)
        PROVE  /\ \A what \in InGrid : Op(what, g, "") \in OpsOf(g)
               /\ \A what \in InSide, side \in Sides : Op(what, g, side) \in OpsOf(g)
    <2>1. ASSUME NEW what \in InGrid PROVE Op(what, g, "") \in OpsOf(g)
      BY DEF OpsOf
    <2>2. ASSUME NEW what \in InSide, NEW side \in Sides PROVE Op(what, g, side) \in OpsOf(g)
      <3>1. Op(what, g, side) \in {Op(w, g, side) : w \in InSide}
        OBVIOUS
      <3> QED
        BY <3>1 DEF OpsOf
    <2> QED
      BY <2>1, <2>2
  <1> QED
    BY <1>1, <1>2, <1>3 DEF InDomain

LEMMA DomainMembers ==
    ASSUME NEW op, op.grid = 0
    PROVE  Members(file, op) = Ranks
  BY DEF Members

LEMMA GridMembers ==
    ASSUME file \in Files, NEW r, NEW g \in Grids(file), NEW what, NEW side
    PROVE  r \in Members(file, Op(what, g, side)) <=>
               /\ g \in LocalGrids(file, r)
               /\ what \in {"size", "read"} => HasChunk(file, r, g, side)
  <1>1. Op(what, g, side).grid = g /\ Op(what, g, side).what = what /\ Op(what, g, side).side = side
    BY DEF Op
  <1>2. g # 0
    BY FileFacts
  <1> QED
    BY <1>1, <1>2 DEF Members, LocalGrids

LEMMA MemberLocal ==
    ASSUME file \in Files, NEW op \in Ops, NEW r, r \in Members(file, op), op.grid # 0
    PROVE  op.grid \in LocalGrids(file, r)
  <1>1. op.grid \in Grids(file)
    BY OpFacts DEF Located
  <1> QED
    BY <1>1 DEF Members, LocalGrids

\* With which errors a rank comes to which operation.
LEMMA ErringInGrid ==
    ASSUME NEW r, NEW g, NEW side
    PROVE  /\ Erring(r, Op("info", g, "")) <=> Hits(r, Op("info", g, ""))
           /\ Erring(r, Op("agree", g, side)) <=> HasChunk(file, r, g, side) /\ SideFails(g, side)
           /\ \A what \in {"split", "size", "read", "hash", "handshake", "deliver"} :
                \A s : ~Erring(r, Op(what, g, s))
  <1>1. \A what, s : Op(what, g, s).what = what /\ Op(what, g, s).grid = g /\ Op(what, g, s).side = s
    BY DEF Op
  <1>2. ASSUME NEW op, op.what = "info" PROVE Erring(r, op) <=> Hits(r, op)
    BY <1>2 DEF Erring
  <1>3. ASSUME NEW op, op.what = "agree"
        PROVE  Erring(r, op) <=> HasChunk(file, r, op.grid, op.side) /\ SideFails(op.grid, op.side)
    BY <1>3 DEF Erring
  <1>4. ASSUME NEW op, op.what \in {"split", "size", "read", "hash", "handshake", "deliver"}
        PROVE  ~Erring(r, op)
    BY <1>4 DEF Erring
  <1>5. ASSUME NEW what \in {"split", "size", "read", "hash", "handshake", "deliver"}, NEW s
        PROVE  ~Erring(r, Op(what, g, s))
    BY <1>1, <1>4
  <1>6. Erring(r, Op("info", g, "")) <=> Hits(r, Op("info", g, ""))
    BY <1>1, <1>2
  <1>7. Erring(r, Op("agree", g, side)) <=> HasChunk(file, r, g, side) /\ SideFails(g, side)
    BY <1>1, <1>3
  <1> QED
    BY <1>5, <1>6, <1>7

LEMMA ErringInDomain ==
    ASSUME NEW r
    PROVE  /\ Erring(r, Global) <=> Hits(r, Global)
           /\ Erring(r, Check) <=> \E g \in LocalGrids(file, r) : GridFails(g)
           /\ Erring(r, Out) <=> GlobalFails \/ AnyGridFails
           /\ ~Erring(r, Totals) /\ ~Erring(r, Announce) /\ ~Erring(r, Meet) /\ ~Erring(r, Answer)
           /\ ~Erring(r, Create)
  <1>1. /\ Global.what = "global" /\ Check.what = "check" /\ Out.what = "out" /\ Totals.what = "totals"
        /\ Announce.what = "handshake" /\ Meet.what = "meet" /\ Answer.what = "answer"
        /\ Create.what = "create"
    BY DEF Op, Global, Check, Out, Totals, Announce, Meet, Answer, Create
  <1> QED
    BY <1>1 DEF Erring

LEMMA FaultMeans ==
    ASSUME file \in Files, NEW r, NEW op
    PROVE  Fault(r, op) \in Codes /\ (Fault(r, op) # "none" <=> Hits(r, op))
  BY FileFacts DEF Fault, Hits, Codes

\* From wherever the reading of a grid, or of none yet, is over without an error.
LEMMA OnToReading ==
    ASSUME file \in Files, NEW r \in Ranks, NEW k \in Nat, NEW gs,
           gs = {h \in LocalGrids(file, r) : h > k},
           ~GlobalFails, \A h \in LocalGrids(file, r) : h <= k => ~GridFails(h)
    PROVE  LET n == FirstOr("info", gs, Check)
           IN /\ n \in Ops /\ n # Out /\ r \in Members(file, n) /\ Reaches(r, n)
              /\ Found(r, n, "none") # "none" <=> Erring(r, n)
              /\ \A b \in Ops : r \in Members(file, b) /\ Phase(b) >= 1 /\ (Phase(b) = 1 => b.grid > k)
                   => ~Earlier(b, n)
  <1> DEFINE n == FirstOr("info", gs, Check)
  <1>1. LocalGrids(file, r) \subseteq Grids(file) /\ gs \subseteq LocalGrids(file, r)
    BY DEF LocalGrids
  <1>2. CASE gs = {}
    <2>1. n = Check /\ Check.what # "info" /\ Check # Out
      BY <1>2 DEF FirstOr, Check, Out, Op
    <2>2. n \in Ops /\ IsAt(n, 2, 0, 0)
      BY <2>1, OpsThere, DomainPlaces
    <2>3. r \in Members(file, n)
      BY <2>2, DomainMembers DEF IsAt
    <2>4. Reaches(r, n)
      BY <2>2 DEF Reaches, IsAt
    <2>5. \A h \in LocalGrids(file, r) : ~GridFails(h)
      BY <1>1, <1>2, FileFacts
    <2>6. ~Erring(r, n)
      BY <2>1, <2>5, ErringInDomain
    <2>7. ASSUME NEW b \in Ops, r \in Members(file, b), Phase(b) >= 1, Phase(b) = 1 => b.grid > k,
                 Earlier(b, n)
          PROVE  FALSE
      <3>1. Located(b)
        BY OpFacts
      <3>2. Phase(b) = 1 /\ b.grid # 0 /\ b.grid > k
        BY <2>2, <2>7, <3>1 DEF Located, Earlier, IsAt
      <3>3. b.grid \in gs
        BY <2>7, <3>2, MemberLocal
      <3> QED
        BY <1>2, <3>3
    <2> QED
      BY <2>1, <2>2, <2>3, <2>4, <2>6, <2>7 DEF Found
  <1>3. CASE gs # {}
    <2> DEFINE m == Min(gs)
    <2>1. m \in gs /\ \A g \in gs : m <= g
      BY <1>1, <1>3, FirstGrid
    <2>2. n = Op("info", m, "") /\ n.what = "info" /\ n # Out
      BY <1>3 DEF FirstOr, Op, Out
    <2> HIDE DEF m
    <2>3. m \in Grids(file) /\ m \in LocalGrids(file, r) /\ m \in Nat /\ m > k /\ m > 0
      BY <1>1, <2>1, FileFacts
    <2>4. n \in Ops /\ IsAt(n, 1, m, 0)
      BY <2>2, <2>3, OpsThere, GridPlaces DEF InGrid
    <2>5. r \in Members(file, n)
      BY <2>2, <2>3, GridMembers
    <2>6. ASSUME NEW h \in LocalGrids(file, r), h < m PROVE ~GridFails(h)
      <3>1. h \notin gs /\ h \in Nat
        BY <1>1, <2>1, <2>3, <2>6, FileFacts
      <3> QED
        BY <3>1
    <2>7. Reaches(r, n)
      BY <2>4, <2>6 DEF Reaches, IsAt
    <2>8. Found(r, n, "none") # "none" <=> Erring(r, n)
      BY <2>2, FaultMeans, ErringInGrid DEF Found
    <2>9. ASSUME NEW b \in Ops, r \in Members(file, b), Phase(b) >= 1, Phase(b) = 1 => b.grid > k,
                 Earlier(b, n)
          PROVE  FALSE
      <3>1. Located(b)
        BY OpFacts
      <3>2. Phase(b) = 1 /\ b.grid # 0 /\ b.grid > k /\ b.grid < m
        BY <2>3, <2>4, <2>9, <3>1 DEF Located, Earlier, IsAt
      <3>3. b.grid \in gs
        BY <2>9, <3>2, MemberLocal
      <3> QED
        BY <2>1, <2>3, <3>1, <3>2, <3>3 DEF Located
    <2> QED
      BY <2>2, <2>4, <2>5, <2>7, <2>8, <2>9
  <1> QED
    BY <1>2, <1>3
\* From wherever the records of a grid, or of none yet, are spread.
LEMMA OnToSpreading ==
    ASSUME file \in Files, NEW r \in Ranks, NEW k \in Nat, NEW gs,
           gs = {h \in LocalGrids(file, r) : h > k},
           ~GlobalFails, ~AnyGridFails
    PROVE  LET n == FirstOr("hash", gs, Create)
           IN /\ n \in Ops /\ n # Out /\ r \in Members(file, n) /\ Reaches(r, n)
              /\ Found(r, n, "none") # "none" <=> Erring(r, n)
              /\ \A b \in Ops : r \in Members(file, b) /\ Phase(b) >= 7 /\ (Phase(b) = 7 => b.grid > k)
                   => ~Earlier(b, n)
  <1> DEFINE n == FirstOr("hash", gs, Create)
  <1>1. LocalGrids(file, r) \subseteq Grids(file) /\ gs \subseteq LocalGrids(file, r)
    BY DEF LocalGrids
  <1>2. CASE gs = {}
    <2>1. n = Create /\ Create.what # "info" /\ Create # Out
      BY <1>2 DEF FirstOr, Create, Out, Op
    <2>2. n \in Ops /\ IsAt(n, 8, 0, 0)
      BY <2>1, OpsThere, DomainPlaces
    <2>3. r \in Members(file, n)
      BY <2>2, DomainMembers DEF IsAt
    <2>4. Reaches(r, n)
      BY <2>2 DEF Reaches, IsAt
    <2>6. ~Erring(r, n)
      BY <2>1, ErringInDomain
    <2>7. ASSUME NEW b \in Ops, r \in Members(file, b), Phase(b) >= 7, Phase(b) = 7 => b.grid > k,
                 Earlier(b, n)
          PROVE  FALSE
      <3>1. Located(b)
        BY OpFacts
      <3>2. Phase(b) = 7 /\ b.grid # 0 /\ b.grid > k
        BY <2>2, <2>7, <3>1 DEF Located, Earlier, IsAt
      <3>3. b.grid \in gs
        BY <2>7, <3>2, MemberLocal
      <3> QED
        BY <1>2, <3>3
    <2> QED
      BY <2>1, <2>2, <2>3, <2>4, <2>6, <2>7 DEF Found
  <1>3. CASE gs # {}
    <2> DEFINE m == Min(gs)
    <2>1. m \in gs /\ \A g \in gs : m <= g
      BY <1>1, <1>3, FirstGrid
    <2>2. n = Op("hash", m, "") /\ n.what # "info" /\ n # Out
      BY <1>3 DEF FirstOr, Op, Out
    <2> HIDE DEF m
    <2>3. m \in Grids(file) /\ m \in LocalGrids(file, r) /\ m \in Nat /\ m > k /\ m > 0
      BY <1>1, <2>1, FileFacts
    <2>4. n \in Ops /\ IsAt(n, 7, m, 0)
      BY <2>2, <2>3, OpsThere, GridPlaces DEF InGrid
    <2>5. r \in Members(file, n)
      BY <2>2, <2>3, GridMembers
    <2>7. Reaches(r, n)
      BY <2>4 DEF Reaches, IsAt
    <2>8. Found(r, n, "none") # "none" <=> Erring(r, n)
      BY <2>2, ErringInGrid DEF Found
    <2>9. ASSUME NEW b \in Ops, r \in Members(file, b), Phase(b) >= 7, Phase(b) = 7 => b.grid > k,
                 Earlier(b, n)
          PROVE  FALSE
      <3>1. Located(b)
        BY OpFacts
      <3>2. Phase(b) = 7 /\ b.grid # 0 /\ b.grid > k /\ b.grid < m
        BY <2>3, <2>4, <2>9, <3>1 DEF Located, Earlier, IsAt
      <3>3. b.grid \in gs
        BY <2>9, <3>2, MemberLocal
      <3> QED
        BY <2>1, <2>3, <3>1, <3>2, <3>3 DEF Located
    <2> QED
      BY <2>2, <2>4, <2>5, <2>7, <2>8, <2>9
  <1> QED
    BY <1>2, <1>3

\* The next operation, by what the rank comes from.
LEMMA FromInfo ==
    ASSUME NEW r, NEW op, NEW e, op.what = "info", op.grid # 0
    PROVE  /\ e # "none" => NextOp(r, op, e) = Check
           /\ e = "none" => NextOp(r, op, e) = Op("split", op.grid, "donors")
  <1>1. OpAfter(r, op) = AfterInGrid(r, op)
    BY DEF OpAfter
  <1>2. AfterInGrid(r, op) = Op("split", op.grid, "donors")
    BY DEF AfterInGrid
  <1>3. e # "none" => NextOp(r, op, e) = Check
    BY DEF NextOp
  <1>4. e = "none" => NextOp(r, op, e) = OpAfter(r, op)
    BY DEF NextOp
  <1> QED
    BY <1>1, <1>2, <1>3, <1>4

LEMMA NextOfInfo ==
    ASSUME file \in Files, NEW r, NEW g \in Grids(file), NEW e
    PROVE  /\ e # "none" => NextOp(r, Op("info", g, ""), e) = Check
           /\ e = "none" => NextOp(r, Op("info", g, ""), e) = Op("split", g, "donors")
  <1> DEFINE op == Op("info", g, "")
  <1>1. op.what = "info" /\ op.grid = g
    BY DEF Op
  <1> HIDE DEF op
  <1>2. op.grid # 0
    BY <1>1, FileFacts
  <1>3. /\ e # "none" => NextOp(r, op, e) = Check
        /\ e = "none" => NextOp(r, op, e) = Op("split", g, "donors")
    BY <1>1, <1>2, FromInfo
  <1> QED
    BY <1>3 DEF op

LEMMA FromSplit ==
    ASSUME NEW r, NEW op, NEW e, op.what = "split", op.grid # 0
    PROVE  /\ ~HasChunk(file, r, op.grid, op.side) => NextOp(r, op, e) = Op("agree", op.grid, op.side)
           /\ HasChunk(file, r, op.grid, op.side) => NextOp(r, op, e) = Op("size", op.grid, op.side)
  <1>1. OpAfter(r, op) = AfterInGrid(r, op)
    BY DEF OpAfter
  <1>2. AfterInGrid(r, op) = Op("size", op.grid, op.side)
    BY DEF AfterInGrid
  <1>3. ~HasChunk(file, r, op.grid, op.side) => NextOp(r, op, e) = Op("agree", op.grid, op.side)
    BY DEF NextOp
  <1>4. HasChunk(file, r, op.grid, op.side) => NextOp(r, op, e) = OpAfter(r, op)
    BY DEF NextOp
  <1> QED
    BY <1>1, <1>2, <1>3, <1>4

LEMMA NextOfSplit ==
    ASSUME file \in Files, NEW r, NEW g \in Grids(file), NEW side, NEW e
    PROVE  /\ ~HasChunk(file, r, g, side) => NextOp(r, Op("split", g, side), e) = Op("agree", g, side)
           /\ HasChunk(file, r, g, side) => NextOp(r, Op("split", g, side), e) = Op("size", g, side)
  <1> DEFINE op == Op("split", g, side)
  <1>1. op.what = "split" /\ op.grid = g /\ op.side = side
    BY DEF Op
  <1> HIDE DEF op
  <1>2. op.grid # 0
    BY <1>1, FileFacts
  <1>3. /\ ~HasChunk(file, r, g, side) => NextOp(r, op, e) = Op("agree", g, side)
        /\ HasChunk(file, r, g, side) => NextOp(r, op, e) = Op("size", g, side)
    BY <1>1, <1>2, FromSplit
  <1> QED
    BY <1>3 DEF op

LEMMA FromSize ==
    ASSUME NEW r, NEW op, NEW e, op.what = "size", op.grid # 0
    PROVE  /\ e # "none" => NextOp(r, op, e) = Op("agree", op.grid, op.side)
           /\ e = "none" => NextOp(r, op, e) = Op("read", op.grid, op.side)
  <1>1. OpAfter(r, op) = AfterInGrid(r, op)
    BY DEF OpAfter
  <1>2. AfterInGrid(r, op) = Op("read", op.grid, op.side)
    BY DEF AfterInGrid
  <1>3. e # "none" => NextOp(r, op, e) = Op("agree", op.grid, op.side)
    BY DEF NextOp
  <1>4. e = "none" => NextOp(r, op, e) = OpAfter(r, op)
    BY DEF NextOp
  <1> QED
    BY <1>1, <1>2, <1>3, <1>4

LEMMA NextOfSize ==
    ASSUME file \in Files, NEW r, NEW g \in Grids(file), NEW side, NEW e
    PROVE  /\ e # "none" => NextOp(r, Op("size", g, side), e) = Op("agree", g, side)
           /\ e = "none" => NextOp(r, Op("size", g, side), e) = Op("read", g, side)
  <1> DEFINE op == Op("size", g, side)
  <1>1. op.what = "size" /\ op.grid = g /\ op.side = side
    BY DEF Op
  <1> HIDE DEF op
  <1>2. op.grid # 0
    BY <1>1, FileFacts
  <1>3. /\ e # "none" => NextOp(r, op, e) = Op("agree", g, side)
        /\ e = "none" => NextOp(r, op, e) = Op("read", g, side)
    BY <1>1, <1>2, FromSize
  <1> QED
    BY <1>3 DEF op

LEMMA FromRead ==
    ASSUME NEW r, NEW op, NEW e, op.what = "read", op.grid # 0
    PROVE  NextOp(r, op, e) = Op("agree", op.grid, op.side)
  <1>1. OpAfter(r, op) = AfterInGrid(r, op)
    BY DEF OpAfter
  <1>2. AfterInGrid(r, op) = Op("agree", op.grid, op.side)
    BY DEF AfterInGrid
  <1>3. NextOp(r, op, e) = OpAfter(r, op)
    BY DEF NextOp
  <1> QED
    BY <1>1, <1>2, <1>3

LEMMA NextOfRead ==
    ASSUME file \in Files, NEW r, NEW g \in Grids(file), NEW side, NEW e
    PROVE  NextOp(r, Op("read", g, side), e) = Op("agree", g, side)
  <1> DEFINE op == Op("read", g, side)
  <1>1. op.what = "read" /\ op.grid = g /\ op.side = side
    BY DEF Op
  <1> HIDE DEF op
  <1>2. op.grid # 0
    BY <1>1, FileFacts
  <1>3. NextOp(r, op, e) = Op("agree", g, side)
    BY <1>1, <1>2, FromRead
  <1> QED
    BY <1>3 DEF op

LEMMA FromDonors ==
    ASSUME NEW r, NEW op, NEW e, op.what = "agree", op.grid # 0, op.side = "donors"
    PROVE  /\ e # "none" => NextOp(r, op, e) = Check
           /\ e = "none" => NextOp(r, op, e) = Op("split", op.grid, "receivers")
  <1>1. OpAfter(r, op) = AfterInGrid(r, op)
    BY DEF OpAfter
  <1>2. AfterInGrid(r, op) = Op("split", op.grid, "receivers")
    BY DEF AfterInGrid
  <1>3. e # "none" => NextOp(r, op, e) = Check
    BY DEF NextOp
  <1>4. e = "none" => NextOp(r, op, e) = OpAfter(r, op)
    BY DEF NextOp
  <1> QED
    BY <1>1, <1>2, <1>3, <1>4

LEMMA NextOfDonors ==
    ASSUME file \in Files, NEW r, NEW g \in Grids(file), NEW e
    PROVE  /\ e # "none" => NextOp(r, Op("agree", g, "donors"), e) = Check
           /\ e = "none" => NextOp(r, Op("agree", g, "donors"), e) = Op("split", g, "receivers")
  <1> DEFINE op == Op("agree", g, "donors")
  <1>1. op.what = "agree" /\ op.grid = g /\ op.side = "donors"
    BY DEF Op
  <1> HIDE DEF op
  <1>2. op.grid # 0
    BY <1>1, FileFacts
  <1>3. /\ e # "none" => NextOp(r, op, e) = Check
        /\ e = "none" => NextOp(r, op, e) = Op("split", g, "receivers")
    BY <1>1, <1>2, FromDonors
  <1> QED
    BY <1>3 DEF op

LEMMA FromReceivers ==
    ASSUME NEW r, NEW op, NEW e, op.what = "agree", op.grid # 0, op.side = "receivers"
    PROVE  /\ e # "none" => NextOp(r, op, e) = Check
           /\ e = "none" => NextOp(r, op, e) = FirstOr("info", Later(r, op.grid), Check)
  <1>1. OpAfter(r, op) = AfterInGrid(r, op)
    BY DEF OpAfter
  <1>2. AfterInGrid(r, op) = FirstOr("info", Later(r, op.grid), Check)
    BY DEF AfterInGrid
  <1>3. e # "none" => NextOp(r, op, e) = Check
    BY DEF NextOp
  <1>4. e = "none" => NextOp(r, op, e) = OpAfter(r, op)
    BY DEF NextOp
  <1> QED
    BY <1>1, <1>2, <1>3, <1>4

LEMMA NextOfReceivers ==
    ASSUME file \in Files, NEW r, NEW g \in Grids(file), NEW e
    PROVE  /\ e # "none" => NextOp(r, Op("agree", g, "receivers"), e) = Check
           /\ e = "none" => NextOp(r, Op("agree", g, "receivers"), e) = FirstOr("info", Later(r, g), Check)
  <1> DEFINE op == Op("agree", g, "receivers")
  <1>1. op.what = "agree" /\ op.grid = g /\ op.side = "receivers"
    BY DEF Op
  <1> HIDE DEF op
  <1>2. op.grid # 0
    BY <1>1, FileFacts
  <1>3. /\ e # "none" => NextOp(r, op, e) = Check
        /\ e = "none" => NextOp(r, op, e) = FirstOr("info", Later(r, g), Check)
    BY <1>1, <1>2, FromReceivers
  <1> QED
    BY <1>3 DEF op

LEMMA FromHash ==
    ASSUME NEW r, NEW op, NEW e, op.what = "hash", op.grid # 0
    PROVE  NextOp(r, op, e) = Op("handshake", op.grid, "")
  <1>1. OpAfter(r, op) = AfterInGrid(r, op)
    BY DEF OpAfter
  <1>2. AfterInGrid(r, op) = Op("handshake", op.grid, "")
    BY DEF AfterInGrid
  <1>3. NextOp(r, op, e) = OpAfter(r, op)
    BY DEF NextOp
  <1> QED
    BY <1>1, <1>2, <1>3

LEMMA NextOfHash ==
    ASSUME file \in Files, NEW r, NEW g \in Grids(file), NEW e
    PROVE  NextOp(r, Op("hash", g, ""), e) = Op("handshake", g, "")
  <1> DEFINE op == Op("hash", g, "")
  <1>1. op.what = "hash" /\ op.grid = g
    BY DEF Op
  <1> HIDE DEF op
  <1>2. op.grid # 0
    BY <1>1, FileFacts
  <1>3. NextOp(r, op, e) = Op("handshake", g, "")
    BY <1>1, <1>2, FromHash
  <1> QED
    BY <1>3 DEF op

LEMMA FromHandshake ==
    ASSUME NEW r, NEW op, NEW e, op.what = "handshake", op.grid # 0
    PROVE  NextOp(r, op, e) = Op("deliver", op.grid, "")
  <1>1. OpAfter(r, op) = AfterInGrid(r, op)
    BY DEF OpAfter
  <1>2. AfterInGrid(r, op) = Op("deliver", op.grid, "")
    BY DEF AfterInGrid
  <1>3. NextOp(r, op, e) = OpAfter(r, op)
    BY DEF NextOp
  <1> QED
    BY <1>1, <1>2, <1>3

LEMMA NextOfHandshake ==
    ASSUME file \in Files, NEW r, NEW g \in Grids(file), NEW e
    PROVE  NextOp(r, Op("handshake", g, ""), e) = Op("deliver", g, "")
  <1> DEFINE op == Op("handshake", g, "")
  <1>1. op.what = "handshake" /\ op.grid = g
    BY DEF Op
  <1> HIDE DEF op
  <1>2. op.grid # 0
    BY <1>1, FileFacts
  <1>3. NextOp(r, op, e) = Op("deliver", g, "")
    BY <1>1, <1>2, FromHandshake
  <1> QED
    BY <1>3 DEF op

LEMMA FromDeliver ==
    ASSUME NEW r, NEW op, NEW e, op.what = "deliver", op.grid # 0
    PROVE  NextOp(r, op, e) = FirstOr("hash", Later(r, op.grid), Create)
  <1>1. OpAfter(r, op) = AfterInGrid(r, op)
    BY DEF OpAfter
  <1>2. AfterInGrid(r, op) = FirstOr("hash", Later(r, op.grid), Create)
    BY DEF AfterInGrid
  <1>3. NextOp(r, op, e) = OpAfter(r, op)
    BY DEF NextOp
  <1> QED
    BY <1>1, <1>2, <1>3

LEMMA NextOfDeliver ==
    ASSUME file \in Files, NEW r, NEW g \in Grids(file), NEW e
    PROVE  NextOp(r, Op("deliver", g, ""), e) = FirstOr("hash", Later(r, g), Create)
  <1> DEFINE op == Op("deliver", g, "")
  <1>1. op.what = "deliver" /\ op.grid = g
    BY DEF Op
  <1> HIDE DEF op
  <1>2. op.grid # 0
    BY <1>1, FileFacts
  <1>3. NextOp(r, op, e) = FirstOr("hash", Later(r, g), Create)
    BY <1>1, <1>2, FromDeliver
  <1> QED
    BY <1>3 DEF op

LEMMA NextInDomain ==
    ASSUME NEW r, NEW e
    PROVE  /\ NextOp(r, Global, e) = IF e # "none" THEN Out ELSE FirstOr("info", LocalGrids(file, r), Check)
           /\ NextOp(r, Check, e) = IF e # "none" THEN Out ELSE Totals
           /\ NextOp(r, Totals, e) = Announce
           /\ NextOp(r, Announce, e) = Meet
           /\ NextOp(r, Meet, e) = Answer
           /\ NextOp(r, Answer, e) = FirstOr("hash", LocalGrids(file, r), Create)
           /\ NextOp(r, Create, e) = Out
  <1>1. /\ Global.grid = 0 /\ Check.grid = 0 /\ Totals.grid = 0 /\ Announce.grid = 0 /\ Meet.grid = 0
        /\ Answer.grid = 0 /\ Create.grid = 0
    BY DEF Op, Global, Check, Totals, Announce, Meet, Answer, Create
  <1>2. /\ Global.what = "global" /\ Check.what = "check" /\ Totals.what = "totals"
        /\ Announce.what = "handshake" /\ Meet.what = "meet" /\ Answer.what = "answer"
        /\ Create.what = "create"
    BY DEF Op, Global, Check, Totals, Announce, Meet, Answer, Create
  <1>3. ASSUME NEW op, op.grid = 0 PROVE OpAfter(r, op) = AfterInDomain(r, op)
    BY <1>3 DEF OpAfter
  <1>4. ASSUME NEW op, op.what \in {"global", "check"}
        PROVE  NextOp(r, op, e) = IF e # "none" THEN Out ELSE OpAfter(r, op)
    BY <1>4 DEF NextOp
  <1>5. ASSUME NEW op, op.what \in {"totals", "handshake", "meet", "answer", "create"}
        PROVE  NextOp(r, op, e) = OpAfter(r, op)
    BY <1>5 DEF NextOp
  <1>6. AfterInDomain(r, Global) = FirstOr("info", LocalGrids(file, r), Check)
    BY DEF AfterInDomain, Op, Global, Check, Totals, Announce, Meet, Answer, Create
  <1>7. AfterInDomain(r, Check) = Totals
    BY DEF AfterInDomain, Op, Global, Check, Totals, Announce, Meet, Answer, Create
  <1>8. AfterInDomain(r, Totals) = Announce
    BY DEF AfterInDomain, Op, Global, Check, Totals, Announce, Meet, Answer, Create
  <1>9. AfterInDomain(r, Announce) = Meet
    BY DEF AfterInDomain, Op, Global, Check, Totals, Announce, Meet, Answer, Create
  <1>10. AfterInDomain(r, Meet) = Answer
    BY DEF AfterInDomain, Op, Global, Check, Totals, Announce, Meet, Answer, Create
  <1>11. AfterInDomain(r, Answer) = FirstOr("hash", LocalGrids(file, r), Create)
    BY DEF AfterInDomain, Op, Global, Check, Totals, Announce, Meet, Answer, Create
  <1>12. AfterInDomain(r, Create) = Out
    BY DEF AfterInDomain, Op, Global, Check, Totals, Announce, Meet, Answer, Create
  <1> QED
    BY <1>1, <1>2, <1>3, <1>4, <1>5, <1>6, <1>7, <1>8, <1>9, <1>10, <1>11, <1>12

\* Which operations everybody leaves with an error.
LEMMA FatalInGrid ==
    ASSUME NEW g
    PROVE  /\ Fatal(Op("info", g, "")) <=> InfoFails(g)
           /\ \A side : Fatal(Op("agree", g, side)) <=> SideFails(g, side)
           /\ \A what \in {"size", "read"} : \A side :
                Fatal(Op(what, g, side)) <=> Fails(Op(what, g, side))
           /\ \A what \in {"split", "hash", "handshake", "deliver"} : \A side : ~Fatal(Op(what, g, side))
  <1>1. \A what, s : Op(what, g, s).what = what /\ Op(what, g, s).grid = g /\ Op(what, g, s).side = s
    BY DEF Op
  <1>2. ASSUME NEW op, op.what \in {"info", "size", "read"} PROVE Fatal(op) <=> Fails(op)
    BY <1>2 DEF Fatal
  <1>3. ASSUME NEW op, op.what = "agree" PROVE Fatal(op) <=> SideFails(op.grid, op.side)
    BY <1>3 DEF Fatal
  <1>4. ASSUME NEW op, op.what \in {"split", "hash", "handshake", "deliver"} PROVE ~Fatal(op)
    BY <1>4 DEF Fatal
  <1>5. Fatal(Op("info", g, "")) <=> InfoFails(g)
    <2>1. \A op : op.what = "info" => (Fatal(op) <=> Fails(op))
      BY <1>2
    <2> QED
      BY <1>1, <2>1 DEF InfoFails
  <1>6. \A side : Fatal(Op("agree", g, side)) <=> SideFails(g, side)
    BY <1>1, <1>3
  <1>7. ASSUME NEW what \in {"size", "read"}, NEW side
        PROVE  Fatal(Op(what, g, side)) <=> Fails(Op(what, g, side))
    BY <1>1, <1>2
  <1>8. ASSUME NEW what \in {"split", "hash", "handshake", "deliver"}, NEW side
        PROVE  ~Fatal(Op(what, g, side))
    BY <1>1, <1>4
  <1> QED
    BY <1>5, <1>6, <1>7, <1>8

LEMMA FatalInDomain ==
    /\ Fatal(Global) <=> GlobalFails
    /\ Fatal(Check) <=> AnyGridFails
    /\ ~Fatal(Totals) /\ ~Fatal(Announce) /\ ~Fatal(Meet) /\ ~Fatal(Answer) /\ ~Fatal(Create)
  <1>1. /\ Global.what = "global" /\ Check.what = "check" /\ Totals.what = "totals"
        /\ Announce.what = "handshake" /\ Meet.what = "meet" /\ Answer.what = "answer"
        /\ Create.what = "create"
    BY DEF Op, Global, Check, Totals, Announce, Meet, Answer, Create
  <1> QED
    BY <1>1 DEF Fatal, GlobalFails

\* A side of a grid has four parts of the program in a row.
SidePart(r, g, side, p) ==
    /\ p = 0 <=> side = "donors"
    /\ IsAt(Op("split", g, side), 1, g, p + 1) /\ IsAt(Op("size", g, side), 1, g, p + 2)
    /\ IsAt(Op("read", g, side), 1, g, p + 3) /\ IsAt(Op("agree", g, side), 1, g, p + 4)
    /\ Canon(1, g, p + 2) = Op("size", g, side) /\ Canon(1, g, p + 3) = Op("read", g, side)
    /\ \A op, q : IsAt(op, 1, g, q) /\ q \in p + 1 .. p + 4 =>
         (Reaches(r, op) <=>
            /\ ~GlobalFails /\ ~InfoFails(g)
            /\ \A h \in LocalGrids(file, r) : h < g => ~GridFails(h)
            /\ p = 4 => ~SideFails(g, "donors")
            /\ q = p + 3 => ~Fails(Op("size", g, side)))

LEMMA SideParts ==
    ASSUME file \in Files, NEW r, NEW g \in Grids(file), NEW side \in Sides
    PROVE  \E p \in {0, 4} : SidePart(r, g, side, p)
  <1>1. g \in Nat /\ g > 0
    BY FileFacts
  <1>2. CASE side = "donors"
    <2>1. /\ IsAt(Op("split", g, side), 1, g, 1) /\ IsAt(Op("size", g, side), 1, g, 2)
          /\ IsAt(Op("read", g, side), 1, g, 3) /\ IsAt(Op("agree", g, side), 1, g, 4)
      BY <1>1, <1>2, GridPlaces
    <2>2. Canon(1, g, 2) = Op("size", g, side) /\ Canon(1, g, 3) = Op("read", g, side)
      BY <1>2 DEF Canon
    <2>3. ASSUME NEW op, NEW q, IsAt(op, 1, g, q), q \in 1 .. 4
          PROVE  Reaches(r, op) <=>
                     /\ ~GlobalFails /\ ~InfoFails(g)
                     /\ \A h \in LocalGrids(file, r) : h < g => ~GridFails(h)
                     /\ q = 3 => ~Fails(Op("size", g, side))
      BY <1>2, <2>3 DEF Reaches, IsAt
    <2> QED
      BY <1>2, <2>1, <2>2, <2>3 DEF SidePart
  <1>3. CASE side = "receivers"
    <2>1. /\ IsAt(Op("split", g, side), 1, g, 5) /\ IsAt(Op("size", g, side), 1, g, 6)
          /\ IsAt(Op("read", g, side), 1, g, 7) /\ IsAt(Op("agree", g, side), 1, g, 8)
      BY <1>1, <1>3, GridPlaces
    <2>2. Canon(1, g, 6) = Op("size", g, side) /\ Canon(1, g, 7) = Op("read", g, side)
      BY <1>3 DEF Canon
    <2>3. ASSUME NEW op, NEW q, IsAt(op, 1, g, q), q \in 5 .. 8
          PROVE  Reaches(r, op) <=>
                     /\ ~GlobalFails /\ ~InfoFails(g)
                     /\ \A h \in LocalGrids(file, r) : h < g => ~GridFails(h)
                     /\ ~SideFails(g, "donors")
                     /\ q = 7 => ~Fails(Op("size", g, side))
      BY <1>3, <2>3 DEF Reaches, IsAt
    <2> QED
      BY <1>3, <2>1, <2>2, <2>3 DEF SidePart
  <1> QED
    BY <1>2, <1>3 DEF Sides

\* An operation leads on if its program has led the rank there and it leaves it with an error
\* exactly where everybody does.
Forward(r, op, e) ==
    r \in Members(file, op) /\ Reaches(r, op) /\ (e # "none" <=> Fatal(op))
        => Leads(r, op, NextOp(r, op, e), e)

\* What there is to show of an operation that does not read the number of connections.
LEMMA LeadsBy ==
    ASSUME NEW r, NEW op, NEW e, NEW n \in Ops, n # Out, n.what # "info",
           r \in Members(file, n), Reaches(r, n), e # "none" <=> Erring(r, n),
           \A b \in Ops : r \in Members(file, b) /\ Reaches(r, b) => ~(Earlier(op, b) /\ Earlier(b, n))
    PROVE  Leads(r, op, n, e)
  BY DEF Leads, Found

LEMMA LeadsOut ==
    ASSUME NEW r, NEW op, NEW e, e # "none" <=> GlobalFails \/ AnyGridFails,
           \A b \in Ops : r \in Members(file, b) /\ Reaches(r, b) => ~Earlier(op, b)
    PROVE  Leads(r, op, Out, e)
  <1>1. Out.what # "info"
    BY DEF Out, Op
  <1> QED
    BY <1>1, ErringInDomain DEF Leads, Found
-----------------------------------------------------------------------------
\* Where each operation leads a rank that its program has led there, if it
\* leaves it with an error exactly where everybody does.
LEMMA GlobalLeads ==
    ASSUME file \in Files, NEW r \in Ranks, NEW e, e # "none" <=> Fatal(Global)
    PROVE  Leads(r, Global, NextOp(r, Global, e), e)
  <1>1. e # "none" <=> GlobalFails
    BY FatalInDomain
  <1>2. ASSUME NEW b \in Ops, Earlier(Global, b) PROVE Located(b) /\ Phase(b) > 0
    <2>1. Located(b) /\ IsAt(Global, 0, 0, 0)
      BY OpFacts, DomainPlaces
    <2> QED
      BY <1>2, <2>1 DEF Located, Earlier, IsAt
  <1>3. CASE e # "none"
    <2>1. NextOp(r, Global, e) = Out
      BY <1>3, NextInDomain
    <2>2. ASSUME NEW b \in Ops, Reaches(r, b) PROVE ~Earlier(Global, b)
      BY <1>1, <1>2, <1>3, <2>2 DEF Reaches
    <2> QED
      BY <1>1, <1>3, <2>1, <2>2, LeadsOut
  <1>4. CASE e = "none"
    <2> DEFINE gs == LocalGrids(file, r)
               n == FirstOr("info", gs, Check)
    <2>1. NextOp(r, Global, e) = n
      BY <1>4, NextInDomain
    <2>2. gs = {h \in LocalGrids(file, r) : h > 0} /\ \A h \in LocalGrids(file, r) : ~(h <= 0)
      <3>1. \A h \in LocalGrids(file, r) : h \in Nat /\ h > 0
        BY FileFacts DEF LocalGrids
      <3> QED
        BY <3>1
    <2> HIDE DEF gs
    <2>3. /\ n \in Ops /\ n # Out /\ r \in Members(file, n) /\ Reaches(r, n)
          /\ Found(r, n, "none") # "none" <=> Erring(r, n)
          /\ \A b \in Ops : r \in Members(file, b) /\ Phase(b) >= 1 /\ (Phase(b) = 1 => b.grid > 0)
               => ~Earlier(b, n)
      BY <1>1, <1>4, <2>2, OnToReading
    <2> HIDE DEF n
    <2>4. ASSUME NEW b \in Ops, r \in Members(file, b), Earlier(Global, b), Earlier(b, n) PROVE FALSE
      BY <1>2, <2>3, <2>4 DEF Located
    <2> QED
      BY <1>4, <2>1, <2>3, <2>4 DEF Leads
  <1> QED
    BY <1>3, <1>4

\* An error in what is read of a grid leads to "check".
LEMMA LeadsToCheck ==
    ASSUME file \in Files, NEW r \in Ranks, NEW op \in Ops, NEW e, e # "none", Phase(op) = 1,
           r \in Members(file, op), Reaches(r, op), GridFails(op.grid),
           \A b \in Ops : Phase(b) = 1 /\ b.grid = op.grid /\ PartOf(b) > PartOf(op) => ~Reaches(r, b)
    PROVE  Leads(r, op, Check, e)
  <1>1. Located(op) /\ IsAt(Check, 2, 0, 0)
    BY OpFacts, DomainPlaces
  <1>2. op.grid \in LocalGrids(file, r)
    BY <1>1, MemberLocal DEF Located
  <1>3. Check \in Ops /\ Check # Out /\ Check.what # "info" /\ r \in Members(file, Check)
    BY <1>1, OpsThere, DomainMembers DEF Check, Out, Op, IsAt
  <1>4. Reaches(r, Check)
    BY <1>1 DEF Reaches, IsAt
  <1>5. Erring(r, Check)
    BY <1>2, ErringInDomain
  <1>6. ASSUME NEW b \in Ops, r \in Members(file, b), Reaches(r, b), Earlier(op, b), Earlier(b, Check)
        PROVE  FALSE
    <2>1. Located(b)
      BY OpFacts
    <2>2. Phase(b) = 1 /\ b.grid # 0
      BY <1>1, <1>6, <2>1 DEF Located, Earlier, IsAt
    <2>3. b.grid \in LocalGrids(file, r)
      BY <1>6, <2>2, MemberLocal
    <2>4. CASE b.grid > op.grid
      BY <1>2, <1>6, <2>2, <2>4 DEF Reaches
    <2>5. CASE b.grid = op.grid /\ PartOf(b) > PartOf(op)
      BY <1>6, <2>2, <2>5
    <2> QED
      BY <1>1, <1>6, <2>1, <2>2, <2>4, <2>5 DEF Located, Earlier
  <1> QED
    BY <1>3, <1>4, <1>5, <1>6, LeadsBy

\* To the next part of what is done for a grid.
LEMMA LeadsOn ==
    ASSUME file \in Files, NEW r, NEW g \in Nat, NEW op, NEW n \in Ops, NEW phase \in Nat, NEW p \in Nat,
           IsAt(op, phase, g, p), IsAt(n, phase, g, p + 1), n # Out, n.what # "info",
           r \in Members(file, n), Reaches(r, n), NEW e, e # "none" <=> Erring(r, n)
    PROVE  Leads(r, op, n, e)
  <1>1. ASSUME NEW b \in Ops, Earlier(op, b), Earlier(b, n) PROVE FALSE
    <2>1. Located(b)
      BY OpFacts
    <2> QED
      BY <1>1, <2>1 DEF Located, Earlier, IsAt
  <1> QED
    BY <1>1, LeadsBy

LEMMA SplitReached ==
    ASSUME NEW r, NEW g \in Nat, NEW op, NEW n, IsAt(op, 1, g, 0), IsAt(n, 1, g, 1),
           Reaches(r, op), ~InfoFails(g)
    PROVE  Reaches(r, n)
  BY DEF Reaches, IsAt

LEMMA InfoLeads ==
    ASSUME file \in Files, NEW r \in Ranks, NEW g \in Grids(file), NEW e
    PROVE  Forward(r, Op("info", g, ""), e)
  <1> DEFINE op == Op("info", g, "")
             n == Op("split", g, "donors")
  <1>1. op \in Ops
    BY OpsThere DEF InGrid
  <1>2. g \in Nat /\ g > 0
    BY FileFacts
  <1>3. IsAt(op, 1, g, 0) /\ IsAt(n, 1, g, 1)
    BY <1>2, GridPlaces
  <1>4. Fatal(op) <=> InfoFails(g)
    BY FatalInGrid
  <1>5. /\ e # "none" => NextOp(r, op, e) = Check
        /\ e = "none" => NextOp(r, op, e) = n
    BY NextOfInfo
  <1>6. n \in Ops
    BY OpsThere DEF InSide, Sides
  <1>7. n # Out /\ n.what # "info"
    BY DEF Out, Op
  <1>8. r \in Members(file, op) => r \in Members(file, n)
    BY GridMembers
  <1>9. ~Erring(r, n)
    BY ErringInGrid
  <1> HIDE DEF op, n
  <1>10. CASE e # "none"
    <2>1. SUFFICES ASSUME r \in Members(file, op), Reaches(r, op), InfoFails(g)
                   PROVE  Leads(r, op, Check, e)
      BY <1>4, <1>5, <1>10 DEF Forward, op
    <2>2. GridFails(op.grid) /\ Phase(op) = 1
      BY <1>3, <2>1 DEF IsAt, GridFails
    <2>3. ASSUME NEW b \in Ops, Phase(b) = 1, b.grid = op.grid, PartOf(b) > PartOf(op)
          PROVE  ~Reaches(r, b)
      BY <1>3, <2>1, <2>3 DEF Reaches, IsAt
    <2> QED
      BY <1>1, <1>10, <2>1, <2>2, <2>3, LeadsToCheck
  <1>11. CASE e = "none"
    <2>1. SUFFICES ASSUME r \in Members(file, op), Reaches(r, op), ~InfoFails(g)
                   PROVE  Leads(r, op, n, e)
      BY <1>4, <1>5, <1>11 DEF Forward, op
    <2>2. Reaches(r, n)
      BY <1>2, <1>3, <2>1, SplitReached
    <2> QED
      BY <1>2, <1>3, <1>6, <1>7, <1>8, <1>9, <1>11, <2>1, <2>2, LeadsOn
  <1> QED
    BY <1>10, <1>11 DEF op

\* The reading of a side, wherever the operations of the side are in the program.
LEMMA SplitLeads ==
    ASSUME file \in Files, NEW r \in Ranks, NEW g \in Grids(file), NEW side \in Sides, NEW e
    PROVE  Forward(r, Op("split", g, side), e)
  <1> DEFINE op == Op("split", g, side)
             size == Op("size", g, side)
             agree == Op("agree", g, side)
             read == Op("read", g, side)
  <1>1. g \in Nat /\ g > 0
    BY FileFacts
  <1>2. ~Fatal(op) /\ ~Erring(r, size) /\ (~HasChunk(file, r, g, side) => ~Erring(r, agree))
    BY FatalInGrid, ErringInGrid
  <1>3. /\ HasChunk(file, r, g, side) => NextOp(r, op, e) = size
        /\ ~HasChunk(file, r, g, side) => NextOp(r, op, e) = agree
    BY NextOfSplit
  <1>4. size \in Ops /\ agree \in Ops
    BY OpsThere DEF InSide
  <1>5. size # Out /\ size.what # "info" /\ agree # Out /\ agree.what # "info"
    BY DEF Out, Op
  <1>6. /\ r \in Members(file, op) /\ HasChunk(file, r, g, side) => r \in Members(file, size)
        /\ r \in Members(file, op) => r \in Members(file, agree)
        /\ r \in Members(file, size) => HasChunk(file, r, g, side)
        /\ r \in Members(file, read) => HasChunk(file, r, g, side)
    BY GridMembers
  <1>p. PICK p \in {0, 4} : SidePart(r, g, side, p)
    BY SideParts
  <1>7. /\ IsAt(op, 1, g, p + 1) /\ IsAt(size, 1, g, p + 2) /\ IsAt(agree, 1, g, p + 4)
        /\ Canon(1, g, p + 2) = size /\ Canon(1, g, p + 3) = read
        /\ \A o, q : IsAt(o, 1, g, q) /\ q \in p + 1 .. p + 4 =>
             (Reaches(r, o) <=>
                /\ ~GlobalFails /\ ~InfoFails(g)
                /\ \A h \in LocalGrids(file, r) : h < g => ~GridFails(h)
                /\ p = 4 => ~SideFails(g, "donors")
                /\ q = p + 3 => ~Fails(Op("size", g, side)))
    BY <1>p DEF SidePart
  <1> HIDE DEF op, size, agree, read
  <1>8. Reaches(r, op) => Reaches(r, size) /\ Reaches(r, agree)
    BY <1>7
  <1>9. CASE HasChunk(file, r, g, side)
    <2>1. SUFFICES ASSUME r \in Members(file, op), Reaches(r, op), e = "none"
                   PROVE  Leads(r, op, size, e)
      BY <1>2, <1>3, <1>9 DEF Forward, op
    <2> QED
      BY <1>1, <1>2, <1>4, <1>5, <1>6, <1>7, <1>8, <1>9, <2>1, LeadsOn
  <1>10. CASE ~HasChunk(file, r, g, side)
    <2>1. SUFFICES ASSUME r \in Members(file, op), Reaches(r, op), e = "none"
                   PROVE  Leads(r, op, agree, e)
      BY <1>2, <1>3, <1>10 DEF Forward, op
    <2>2. ASSUME NEW b \in Ops, r \in Members(file, b), Earlier(op, b), Earlier(b, agree) PROVE FALSE
      <3>1. Located(b)
        BY OpFacts
      <3>2. Phase(b) = 1 /\ b.grid = g /\ PartOf(b) \in {p + 2, p + 3}
        BY <1>1, <1>7, <2>2, <3>1 DEF Located, Earlier, IsAt
      <3>3. b = size \/ b = read
        BY <1>7, <3>1, <3>2 DEF Located
      <3> QED
        BY <1>6, <1>10, <2>2, <3>3
    <2> QED
      BY <1>2, <1>4, <1>5, <1>6, <1>8, <1>10, <2>1, <2>2, LeadsBy
  <1> QED
    BY <1>9, <1>10 DEF op

LEMMA SizeLeads ==
    ASSUME file \in Files, NEW r \in Ranks, NEW g \in Grids(file), NEW side \in Sides, NEW e
    PROVE  Forward(r, Op("size", g, side), e)
  <1> DEFINE op == Op("size", g, side)
             agree == Op("agree", g, side)
             read == Op("read", g, side)
  <1>1. g \in Nat /\ g > 0
    BY FileFacts
  <1>2. /\ Fatal(op) <=> Fails(op)
        /\ ~Erring(r, read)
        /\ Erring(r, agree) <=> HasChunk(file, r, g, side) /\ SideFails(g, side)
    BY FatalInGrid, ErringInGrid
  <1>3. /\ e = "none" => NextOp(r, op, e) = read
        /\ e # "none" => NextOp(r, op, e) = agree
    BY NextOfSize
  <1>4. read \in Ops /\ agree \in Ops
    BY OpsThere DEF InSide
  <1>5. read # Out /\ read.what # "info" /\ agree # Out /\ agree.what # "info"
    BY DEF Out, Op
  <1>6. r \in Members(file, op) =>
          r \in Members(file, read) /\ r \in Members(file, agree) /\ HasChunk(file, r, g, side)
    BY GridMembers
  <1>7. Fails(op) => SideFails(g, side)
    BY DEF SideFails
  <1>p. PICK p \in {0, 4} : SidePart(r, g, side, p)
    BY SideParts
  <1>8. /\ IsAt(op, 1, g, p + 2) /\ IsAt(read, 1, g, p + 3) /\ IsAt(agree, 1, g, p + 4)
        /\ \A o, q : IsAt(o, 1, g, q) /\ q \in p + 1 .. p + 4 =>
             (Reaches(r, o) <=>
                /\ ~GlobalFails /\ ~InfoFails(g)
                /\ \A h \in LocalGrids(file, r) : h < g => ~GridFails(h)
                /\ p = 4 => ~SideFails(g, "donors")
                /\ q = p + 3 => ~Fails(op))
    BY <1>p DEF SidePart
  <1> HIDE DEF op, agree, read
  <1>9. CASE e = "none"
    <2>1. SUFFICES ASSUME r \in Members(file, op), Reaches(r, op), ~Fails(op)
                   PROVE  Leads(r, op, read, e)
      BY <1>2, <1>3, <1>9 DEF Forward, op
    <2>2. Reaches(r, read)
      BY <1>8, <2>1
    <2> QED
      BY <1>1, <1>2, <1>4, <1>5, <1>6, <1>8, <1>9, <2>1, <2>2, LeadsOn
  <1>10. CASE e # "none"
    <2>1. SUFFICES ASSUME r \in Members(file, op), Reaches(r, op), Fails(op)
                   PROVE  Leads(r, op, agree, e)
      BY <1>2, <1>3, <1>10 DEF Forward, op
    <2>2. Reaches(r, agree)
      BY <1>8, <2>1
    <2>3. ASSUME NEW b \in Ops, Reaches(r, b), Earlier(op, b), Earlier(b, agree) PROVE FALSE
      <3>1. Located(b)
        BY OpFacts
      <3>2. IsAt(b, 1, g, p + 3)
        BY <1>1, <1>8, <2>3, <3>1 DEF Located, Earlier, IsAt
      <3> QED
        BY <1>8, <2>1, <2>3, <3>2
    <2> QED
      BY <1>2, <1>4, <1>5, <1>6, <1>7, <1>10, <2>1, <2>2, <2>3, LeadsBy
  <1> QED
    BY <1>9, <1>10 DEF op

LEMMA ReadLeads ==
    ASSUME file \in Files, NEW r \in Ranks, NEW g \in Grids(file), NEW side \in Sides, NEW e
    PROVE  Forward(r, Op("read", g, side), e)
  <1> DEFINE op == Op("read", g, side)
             agree == Op("agree", g, side)
  <1>1. g \in Nat /\ g > 0
    BY FileFacts
  <1>2. /\ Fatal(op) <=> Fails(op)
        /\ Erring(r, agree) <=> HasChunk(file, r, g, side) /\ SideFails(g, side)
    BY FatalInGrid, ErringInGrid
  <1>3. NextOp(r, op, e) = agree
    BY NextOfRead
  <1>4. agree \in Ops
    BY OpsThere DEF InSide
  <1>5. agree # Out /\ agree.what # "info"
    BY DEF Out, Op
  <1>6. r \in Members(file, op) => r \in Members(file, agree) /\ HasChunk(file, r, g, side)
    BY GridMembers
  <1>7. ~Fails(Op("size", g, side)) => (SideFails(g, side) <=> Fails(op))
    BY DEF SideFails
  <1>p. PICK p \in {0, 4} : SidePart(r, g, side, p)
    BY SideParts
  <1>8. /\ IsAt(op, 1, g, p + 3) /\ IsAt(agree, 1, g, p + 4)
        /\ \A o, q : IsAt(o, 1, g, q) /\ q \in p + 1 .. p + 4 =>
             (Reaches(r, o) <=>
                /\ ~GlobalFails /\ ~InfoFails(g)
                /\ \A h \in LocalGrids(file, r) : h < g => ~GridFails(h)
                /\ p = 4 => ~SideFails(g, "donors")
                /\ q = p + 3 => ~Fails(Op("size", g, side)))
    BY <1>p DEF SidePart
  <1> HIDE DEF op, agree
  <1>9. Reaches(r, op) => ~Fails(Op("size", g, side)) /\ Reaches(r, agree)
    BY <1>8
  <1>10. SUFFICES ASSUME r \in Members(file, op), Reaches(r, op), e # "none" <=> Fails(op)
                  PROVE  Leads(r, op, agree, e)
    BY <1>2, <1>3 DEF Forward, op
  <1>11. e # "none" <=> Erring(r, agree)
    BY <1>2, <1>6, <1>7, <1>9, <1>10
  <1> QED
    BY <1>1, <1>4, <1>5, <1>6, <1>8, <1>9, <1>10, <1>11, LeadsOn

\* What is agreed of the donors leads to the receivers, what is agreed of them to the next grid.
LEMMA DonorsLead ==
    ASSUME file \in Files, NEW r \in Ranks, NEW g \in Grids(file), NEW e
    PROVE  Forward(r, Op("agree", g, "donors"), e)
  <1> DEFINE op == Op("agree", g, "donors")
             n == Op("split", g, "receivers")
  <1>1. g \in Nat /\ g > 0
    BY FileFacts
  <1>2. /\ Fatal(op) <=> SideFails(g, "donors")
        /\ ~Erring(r, n)
    BY FatalInGrid, ErringInGrid
  <1>3. /\ e # "none" => NextOp(r, op, e) = Check
        /\ e = "none" => NextOp(r, op, e) = n
    BY NextOfDonors
  <1>4. op \in Ops /\ n \in Ops
    BY OpsThere DEF InSide, Sides
  <1>5. n # Out /\ n.what # "info"
    BY DEF Out, Op
  <1>6. r \in Members(file, op) => r \in Members(file, n)
    BY GridMembers
  <1>7. IsAt(op, 1, g, 4) /\ IsAt(n, 1, g, 5)
    BY <1>1, GridPlaces
  <1> HIDE DEF op, n
  <1>8. CASE e # "none"
    <2>1. SUFFICES ASSUME r \in Members(file, op), Reaches(r, op), SideFails(g, "donors")
                   PROVE  Leads(r, op, Check, e)
      BY <1>2, <1>3, <1>8 DEF Forward, op
    <2>2. GridFails(op.grid) /\ Phase(op) = 1
      BY <1>7, <2>1 DEF IsAt, GridFails
    <2>3. ASSUME NEW b \in Ops, Phase(b) = 1, b.grid = op.grid, PartOf(b) > PartOf(op)
          PROVE  ~Reaches(r, b)
      BY <1>7, <2>1, <2>3 DEF Reaches, IsAt
    <2> QED
      BY <1>4, <1>8, <2>1, <2>2, <2>3, LeadsToCheck
  <1>9. CASE e = "none"
    <2>1. SUFFICES ASSUME r \in Members(file, op), Reaches(r, op), ~SideFails(g, "donors")
                   PROVE  Leads(r, op, n, e)
      BY <1>2, <1>3, <1>9 DEF Forward, op
    <2>2. Reaches(r, n)
      BY <1>1, <1>7, <2>1 DEF Reaches, IsAt
    <2> QED
      BY <1>1, <1>2, <1>4, <1>5, <1>6, <1>7, <1>9, <2>1, <2>2, LeadsOn
  <1> QED
    BY <1>8, <1>9 DEF op

LEMMA ReceiversLead ==
    ASSUME file \in Files, NEW r \in Ranks, NEW g \in Grids(file), NEW e
    PROVE  Forward(r, Op("agree", g, "receivers"), e)
  <1> DEFINE op == Op("agree", g, "receivers")
             n == FirstOr("info", Later(r, g), Check)
  <1>1. g \in Nat /\ g > 0
    BY FileFacts
  <1>2. Fatal(op) <=> SideFails(g, "receivers")
    BY FatalInGrid
  <1>3. /\ e # "none" => NextOp(r, op, e) = Check
        /\ e = "none" => NextOp(r, op, e) = n
    BY NextOfReceivers
  <1>4. op \in Ops
    BY OpsThere DEF InSide, Sides
  <1>5. IsAt(op, 1, g, 8)
    BY <1>1, GridPlaces
  <1> HIDE DEF op
  <1>6. CASE e # "none"
    <2>1. SUFFICES ASSUME r \in Members(file, op), Reaches(r, op), SideFails(g, "receivers")
                   PROVE  Leads(r, op, Check, e)
      BY <1>2, <1>3, <1>6 DEF Forward, op
    <2>2. GridFails(op.grid) /\ Phase(op) = 1
      BY <1>5, <2>1 DEF IsAt, GridFails
    <2>3. ASSUME NEW b \in Ops, Phase(b) = 1, b.grid = op.grid, PartOf(b) > PartOf(op)
          PROVE  FALSE
      <3>1. Located(b)
        BY OpFacts
      <3> QED
        BY <1>5, <2>3, <3>1 DEF Located, IsAt
    <2> QED
      BY <1>4, <1>6, <2>1, <2>2, <2>3, LeadsToCheck
  <1>7. CASE e = "none"
    <2>1. SUFFICES ASSUME r \in Members(file, op), Reaches(r, op), ~SideFails(g, "receivers")
                   PROVE  Leads(r, op, n, e)
      BY <1>2, <1>3, <1>7 DEF Forward, op
    <2>2. /\ ~GlobalFails /\ ~InfoFails(g) /\ ~SideFails(g, "donors")
          /\ \A h \in LocalGrids(file, r) : h < g => ~GridFails(h)
      BY <1>5, <2>1 DEF Reaches, IsAt
    <2>3. ASSUME NEW h \in LocalGrids(file, r), h <= g PROVE ~GridFails(h)
      <3>1. h \in Nat
        BY FileFacts DEF LocalGrids
      <3>2. CASE h < g
        BY <2>2, <3>2
      <3>3. CASE h = g
        BY <2>1, <2>2, <3>3 DEF GridFails
      <3> QED
        BY <1>1, <2>3, <3>1, <3>2, <3>3
    <2>4. /\ n \in Ops /\ n # Out /\ r \in Members(file, n) /\ Reaches(r, n)
          /\ Found(r, n, "none") # "none" <=> Erring(r, n)
          /\ \A b \in Ops : r \in Members(file, b) /\ Phase(b) >= 1 /\ (Phase(b) = 1 => b.grid > g)
               => ~Earlier(b, n)
      BY <1>1, <2>2, <2>3, OnToReading DEF Later
    <2> HIDE DEF n
    <2>5. ASSUME NEW b \in Ops, r \in Members(file, b), Earlier(op, b), Earlier(b, n) PROVE FALSE
      <3>1. Located(b)
        BY OpFacts
      <3>2. Phase(b) >= 1 /\ (Phase(b) = 1 => b.grid > g)
        BY <1>1, <1>5, <2>5, <3>1 DEF Located, Earlier, IsAt
      <3> QED
        BY <2>4, <2>5, <3>2
    <2> QED
      BY <1>7, <2>4, <2>5 DEF Leads
  <1> QED
    BY <1>6, <1>7 DEF op

\* The operations of the domain lead from one to the next.
LEMMA DomainLeads ==
    ASSUME file \in Files, NEW r \in Ranks, NEW op, NEW n \in Ops, NEW phase \in 2 .. 5,
           IsAt(op, phase, 0, 0), IsAt(n, phase + 1, 0, 0),
           n # Out, n.what # "info", ~Erring(r, n), NEW e, e = "none",
           Reaches(r, op), phase = 2 => ~AnyGridFails
    PROVE  Leads(r, op, n, e)
  <1>1. r \in Members(file, n)
    BY DomainMembers DEF IsAt
  <1>2. Reaches(r, n)
    BY DEF Reaches, IsAt
  <1>3. ASSUME NEW b \in Ops, Earlier(op, b), Earlier(b, n) PROVE FALSE
    <2>1. Located(b)
      BY OpFacts
    <2> QED
      BY <1>3, <2>1 DEF Located, Earlier, IsAt
  <1> QED
    BY <1>1, <1>2, <1>3, LeadsBy

LEMMA CheckLeads ==
    ASSUME file \in Files, NEW r \in Ranks, NEW e
    PROVE  Forward(r, Check, e)
  <1>1. IsAt(Check, 2, 0, 0) /\ IsAt(Totals, 3, 0, 0) /\ Totals \in Ops
    BY DomainPlaces, OpsThere
  <1>2. Totals # Out /\ Totals.what # "info"
    BY DEF Totals, Out, Op
  <1>3. (Fatal(Check) <=> AnyGridFails) /\ ~Erring(r, Totals)
    BY FatalInDomain, ErringInDomain
  <1>4. SUFFICES ASSUME Reaches(r, Check), e # "none" <=> AnyGridFails
                 PROVE  Leads(r, Check, NextOp(r, Check, e), e)
    BY <1>3 DEF Forward
  <1>5. CASE e # "none"
    <2>1. NextOp(r, Check, e) = Out
      BY <1>5, NextInDomain
    <2>2. ASSUME NEW b \in Ops, Reaches(r, b), Earlier(Check, b) PROVE FALSE
      <3>1. Located(b)
        BY OpFacts
      <3>2. Phase(b) > 2
        BY <1>1, <2>2, <3>1 DEF Located, Earlier, IsAt
      <3> QED
        BY <1>4, <1>5, <2>2, <3>2 DEF Reaches
    <2> QED
      BY <1>4, <1>5, <2>1, <2>2, LeadsOut
  <1>6. CASE e = "none"
    <2>1. NextOp(r, Check, e) = Totals
      BY <1>6, NextInDomain
    <2> QED
      BY <1>1, <1>2, <1>3, <1>4, <1>6, <2>1, DomainLeads
  <1> QED
    BY <1>5, <1>6

LEMMA MeetingLeads ==
    ASSUME file \in Files, NEW r \in Ranks, NEW e
    PROVE  Forward(r, Totals, e) /\ Forward(r, Announce, e) /\ Forward(r, Meet, e)
  <1>1. /\ IsAt(Totals, 3, 0, 0) /\ IsAt(Announce, 4, 0, 0) /\ IsAt(Meet, 5, 0, 0)
        /\ IsAt(Answer, 6, 0, 0)
    BY DomainPlaces
  <1>2. Announce \in Ops /\ Meet \in Ops /\ Answer \in Ops
    BY OpsThere
  <1>3. Announce # Out /\ Meet # Out /\ Answer # Out
    BY DEF Announce, Meet, Answer, Out, Op
  <1>4. Announce.what # "info" /\ Meet.what # "info" /\ Answer.what # "info"
    BY DEF Announce, Meet, Answer, Op
  <1>5. ~Erring(r, Announce) /\ ~Erring(r, Meet) /\ ~Erring(r, Answer)
    BY ErringInDomain
  <1>6. ~Fatal(Totals) /\ ~Fatal(Announce) /\ ~Fatal(Meet)
    BY FatalInDomain
  <1>7. NextOp(r, Totals, e) = Announce /\ NextOp(r, Announce, e) = Meet /\ NextOp(r, Meet, e) = Answer
    BY NextInDomain
  <1>8. Forward(r, Totals, e)
    <2>1. SUFFICES ASSUME Reaches(r, Totals), e = "none" PROVE Leads(r, Totals, Announce, e)
      BY <1>6, <1>7 DEF Forward
    <2> QED
      BY <1>1, <1>2, <1>3, <1>4, <1>5, <2>1, DomainLeads
  <1>9. Forward(r, Announce, e)
    <2>1. SUFFICES ASSUME Reaches(r, Announce), e = "none" PROVE Leads(r, Announce, Meet, e)
      BY <1>6, <1>7 DEF Forward
    <2> QED
      BY <1>1, <1>2, <1>3, <1>4, <1>5, <2>1, DomainLeads
  <1>10. Forward(r, Meet, e)
    <2>1. SUFFICES ASSUME Reaches(r, Meet), e = "none" PROVE Leads(r, Meet, Answer, e)
      BY <1>6, <1>7 DEF Forward
    <2> QED
      BY <1>1, <1>2, <1>3, <1>4, <1>5, <2>1, DomainLeads
  <1> QED
    BY <1>8, <1>9, <1>10

\* The records are spread grid by grid.
LEMMA AnswerLeads ==
    ASSUME file \in Files, NEW r \in Ranks, NEW e
    PROVE  Forward(r, Answer, e)
  <1> DEFINE gs == LocalGrids(file, r)
             n == FirstOr("hash", gs, Create)
  <1>1. IsAt(Answer, 6, 0, 0) /\ ~Fatal(Answer) /\ NextOp(r, Answer, e) = n
    BY DomainPlaces, FatalInDomain, NextInDomain
  <1>2. gs = {h \in LocalGrids(file, r) : h > 0}
    <2>1. \A h \in LocalGrids(file, r) : h \in Nat /\ h > 0
      BY FileFacts DEF LocalGrids
    <2> QED
      BY <2>1
  <1> HIDE DEF gs
  <1>3. SUFFICES ASSUME Reaches(r, Answer), e = "none" PROVE Leads(r, Answer, n, e)
    BY <1>1 DEF Forward
  <1>4. ~GlobalFails /\ ~AnyGridFails
    BY <1>1, <1>3 DEF Reaches, IsAt
  <1>5. /\ n \in Ops /\ n # Out /\ r \in Members(file, n) /\ Reaches(r, n)
        /\ Found(r, n, "none") # "none" <=> Erring(r, n)
        /\ \A b \in Ops : r \in Members(file, b) /\ Phase(b) >= 7 /\ (Phase(b) = 7 => b.grid > 0)
             => ~Earlier(b, n)
    BY <1>2, <1>4, OnToSpreading
  <1> HIDE DEF n
  <1>6. ASSUME NEW b \in Ops, r \in Members(file, b), Earlier(Answer, b), Earlier(b, n) PROVE FALSE
    <2>1. Located(b)
      BY OpFacts
    <2>2. Phase(b) >= 7 /\ (Phase(b) = 7 => b.grid > 0)
      BY <1>1, <1>6, <2>1 DEF Located, Earlier, IsAt
    <2> QED
      BY <1>5, <1>6, <2>2
  <1> QED
    BY <1>3, <1>5, <1>6 DEF Leads

LEMMA SpreadReached ==
    ASSUME NEW r, NEW g \in Nat, NEW p \in Nat, NEW op, IsAt(op, 7, g, p)
    PROVE  Reaches(r, op) <=> ~GlobalFails /\ ~AnyGridFails
  BY DEF Reaches, IsAt

LEMMA SpreadingLeads ==
    ASSUME file \in Files, NEW r \in Ranks, NEW g \in Grids(file), NEW e
    PROVE  Forward(r, Op("hash", g, ""), e) /\ Forward(r, Op("handshake", g, ""), e)
  <1> DEFINE hash == Op("hash", g, "")
             handshake == Op("handshake", g, "")
             deliver == Op("deliver", g, "")
  <1>1. g \in Nat /\ g > 0
    BY FileFacts
  <1>2. IsAt(hash, 7, g, 0) /\ IsAt(handshake, 7, g, 1) /\ IsAt(deliver, 7, g, 2)
    BY <1>1, GridPlaces
  <1>3. handshake \in Ops /\ deliver \in Ops
    BY OpsThere DEF InGrid
  <1>4. handshake # Out /\ handshake.what # "info" /\ deliver # Out /\ deliver.what # "info"
    BY DEF Out, Op
  <1>5. ~Erring(r, handshake) /\ ~Erring(r, deliver) /\ ~Fatal(hash) /\ ~Fatal(handshake)
    BY ErringInGrid, FatalInGrid
  <1>6. /\ r \in Members(file, hash) => r \in Members(file, handshake)
        /\ r \in Members(file, handshake) => r \in Members(file, deliver)
    BY GridMembers
  <1>7. NextOp(r, hash, e) = handshake /\ NextOp(r, handshake, e) = deliver
    BY NextOfHash, NextOfHandshake
  <1> HIDE DEF hash, handshake, deliver
  <1>8. Reaches(r, hash) => Reaches(r, handshake)
    BY <1>1, <1>2, SpreadReached
  <1>9. Reaches(r, handshake) => Reaches(r, deliver)
    BY <1>1, <1>2, SpreadReached
  <1>10. Forward(r, hash, e)
    <2>1. SUFFICES ASSUME r \in Members(file, hash), Reaches(r, hash), e = "none"
                   PROVE  Leads(r, hash, handshake, e)
      BY <1>5, <1>7 DEF Forward
    <2> QED
      BY <1>1, <1>2, <1>3, <1>4, <1>5, <1>6, <1>8, <2>1, LeadsOn
  <1>11. Forward(r, handshake, e)
    <2>1. SUFFICES ASSUME r \in Members(file, handshake), Reaches(r, handshake), e = "none"
                   PROVE  Leads(r, handshake, deliver, e)
      BY <1>5, <1>7 DEF Forward
    <2> QED
      BY <1>1, <1>2, <1>3, <1>4, <1>5, <1>6, <1>9, <2>1, LeadsOn
  <1> QED
    BY <1>10, <1>11 DEF hash, handshake

LEMMA DeliverLeads ==
    ASSUME file \in Files, NEW r \in Ranks, NEW g \in Grids(file), NEW e
    PROVE  Forward(r, Op("deliver", g, ""), e)
  <1> DEFINE op == Op("deliver", g, "")
             n == FirstOr("hash", Later(r, g), Create)
  <1>1. g \in Nat /\ g > 0
    BY FileFacts
  <1>2. IsAt(op, 7, g, 2)
    BY <1>1, GridPlaces
  <1>3. ~Fatal(op)
    BY FatalInGrid
  <1>4. NextOp(r, op, e) = n
    BY NextOfDeliver
  <1> HIDE DEF op
  <1>5. SUFFICES ASSUME Reaches(r, op), e = "none" PROVE Leads(r, op, n, e)
    BY <1>3, <1>4 DEF Forward, op
  <1>6. ~GlobalFails /\ ~AnyGridFails
    BY <1>1, <1>2, <1>5, SpreadReached
  <1>7. /\ n \in Ops /\ n # Out /\ r \in Members(file, n) /\ Reaches(r, n)
        /\ Found(r, n, "none") # "none" <=> Erring(r, n)
        /\ \A b \in Ops : r \in Members(file, b) /\ Phase(b) >= 7 /\ (Phase(b) = 7 => b.grid > g)
             => ~Earlier(b, n)
    BY <1>1, <1>6, OnToSpreading DEF Later
  <1> HIDE DEF n
  <1>8. ASSUME NEW b \in Ops, r \in Members(file, b), Earlier(op, b), Earlier(b, n) PROVE FALSE
    <2>1. Located(b)
      BY OpFacts
    <2>2. Phase(b) >= 7 /\ (Phase(b) = 7 => b.grid > g)
      BY <1>1, <1>2, <1>8, <2>1 DEF Located, Earlier, IsAt
    <2> QED
      BY <1>7, <1>8, <2>2
  <1> QED
    BY <1>5, <1>7, <1>8 DEF Leads

LEMMA CreateLeads ==
    ASSUME file \in Files, NEW r \in Ranks, NEW e
    PROVE  Forward(r, Create, e)
  <1>1. IsAt(Create, 8, 0, 0) /\ ~Fatal(Create) /\ NextOp(r, Create, e) = Out
    BY DomainPlaces, FatalInDomain, NextInDomain
  <1>2. SUFFICES ASSUME Reaches(r, Create), e = "none" PROVE Leads(r, Create, Out, e)
    BY <1>1 DEF Forward
  <1>3. ~GlobalFails /\ ~AnyGridFails
    BY <1>1, <1>2 DEF Reaches, IsAt
  <1>4. ASSUME NEW b \in Ops, Earlier(Create, b) PROVE FALSE
    <2>1. Located(b)
      BY OpFacts
    <2> QED
      BY <1>1, <1>4, <2>1 DEF Located, Earlier, IsAt
  <1> QED
    BY <1>2, <1>3, <1>4, LeadsOut

\* The program of a rank has no gaps.
LEMMA OpsLead ==
    ASSUME file \in Files, NEW r \in Ranks, NEW op \in Ops, NEW e
    PROVE  Forward(r, op, e)
  <1>1. CASE op \in InDomain
    <2>1. Forward(r, Global, e)
      BY GlobalLeads DEF Forward
    <2> QED
      BY <1>1, <2>1, CheckLeads, MeetingLeads, AnswerLeads, CreateLeads DEF InDomain
  <1>2. ASSUME NEW g \in Grids(file), NEW what \in InGrid, op = Op(what, g, "")
        PROVE  Forward(r, op, e)
    BY <1>2, InfoLeads, SpreadingLeads, DeliverLeads DEF InGrid
  <1>3. ASSUME NEW g \in Grids(file), NEW side \in Sides, NEW what \in InSide, op = Op(what, g, side)
        PROVE  Forward(r, op, e)
    <2>1. CASE what = "agree"
      BY <1>3, <2>1, DonorsLead, ReceiversLead DEF Sides
    <2>2. CASE what # "agree"
      BY <1>3, <2>2, SplitLeads, SizeLeads, ReadLeads DEF InSide
    <2> QED
      BY <2>1, <2>2
  <1> QED
    BY <1>1, <1>2, <1>3, OpKinds
-----------------------------------------------------------------------------
\* The errors in operations, by their kinds.
LEMMA LowestMeans ==
    ASSUME NEW S \in SUBSET Codes
    PROVE  Lowest(S) \in Codes /\ (Lowest(S) # "none" <=> \E c \in S : c # "none")
  BY DEF Lowest, Codes

LEMMA SyncedIn ==
    ASSUME NEW r, NEW op,
           op.what = "global" \/ op.what = "info" \/ op.what = "agree" \/ op.what = "check"
    PROVE  ErrorIn(r, op) = SyncedError(r, op) /\ Awaited(r, op) = Members(file, op)
  <1>1. ErrorIn(r, op) = SyncedError(r, op)
    BY DEF ErrorIn
  <1>2. Awaited(r, op) = Members(file, op)
    BY DEF Awaited
  <1> QED
    BY <1>1, <1>2

LEMMA SizeErr ==
    ASSUME NEW r, NEW op, op.what = "size"
    PROVE  ErrorIn(r, op) = IF \E q \in Members(file, op) : TooBig(ChunkOf(file, q, op.grid, op.side))
                            THEN "read" ELSE Fault(r, op)
  BY DEF ErrorIn

LEMMA ReadErr ==
    ASSUME NEW r, NEW op, op.what = "read"
    PROVE  /\ ErrorIn(r, op) = Lowest({Fault(q, op) : q \in Members(file, op)})
  BY DEF ErrorIn

LEMMA OtherErr ==
    ASSUME NEW r, NEW op
    PROVE  /\ op.what = "split" => ErrorIn(r, op) = "none"
           /\ op.what = "totals" => ErrorIn(r, op) = "none"
           /\ op.what = "handshake" => ErrorIn(r, op) = "none"
           /\ op.what = "meet" => ErrorIn(r, op) = "none"
           /\ op.what = "answer" => ErrorIn(r, op) = "none"
           /\ op.what = "hash" => ErrorIn(r, op) = "none"
           /\ op.what = "deliver" => ErrorIn(r, op) = "none"
           /\ op.what = "create" => ErrorIn(r, op) = "none"
  <1>1. op.what = "split" => ErrorIn(r, op) = "none"
    BY DEF ErrorIn
  <1>2. op.what = "totals" => ErrorIn(r, op) = "none"
    BY DEF ErrorIn
  <1>3. op.what = "handshake" => ErrorIn(r, op) = "none"
    BY DEF ErrorIn
  <1>4. op.what = "meet" => ErrorIn(r, op) = "none"
    BY DEF ErrorIn
  <1>5. op.what = "answer" => ErrorIn(r, op) = "none"
    BY DEF ErrorIn
  <1>6. op.what = "hash" => ErrorIn(r, op) = "none"
    BY DEF ErrorIn
  <1>7. op.what = "deliver" => ErrorIn(r, op) = "none"
    BY DEF ErrorIn
  <1>8. op.what = "create" => ErrorIn(r, op) = "none"
    BY DEF ErrorIn
  <1> QED
    BY <1>1, <1>2, <1>3, <1>4, <1>5, <1>6, <1>7, <1>8

\* What everybody says of an error, when everybody has come.
LEMMA SyncedMeans ==
    ASSUME Told, NEW r \in Ranks, NEW op, op = at[r], r \in Members(file, op),
           Members(file, op) \subseteq Ranks, \A q \in Members(file, op) : op \in DOMAIN said[q]
    PROVE  /\ SyncedError(r, op) \in Codes
           /\ SyncedError(r, op) # "none" <=> \E q \in Members(file, op) : Erring(q, op)
  <1> DEFINE S == {said[q][op] : q \in Members(file, op)}
  <1>1. error[r] = said[r][op]
    BY DEF Told
  <1>2. \A q \in Members(file, op) : said[q][op] \in Codes /\ (said[q][op] # "none" <=> Erring(q, op))
    BY DEF Told
  <1>3. S \in SUBSET Codes
    BY <1>2
  <1>4. Lowest(S) \in Codes /\ (Lowest(S) # "none" <=> \E c \in S : c # "none")
    BY <1>3, LowestMeans
  <1>5. (\E c \in S : c # "none") <=> \E q \in Members(file, op) : Erring(q, op)
    BY <1>2
  <1> HIDE DEF S
  <1>6. SyncedError(r, op) = IF error[r] # "none" THEN error[r] ELSE Lowest(S)
    BY DEF SyncedError, S
  <1> QED
    BY <1>1, <1>2, <1>4, <1>5, <1>6

\* What cannot be read, cannot be read by somebody who takes part in the reading.
LEMMA FailsSomewhere ==
    ASSUME file \in Files, NEW op
    PROVE  /\ Fails(op) => op.what = "size" \/ \E q \in Members(file, op) : Hits(q, op)
           /\ \A q \in Members(file, op) : Hits(q, op) => Fails(op)
           /\ op.what = "size" =>
                \A q \in Members(file, op) : Hits(q, op) <=> \E x \in file.faults : x.op = op
  BY FileFacts DEF Fails, Hits

LEMMA SizeFailsSomewhere ==
    ASSUME file \in Files, NEW g, NEW side, Fails(Op("size", g, side))
    PROVE  \E q : q \in Members(file, Op("size", g, side))
  <1> DEFINE op == Op("size", g, side)
  <1>1. op.grid = g /\ op.side = side
    BY DEF Op
  <1> HIDE DEF op
  <1>2. CASE \E x \in file.faults : x.op = op
    BY <1>2, FileFacts DEF op
  <1>3. CASE Behind(g, side)
    BY <1>3 DEF Behind, op
  <1> QED
    BY <1>1, <1>2, <1>3 DEF Fails, op

LEMMA SideFailsSomewhere ==
    ASSUME file \in Files, NEW g \in Grids(file), NEW side
    PROVE  SideFails(g, side) =>
               \E q \in Members(file, Op("agree", g, side)) : HasChunk(file, q, g, side)
  <1>1. ASSUME NEW q, q \in Members(file, Op("size", g, side)) \/ q \in Members(file, Op("read", g, side))
        PROVE  q \in Members(file, Op("agree", g, side)) /\ HasChunk(file, q, g, side)
    <2>1. g \in LocalGrids(file, q) /\ HasChunk(file, q, g, side)
      BY <1>1, GridMembers
    <2> QED
      BY <2>1, GridMembers
  <1>2. SideFails(g, side) =>
          \E q : q \in Members(file, Op("size", g, side)) \/ q \in Members(file, Op("read", g, side))
    <2>1. Op("read", g, side).what # "size"
      BY DEF Op
    <2> QED
      BY <2>1, SizeFailsSomewhere, FailsSomewhere DEF SideFails
  <1> QED
    BY <1>1, <1>2

LEMMA GridFailsSomewhere ==
    ASSUME file \in Files, NEW g \in Grids(file), GridFails(g)
    PROVE  \E q \in Ranks : g \in LocalGrids(file, q)
  <1>1. \E what, side : \E q : q \in Members(file, Op(what, g, side))
    <2>1. CASE InfoFails(g)
      <3>1. Op("info", g, "").what # "size"
        BY DEF Op
      <3> QED
        BY <2>1, <3>1, FailsSomewhere DEF InfoFails
    <2>2. CASE SideFails(g, "donors")
      BY <2>2, SideFailsSomewhere
    <2>3. CASE SideFails(g, "receivers")
      BY <2>3, SideFailsSomewhere
    <2> QED
      BY <2>1, <2>2, <2>3 DEF GridFails
  <1>2. PICK q : g \in LocalGrids(file, q)
    BY <1>1, GridMembers
  <1> QED
    BY <1>2, FileFacts DEF LocalGrids

\* Somebody comes to it with an error if anybody is to leave it with one.
LEMMA GlobalShared ==
    ASSUME file \in Files
    PROVE  (\E q \in Members(file, Global) : Erring(q, Global)) <=> Fatal(Global)
  <1>1. Global.what # "size"
    BY DEF Global, Op
  <1> QED
    BY <1>1, FailsSomewhere, ErringInDomain, FatalInDomain DEF GlobalFails

LEMMA CheckShared ==
    ASSUME file \in Files
    PROVE  (\E q \in Members(file, Check) : Erring(q, Check)) <=> Fatal(Check)
  <1>1. Members(file, Check) = Ranks
    BY DomainPlaces, DomainMembers DEF IsAt
  <1>2. (\E q \in Ranks : \E g \in LocalGrids(file, q) : GridFails(g)) <=> AnyGridFails
    BY GridFailsSomewhere DEF AnyGridFails, LocalGrids
  <1> QED
    BY <1>1, <1>2, ErringInDomain, FatalInDomain

LEMMA InfoShared ==
    ASSUME file \in Files, NEW g \in Grids(file)
    PROVE  LET op == Op("info", g, "")
           IN (\E q \in Members(file, op) : Erring(q, op)) <=> Fatal(op)
  <1> DEFINE op == Op("info", g, "")
  <1>1. Fatal(op) <=> InfoFails(g)
    BY FatalInGrid
  <1>2. \A q : Erring(q, op) <=> Hits(q, op)
    BY ErringInGrid
  <1>3. InfoFails(g) <=> \E q \in Members(file, op) : Hits(q, op)
    <2>1. op.what # "size"
      BY DEF Op
    <2> QED
      BY <2>1, FailsSomewhere DEF InfoFails
  <1> QED
    BY <1>1, <1>2, <1>3

LEMMA AgreeShared ==
    ASSUME file \in Files, NEW g \in Grids(file), NEW side \in Sides
    PROVE  LET op == Op("agree", g, side)
           IN (\E q \in Members(file, op) : Erring(q, op)) <=> Fatal(op)
  <1> DEFINE op == Op("agree", g, side)
  <1>1. Fatal(op) <=> SideFails(g, side)
    BY FatalInGrid
  <1>2. \A q : Erring(q, op) <=> HasChunk(file, q, g, side) /\ SideFails(g, side)
    BY ErringInGrid
  <1>3. SideFails(g, side) => \E q \in Members(file, op) : HasChunk(file, q, g, side)
    BY SideFailsSomewhere
  <1> HIDE DEF op
  <1>4. (\E q \in Members(file, op) : Erring(q, op)) <=> Fatal(op)
    BY <1>1, <1>2, <1>3
  <1> QED
    BY <1>4 DEF op

LEMMA MembersAreRanks ==
    ASSUME file \in Files, NEW op \in Ops
    PROVE  Members(file, op) \subseteq Ranks
  <1>1. CASE op.grid = 0
    BY <1>1, DomainMembers
  <1>2. CASE op.grid # 0
    <2>1. op.grid \in Grids(file)
      BY <1>2, OpFacts DEF Located
    <2> QED
      BY <1>2, <2>1, FileFacts DEF Members
  <1> QED
    BY <1>1, <1>2

\* The error of an operation in which the errors are shared.
LEMMA SharedError ==
    ASSUME file \in Files, Told, NEW r \in Ranks, NEW op \in Ops, op = at[r], r \in Members(file, op),
           Over(r, op),
           op.what = "global" \/ op.what = "info" \/ op.what = "agree" \/ op.what = "check",
           (\E q \in Members(file, op) : Erring(q, op)) <=> Fatal(op)
    PROVE  ErrorIn(r, op) \in Codes /\ (ErrorIn(r, op) # "none" <=> Fatal(op))
  <1>1. ErrorIn(r, op) = SyncedError(r, op) /\ Awaited(r, op) = Members(file, op)
    BY SyncedIn
  <1>2. \A q \in Members(file, op) : op \in DOMAIN said[q]
    BY <1>1 DEF Over, CameTo
  <1> QED
    BY <1>1, <1>2, MembersAreRanks, SyncedMeans

LEMMA SizeError ==
    ASSUME file \in Files, NEW r, NEW g \in Grids(file), NEW side \in Sides,
           r \in Members(file, Op("size", g, side))
    PROVE  LET op == Op("size", g, side)
           IN ErrorIn(r, op) \in Codes /\ (ErrorIn(r, op) # "none" <=> Fatal(op))
  <1> DEFINE op == Op("size", g, side)
  <1>1. op.what = "size" /\ op.grid = g /\ op.side = side
    BY DEF Op
  <1>2. Behind(g, side) <=> \E q \in Members(file, op) : TooBig(ChunkOf(file, q, g, side))
    BY DEF Behind
  <1>3. Fatal(op) <=> Fails(op)
    BY FatalInGrid
  <1>4. r \in Members(file, op)
    OBVIOUS
  <1> HIDE DEF op
  <1>5. ErrorIn(r, op) = IF Behind(g, side) THEN "read" ELSE Fault(r, op)
    BY <1>1, <1>2, SizeErr
  <1>6. Fails(op) <=> Behind(g, side) \/ Hits(r, op)
    BY <1>1, <1>4, FailsSomewhere DEF Fails
  <1>7. ErrorIn(r, op) \in Codes /\ (ErrorIn(r, op) # "none" <=> Fatal(op))
    BY <1>3, <1>5, <1>6, FaultMeans DEF Codes
  <1> QED
    BY <1>7 DEF op

LEMMA ReadError ==
    ASSUME file \in Files, NEW r, NEW g, NEW side
    PROVE  LET op == Op("read", g, side)
           IN ErrorIn(r, op) \in Codes /\ (ErrorIn(r, op) # "none" <=> Fatal(op))
  <1> DEFINE op == Op("read", g, side)
             S == {Fault(q, op) : q \in Members(file, op)}
  <1>1. op.what = "read"
    BY DEF Op
  <1>2. Fatal(op) <=> Fails(op)
    BY FatalInGrid
  <1> HIDE DEF op
  <1>3. ErrorIn(r, op) = Lowest(S)
    BY <1>1, ReadErr
  <1>4. S \in SUBSET Codes
    BY FaultMeans
  <1>5. (\E c \in S : c # "none") <=> Fails(op)
    BY <1>1, FaultMeans, FailsSomewhere
  <1> HIDE DEF S
  <1>6. ErrorIn(r, op) \in Codes /\ (ErrorIn(r, op) # "none" <=> Fatal(op))
    BY <1>2, <1>3, <1>4, <1>5, LowestMeans
  <1> QED
    BY <1>6 DEF op

LEMMA WhatOf ==
    ASSUME NEW op, NEW what, NEW g, NEW side, op = Op(what, g, side)
    PROVE  op.what = what
  BY DEF Op

\* A rank whose operation is over leaves it with an error exactly where everybody does.
LEMMA ErrorMeans ==
    ASSUME file \in Files, Told, NEW r \in Ranks, NEW op \in Ops, op = at[r], r \in Members(file, op),
           Over(r, op)
    PROVE  ErrorIn(r, op) \in Codes /\ (ErrorIn(r, op) # "none" <=> Fatal(op))
  <1> DEFINE Goal == ErrorIn(r, op) \in Codes /\ (ErrorIn(r, op) # "none" <=> Fatal(op))
  <1>1. ASSUME ErrorIn(r, op) = "none", ~Fatal(op) PROVE Goal
    BY <1>1 DEF Codes
  <1>2. Global.what = "global" /\ Check.what = "check"
    BY DEF Op, Global, Check
  <1>3. CASE op \in InDomain
    <2>1. CASE op = Global
      <3>1. op.what = "global"
        BY <1>2, <2>1
      <3> QED
        BY <2>1, <3>1, GlobalShared, SharedError
    <2>2. CASE op = Check
      <3>1. op.what = "check"
        BY <1>2, <2>2
      <3> QED
        BY <2>2, <3>1, CheckShared, SharedError
    <2>3. CASE op \notin {Global, Check}
      <3>1. op \in {Totals, Announce, Meet, Answer, Create}
        BY <1>3, <2>3 DEF InDomain
      <3>2. /\ Totals.what = "totals" /\ Announce.what = "handshake" /\ Meet.what = "meet"
            /\ Answer.what = "answer" /\ Create.what = "create"
        BY DEF Op, Totals, Announce, Meet, Answer, Create
      <3>3. ErrorIn(r, op) = "none"
        BY <3>1, <3>2, OtherErr
      <3>4. ~Fatal(op)
        BY <3>1, FatalInDomain
      <3> QED
        BY <1>1, <3>3, <3>4
    <2> QED
      BY <2>1, <2>2, <2>3
  <1>4. ASSUME NEW g \in Grids(file), NEW what \in InGrid, op = Op(what, g, "")
        PROVE  Goal
    <2>0. op.what = what
      BY <1>4, WhatOf
    <2>1. CASE what = "info"
      <3>1. op.what = "info"
        BY <2>0, <2>1
      <3>2. (\E q \in Members(file, op) : Erring(q, op)) <=> Fatal(op)
        BY <1>4, <2>1, InfoShared
      <3> QED
        BY <3>1, <3>2, SharedError
    <2>2. CASE what # "info"
      <3>1. op.what \in {"hash", "handshake", "deliver"}
        BY <1>4, <2>0, <2>2 DEF InGrid
      <3>2. ErrorIn(r, op) = "none"
        BY <3>1, OtherErr
      <3>3. ~Fatal(op)
        BY <1>4, <2>2, FatalInGrid DEF InGrid
      <3> QED
        BY <1>1, <3>2, <3>3
    <2> QED
      BY <2>1, <2>2
  <1>5. ASSUME NEW g \in Grids(file), NEW side \in Sides, NEW what \in InSide, op = Op(what, g, side)
        PROVE  Goal
    <2>0. op.what = what
      BY <1>5, WhatOf
    <2>1. CASE what = "split"
      <3>1. op.what = "split"
        BY <2>0, <2>1
      <3>2. ErrorIn(r, op) = "none"
        BY <3>1, OtherErr
      <3>3. ~Fatal(op)
        BY <1>5, <2>1, FatalInGrid
      <3> QED
        BY <1>1, <3>2, <3>3
    <2>2. CASE what = "size"
      BY <1>5, <2>2, SizeError
    <2>3. CASE what = "read"
      BY <1>5, <2>3, ReadError
    <2>4. CASE what = "agree"
      <3>1. op.what = "agree"
        BY <2>0, <2>4
      <3>2. (\E q \in Members(file, op) : Erring(q, op)) <=> Fatal(op)
        BY <1>5, <2>4, AgreeShared
      <3> QED
        BY <3>1, <3>2, SharedError
    <2> QED
      BY <1>5, <2>1, <2>2, <2>3, <2>4 DEF InSide
  <1> QED
    BY <1>3, <1>4, <1>5, OpKinds
-----------------------------------------------------------------------------
\* The file in use stays: so does what it says of the program.
LEMMA FileStays ==
    ASSUME file' = file
    PROVE  /\ Ops' = Ops
           /\ \A r, op : (Reaches(r, op)' <=> Reaches(r, op)) /\ (Erring(r, op)' <=> Erring(r, op))
  <1>1. \A op : Fails(op)' <=> Fails(op)
    BY DEF Fails, Behind
  <1>2. GlobalFails' <=> GlobalFails
    BY <1>1 DEF GlobalFails
  <1>3. \A g : GridFails(g)' <=> GridFails(g)
    BY <1>1 DEF GridFails, InfoFails, SideFails
  <1>4. AnyGridFails' <=> AnyGridFails
    BY <1>3 DEF AnyGridFails
  <1>5. \A g, side : (SideFails(g, side)' <=> SideFails(g, side)) /\ (InfoFails(g)' <=> InfoFails(g))
    BY <1>1 DEF SideFails, InfoFails
  <1>6. ASSUME NEW r, NEW op PROVE Reaches(r, op)' <=> Reaches(r, op)
    BY <1>1, <1>2, <1>3, <1>4, <1>5 DEF Reaches
  <1>7. ASSUME NEW r, NEW op PROVE Erring(r, op)' <=> Erring(r, op)
    BY <1>2, <1>3, <1>4, <1>5 DEF Erring, Hits
  <1>8. Ops' = Ops
    BY DEF Ops, OpsOf
  <1> QED
    BY <1>6, <1>7, <1>8

LEMMA NobodyHasRecords == IsLog(<<>>) /\ Len(<<>>) = 0
  BY DEF IsLog

LEMMA InitInv == Init => ImportInv
  <1> SUFFICES ASSUME Init PROVE ImportInv
    OBVIOUS
  <1>1. /\ file \in Files /\ at = [r \in Ranks |-> Global]
        /\ said = [r \in Ranks |-> [op \in {Global} |-> Fault(r, Global)]]
        /\ error = [r \in Ranks |-> Fault(r, Global)]
        /\ chunk = [r \in Ranks |-> [side \in Sides |-> <<>>]]
    BY DEF Init, Nothing
  <1>2. Global \in Ops /\ Members(file, Global) = Ranks /\ IsAt(Global, 0, 0, 0)
    BY OpsThere, DomainMembers, DomainPlaces DEF IsAt
  <1>3. \A r : Reaches(r, Global)
    BY <1>2 DEF Reaches, IsAt
  <1>4. ASSUME NEW op \in Ops PROVE ~Earlier(op, Global)
    <2>1. Located(op)
      BY <1>1, OpFacts
    <2> QED
      BY <1>2, <2>1 DEF Located, Earlier, IsAt
  <1>5. InProgram
    BY <1>1, <1>2, <1>3, <1>4 DEF InProgram
  <1>6. \A r : Fault(r, Global) \in Codes /\ (Fault(r, Global) # "none" <=> Erring(r, Global))
    BY <1>1, FaultMeans, ErringInDomain
  <1>7. Told
    BY <1>1, <1>6 DEF Told
  <1>8. RecordsLead
    BY <1>1, NobodyHasRecords DEF RecordsLead, AllLead
  <1> QED
    BY <1>1, <1>5, <1>7, <1>8 DEF ImportInv

\* What is read is of the records of the file ...
LEMMA ChunkLeads ==
    ASSUME file \in Files, NEW g \in Grids(file), NEW side \in Sides,
           NEW r \in RanksOf(file, g), HasChunk(file, r, g, side), ~TooBig(ChunkOf(file, r, g, side))
    PROVE  LET s == ChunkOf(file, r, g, side)
           IN AllLead([i \in 1 .. s.end - s.begin |-> Record(file, g, side, s.begin + i)])
  <1>1. WellFormed(file)
    BY FilesAssumption
  <1>2. PICK begin, end \in 0 .. Count(file, g, side) :
          begin <= end /\ ChunkOf(file, r, g, side) = [begin |-> begin, end |-> end]
    BY <1>1 DEF WellFormed
  <1> DEFINE n == end - begin
             recs == [i \in 1 .. n |-> Record(file, g, side, begin + i)]
  <1>3. n \in Nat /\ \A i \in 1 .. n : begin + i \in 1 .. Count(file, g, side)
    <2>1. Count(file, g, side) \in Nat
      BY <1>1 DEF WellFormed
    <2> QED
      BY <1>2, <2>1
  <1>4. \A k : IsRecord(Record(file, g, side, k))
    BY DEF IsRecord, Record
  <1>5. \A k \in 1 .. Count(file, g, side) : BinOf(file, Record(file, g, side, k)) \in Ranks
    BY <1>1 DEF WellFormed
  <1> HIDE DEF n
  <1>6. Len(recs) = n /\ IsLog(recs)
    BY <1>3 DEF IsLog
  <1>7. AllLead(recs)
    BY <1>3, <1>4, <1>5, <1>6 DEF AllLead
  <1> QED
    BY <1>2, <1>7 DEF n

LEMMA JoinLeads ==
    ASSUME NEW s, NEW t, AllLead(s), AllLead(t)
    PROVE  AllLead(s \o t)
  <1>1. /\ IsLog(s \o t) /\ Len(s \o t) = Len(s) + Len(t)
        /\ \A i \in 1 .. Len(s) : (s \o t)[i] = s[i]
        /\ \A i \in 1 .. Len(t) : (s \o t)[Len(s) + i] = t[i]
    BY LogJoined DEF AllLead
  <1>2. Len(s) \in Nat /\ Len(t) \in Nat
    BY DEF AllLead, IsLog
  <1>3. ASSUME NEW i \in 1 .. Len(s \o t)
        PROVE  IsRecord((s \o t)[i]) /\ BinOf(file, (s \o t)[i]) \in Ranks
    <2>1. CASE i \in 1 .. Len(s)
      BY <1>1, <2>1 DEF AllLead
    <2>2. CASE i \notin 1 .. Len(s)
      <3> DEFINE j == i - Len(s)
      <3>1. j \in 1 .. Len(t) /\ i = Len(s) + j
        BY <1>1, <1>2, <1>3, <2>2
      <3> HIDE DEF j
      <3>2. (s \o t)[i] = t[j]
        BY <1>1, <3>1
      <3> QED
        BY <3>1, <3>2 DEF AllLead
    <2> QED
      BY <2>1, <2>2
  <1> QED
    BY <1>1, <1>3 DEF AllLead

\* ... and the answers change nothing but what they answer.
LEMMA UnpackedLeads ==
    ASSUME NEW r, NEW side, AllLead(chunk[r][side])
    PROVE  AllLead(Unpacked(r, side))
  <1> DEFINE recs == chunk[r][side]
             new == Unpacked(r, side)
  <1>1. Len(recs) \in Nat /\ DOMAIN recs = 1 .. Len(recs)
    BY DEF AllLead, IsLog
  <1>2. /\ new = [i \in DOMAIN recs |-> new[i]]
        /\ \A i \in DOMAIN recs : \E v : new[i] = [recs[i] EXCEPT !.other = v]
    BY DEF Unpacked
  <1> HIDE DEF new, recs
  <1>3. Len(new) = Len(recs) /\ IsLog(new)
    BY <1>1, <1>2 DEF IsLog
  <1>4. ASSUME NEW i \in 1 .. Len(recs)
        PROVE  IsRecord(new[i]) /\ new[i].id = recs[i].id
    <2>1. PICK v : new[i] = [recs[i] EXCEPT !.other = v]
      BY <1>1, <1>2
    <2>2. recs[i] = [grid |-> recs[i].grid, other |-> recs[i].other, place |-> recs[i].place,
                     id |-> recs[i].id]
      BY DEF AllLead, IsRecord, recs
    <2>3. new[i] = [grid |-> recs[i].grid, other |-> v, place |-> recs[i].place, id |-> recs[i].id]
      BY <2>1, <2>2
    <2> QED
      BY <2>3 DEF IsRecord
  <1>5. ASSUME NEW i \in 1 .. Len(recs) PROVE BinOf(file, new[i]) \in Ranks
    <2>1. BinOf(file, new[i]) = BinOf(file, recs[i])
      BY <1>4 DEF BinOf
    <2> QED
      BY <2>1 DEF AllLead, recs
  <1> QED
    BY <1>3, <1>4, <1>5 DEF AllLead, new

\* The operations that read and that unpack.
LEMMA ReadsOfGrid ==
    ASSUME file \in Files, NEW op \in Ops, op.what = "read",
           NEW r \in Members(file, op), Reaches(r, op)
    PROVE  /\ op.grid \in Grids(file) /\ op.side \in Sides
           /\ r \in RanksOf(file, op.grid) /\ HasChunk(file, r, op.grid, op.side)
           /\ ~TooBig(ChunkOf(file, r, op.grid, op.side))
  <1>1. CASE op \in InDomain
    <2>1. /\ Global.what # "read" /\ Check.what # "read" /\ Totals.what # "read"
          /\ Announce.what # "read" /\ Meet.what # "read" /\ Answer.what # "read"
          /\ Create.what # "read"
      BY DEF Op, Global, Check, Totals, Announce, Meet, Answer, Create
    <2> QED
      BY <1>1, <2>1 DEF InDomain
  <1>2. ASSUME NEW g, NEW what \in InGrid, op = Op(what, g, "") PROVE FALSE
    <2>1. op.what = what
      BY <1>2, WhatOf
    <2> QED
      BY <2>1 DEF InGrid
  <1>3. ASSUME NEW g \in Grids(file), NEW side \in Sides, NEW what, op = Op(what, g, side)
        PROVE  /\ op.grid \in Grids(file) /\ op.side \in Sides
               /\ r \in RanksOf(file, op.grid) /\ HasChunk(file, r, op.grid, op.side)
               /\ ~TooBig(ChunkOf(file, r, op.grid, op.side))
    <2>1. op.what = what /\ op.grid = g /\ op.side = side
      BY <1>3 DEF Op
    <2>2. op = Op("read", g, side)
      BY <1>3, <2>1
    <2>3. g \in LocalGrids(file, r) /\ HasChunk(file, r, g, side)
      BY <2>2, GridMembers
    <2>4. ~Fails(Op("size", g, side))
      <3>1. PICK p \in {0, 4} : SidePart(r, g, side, p)
        BY SideParts
      <3>2. /\ IsAt(Op("read", g, side), 1, g, p + 3)
            /\ \A o, q : IsAt(o, 1, g, q) /\ q \in p + 1 .. p + 4 =>
                 (Reaches(r, o) => (q = p + 3 => ~Fails(Op("size", g, side))))
        BY <3>1 DEF SidePart
      <3>3. IsAt(op, 1, g, p + 3)
        BY <2>2, <3>2
      <3>4. p + 3 \in p + 1 .. p + 4
        OBVIOUS
      <3> QED
        BY <3>2, <3>3, <3>4
    <2>5. r \in Members(file, Op("size", g, side))
      BY <2>3, GridMembers
    <2>6. ~Behind(g, side)
      BY <2>4 DEF Fails, Op
    <2>7. ~TooBig(ChunkOf(file, r, g, side))
      BY <2>5, <2>6 DEF Behind
    <2> QED
      BY <2>1, <2>3, <2>7 DEF LocalGrids
  <1> QED
    BY <1>1, <1>2, <1>3, OpKinds

LEMMA StepRecords ==
    ASSUME ImportInv, NEW r \in Ranks, Step(r)
    PROVE  /\ chunk' = [q \in Ranks |-> [side \in Sides |-> chunk'[q][side]]]
           /\ RecordsLead'
  <1> DEFINE op == at[r]
             s == ChunkOf(file, r, op.grid, op.side)
             new == [i \in 1 .. s.end - s.begin |-> Record(file, op.grid, op.side, s.begin + i)]
             Read == [chunk EXCEPT ![r][op.side] = @ \o new]
             Answered == [chunk EXCEPT ![r] = [side \in Sides |-> Unpacked(r, side)]]
  <1>1. /\ file \in Files /\ file' = file
        /\ op \in Ops /\ r \in Members(file, op) /\ Reaches(r, op)
        /\ chunk = [q \in Ranks |-> [side \in Sides |-> chunk[q][side]]]
        /\ \A q \in Ranks, side \in Sides : AllLead(chunk[q][side])
    BY DEF ImportInv, InProgram, RecordsLead, Step
  <1>2. chunk' = CASE op.what = "read" /\ ErrorIn(r, op) = "none" -> Read
                     [] op.what = "answer" -> Answered
                     [] OTHER -> chunk
    BY DEF Step
  <1> HIDE DEF op, Read, Answered
  <1>3. \A recs : AllLead(recs)' <=> AllLead(recs)
    BY <1>1 DEF AllLead
  <1> DEFINE Well(c) == /\ c = [q \in Ranks |-> [side \in Sides |-> c[q][side]]]
                        /\ \A q \in Ranks, side \in Sides : AllLead(c[q][side])
  <1>4. ASSUME op.what = "read" /\ ErrorIn(r, op) = "none"
        PROVE  Well(chunk')
    <2>1. /\ op.grid \in Grids(file) /\ op.side \in Sides
          /\ r \in RanksOf(file, op.grid) /\ HasChunk(file, r, op.grid, op.side)
          /\ ~TooBig(ChunkOf(file, r, op.grid, op.side))
      BY <1>1, <1>4, ReadsOfGrid
    <2>2. AllLead(new)
      BY <1>1, <2>1, ChunkLeads
    <2>3. chunk' = Read
      BY <1>2, <1>4
    <2> HIDE DEF new
    <2>4. AllLead(chunk[r][op.side] \o new)
      BY <1>1, <2>1, <2>2, JoinLeads
    <2>5. Read = [q \in Ranks |-> [side \in Sides |->
                    IF q = r /\ side = op.side THEN chunk[r][op.side] \o new ELSE chunk[q][side]]]
      BY <1>1, <2>1 DEF Read
    <2>6. Well(Read)
      BY <1>1, <2>4, <2>5
    <2> QED
      BY <2>3, <2>6
  <1>5. ASSUME op.what = "answer"
        PROVE  Well(chunk')
    <2>1. chunk' = Answered
      BY <1>2, <1>5
    <2>2. \A side \in Sides : AllLead(Unpacked(r, side))
      BY <1>1, UnpackedLeads
    <2>3. Answered = [q \in Ranks |-> [side \in Sides |->
                        IF q = r THEN Unpacked(r, side) ELSE chunk[q][side]]]
      BY <1>1 DEF Answered
    <2>4. Well(Answered)
      BY <1>1, <2>2, <2>3
    <2> QED
      BY <2>1, <2>4
  <1>6. ASSUME op.what # "answer" /\ ~(op.what = "read" /\ ErrorIn(r, op) = "none")
        PROVE  Well(chunk')
    <2>1. chunk' = chunk
      BY <1>2, <1>6
    <2> QED
      BY <1>1, <2>1
  <1>7. Well(chunk')
    BY <1>4, <1>5, <1>6
  <1> HIDE DEF new
  <1>8. \A q \in Ranks, side \in Sides : AllLead(chunk[q][side])'
    BY <1>3, <1>7
  <1> QED
    BY <1>7, <1>8 DEF RecordsLead

\* Where a step leads a rank.
LEMMA StepLeads ==
    ASSUME ImportInv, NEW r \in Ranks, Step(r)
    PROVE  \E n, e :
             /\ file \in Files /\ file' = file /\ at[r] \in Ops
             /\ Leads(r, at[r], n, e) /\ Found(r, n, e) \in Codes
             /\ at' = [at EXCEPT ![r] = n]
             /\ error' = [error EXCEPT ![r] = Found(r, n, e)]
             /\ said' = [said EXCEPT ![r] = [op \in DOMAIN said[r] \union {n} |->
                            IF op = n THEN Found(r, n, e) ELSE said[r][op]]]
  <1> DEFINE op == at[r]
             e == ErrorIn(r, op)
             n == NextOp(r, op, e)
  <1>1. /\ file \in Files /\ file' = file /\ Over(r, op) /\ Arrive(r, n, e)
        /\ op \in Ops /\ r \in Members(file, op) /\ Reaches(r, op) /\ Told
    BY DEF ImportInv, InProgram, Step
  <1>2. e \in Codes /\ (e # "none" <=> Fatal(op))
    BY <1>1, ErrorMeans
  <1>3. Forward(r, op, e)
    BY <1>1, OpsLead
  <1>4. Leads(r, op, n, e)
    BY <1>1, <1>2, <1>3 DEF Forward
  <1> HIDE DEF op, e, n
  <1>5. Found(r, n, e) \in Codes
    BY <1>1, <1>2, FaultMeans DEF Found
  <1>6. /\ at' = [at EXCEPT ![r] = n]
        /\ error' = [error EXCEPT ![r] = Found(r, n, e)]
        /\ said' = [said EXCEPT ![r] = [o \in DOMAIN said[r] \union {n} |->
                       IF o = n THEN Found(r, n, e) ELSE said[r][o]]]
    BY <1>1 DEF Arrive, Found
  <1> QED
    BY <1>1, <1>4, <1>5, <1>6 DEF op

\* Every step keeps the invariant.
LEMMA StepInv ==
    ASSUME ImportInv, NEW r \in Ranks, Step(r)
    PROVE  ImportInv'
  <1> DEFINE op == at[r]
  <1>1. PICK n, e :
          /\ file \in Files /\ file' = file /\ op \in Ops
          /\ Leads(r, op, n, e) /\ Found(r, n, e) \in Codes
          /\ at' = [at EXCEPT ![r] = n]
          /\ error' = [error EXCEPT ![r] = Found(r, n, e)]
          /\ said' = [said EXCEPT ![r] = [o \in DOMAIN said[r] \union {n} |->
                         IF o = n THEN Found(r, n, e) ELSE said[r][o]]]
    BY StepLeads
  <1> DEFINE found == Found(r, n, e)
  <1>2. /\ at = [q \in Ranks |-> at[q]] /\ said = [q \in Ranks |-> said[q]]
        /\ error = [q \in Ranks |-> error[q]]
        /\ InProgram /\ Told
    BY DEF ImportInv
  <1> HIDE DEF found
  <1>3. /\ at' = [q \in Ranks |-> IF q = r THEN n ELSE at[q]]
        /\ error' = [q \in Ranks |-> IF q = r THEN found ELSE error[q]]
        /\ said' = [q \in Ranks |-> IF q # r THEN said[q]
                        ELSE [o \in DOMAIN said[r] \union {n} |-> IF o = n THEN found ELSE said[r][o]]]
    BY <1>1, <1>2 DEF found
  <1>4. /\ n # Out => n \in Ops /\ r \in Members(file, n) /\ Reaches(r, n)
        /\ found # "none" <=> Erring(r, n)
        /\ found \in Codes
        /\ \A b \in Ops : r \in Members(file, b) /\ Earlier(op, b) /\ Earlier(b, n) => ~Reaches(r, b)
    BY <1>1 DEF Leads, found
  <1>5. /\ Ops' = Ops
        /\ \A q, o : (Reaches(q, o)' <=> Reaches(q, o)) /\ (Erring(q, o)' <=> Erring(q, o))
    BY <1>1, FileStays
  <1>6. /\ at'[r] = n /\ error'[r] = found
        /\ DOMAIN said'[r] = DOMAIN said[r] \union {n}
        /\ \A o \in DOMAIN said'[r] : said'[r][o] = IF o = n THEN found ELSE said[r][o]
    BY <1>3
  <1>7. \A q \in Ranks \ {r} : at'[q] = at[q] /\ error'[q] = error[q] /\ said'[q] = said[q]
    BY <1>3
  <1>8. ASSUME NEW q \in Ranks
        PROVE  /\ at'[q] # Out => at'[q] \in Ops /\ q \in Members(file, at'[q]) /\ Reaches(q, at'[q])
               /\ \A o \in Ops :
                    q \in Members(file, o) /\ Reaches(q, o) /\ (o = at'[q] \/ Earlier(o, at'[q]))
                      => o \in DOMAIN said'[q]
    <2>1. CASE q # r
      BY <1>2, <1>7, <2>1 DEF InProgram
    <2>2. CASE q = r
      <3>1. ASSUME NEW o \in Ops, r \in Members(file, o), Reaches(r, o), Earlier(o, n)
            PROVE  o \in DOMAIN said[r]
        <4>1. o = op \/ Earlier(o, op) \/ Earlier(op, o)
          BY <1>1, InOrder
        <4>2. ~Earlier(op, o)
          BY <1>4, <3>1
        <4> QED
          BY <1>2, <3>1, <4>1, <4>2 DEF InProgram
      <3> QED
        BY <1>4, <1>6, <2>2, <3>1
    <2> QED
      BY <2>1, <2>2
  <1>9. InProgram'
    BY <1>1, <1>5, <1>8 DEF InProgram
  <1>10. ASSUME NEW q \in Ranks
         PROVE  /\ at'[q] \in DOMAIN said'[q] /\ error'[q] = said'[q][at'[q]]
                /\ \A o \in DOMAIN said'[q] :
                     said'[q][o] \in Codes /\ (said'[q][o] # "none" <=> Erring(q, o))
    <2>1. CASE q # r
      BY <1>2, <1>7, <2>1 DEF Told
    <2>2. CASE q = r
      <3>1. \A o \in DOMAIN said[r] : said[r][o] \in Codes /\ (said[r][o] # "none" <=> Erring(r, o))
        BY <1>2 DEF Told
      <3> QED
        BY <1>4, <1>6, <2>2, <3>1
    <2> QED
      BY <2>1, <2>2
  <1>11. Told'
    BY <1>5, <1>10 DEF Told
  <1>12. /\ chunk' = [q \in Ranks |-> [side \in Sides |-> chunk'[q][side]]]
         /\ RecordsLead'
    BY StepRecords
  <1>13. /\ at' = [q \in Ranks |-> at'[q]] /\ said' = [q \in Ranks |-> said'[q]]
         /\ error' = [q \in Ranks |-> error'[q]]
    BY <1>3
  <1> QED
    BY <1>1, <1>9, <1>11, <1>12, <1>13 DEF ImportInv

LEMMA StutterInv ==
    ASSUME ImportInv, UNCHANGED vars
    PROVE  ImportInv'
  <1>1. /\ file' = file /\ at' = at /\ said' = said /\ error' = error /\ chunk' = chunk
    BY DEF vars
  <1>2. InProgram'
    BY <1>1, FileStays DEF ImportInv, InProgram
  <1>3. Told'
    BY <1>1, FileStays DEF ImportInv, Told
  <1>4. RecordsLead'
    BY <1>1 DEF ImportInv, RecordsLead, AllLead
  <1> QED
    BY <1>1, <1>2, <1>3, <1>4 DEF ImportInv

\* Every rank is where the file's program has led it, has come to all that is before it, and
\* has an error exactly where the file makes it err.
THEOREM ImportInvHolds == Spec => []ImportInv
  <1>1. Init => ImportInv
    BY InitInv
  <1>2. ImportInv /\ [Next]_vars => ImportInv'
    <2> SUFFICES ASSUME ImportInv, [Next]_vars PROVE ImportInv'
      OBVIOUS
    <2>1. ASSUME NEW r \in Ranks, Step(r) PROVE ImportInv'
      BY <2>1, StepInv
    <2>2. CASE Finished
      BY <2>2, StutterInv DEF Finished
    <2>3. CASE UNCHANGED vars
      BY <2>3, StutterInv
    <2> QED
      BY <2>1, <2>2, <2>3 DEF Next
  <1> QED
    BY <1>1, <1>2, PTL DEF Spec
-----------------------------------------------------------------------------
\* Whatever cannot be read is of the file as a whole, or of a grid.
LEMMA FaultsFail ==
    ASSUME file \in Files
    PROVE  file.faults # {} \/ (\E g \in Grids(file), side \in Sides : Behind(g, side))
               <=> GlobalFails \/ AnyGridFails
  <1>1. ASSUME NEW x \in file.faults PROVE GlobalFails \/ AnyGridFails
    <2>1. x.op \in CanFail(file) /\ Fails(x.op)
      BY <1>1, FileFacts DEF Fails
    <2>2. CASE x.op = Global
      BY <2>1, <2>2 DEF GlobalFails
    <2>3. ASSUME NEW g \in Grids(file), x.op = Op("info", g, "") PROVE AnyGridFails
      <3>1. InfoFails(g)
        BY <2>1, <2>3 DEF InfoFails
      <3> QED
        BY <3>1 DEF AnyGridFails, GridFails
    <2>4. ASSUME NEW g \in Grids(file), NEW side \in Sides,
                 x.op \in {Op("size", g, side), Op("read", g, side)}
          PROVE  AnyGridFails
      <3>1. SideFails(g, side)
        BY <2>1, <2>4 DEF SideFails
      <3> QED
        BY <3>1 DEF AnyGridFails, GridFails, Sides
    <2>5. \/ x.op = Global
          \/ \E g \in Grids(file) : x.op = Op("info", g, "")
          \/ \E g \in Grids(file) : \E side \in Sides : x.op \in {Op("size", g, side), Op("read", g, side)}
      <3> DEFINE A(g) == UNION {{Op("size", g, side), Op("read", g, side)} : side \in Sides}
                 B == UNION {A(g) : g \in Grids(file)}
                 C == {Op("info", g, "") : g \in Grids(file)}
      <3>1. x.op \in {Global} \union C \union B
        BY <2>1 DEF CanFail
      <3>2. x.op \in C => \E g \in Grids(file) : x.op = Op("info", g, "")
        OBVIOUS
      <3>3. \A g : x.op \in A(g) => \E side \in Sides : x.op \in {Op("size", g, side), Op("read", g, side)}
        OBVIOUS
      <3> HIDE DEF A, C
      <3>4. x.op \in B => \E g \in Grids(file) : x.op \in A(g)
        OBVIOUS
      <3> HIDE DEF B
      <3> QED
        BY <3>1, <3>2, <3>3, <3>4
    <2> QED
      BY <2>2, <2>3, <2>4, <2>5
  <1>2. ASSUME NEW g \in Grids(file), NEW side \in Sides, Behind(g, side) PROVE AnyGridFails
    <2>1. Fails(Op("size", g, side))
      BY <1>2 DEF Fails, Op
    <2> QED
      BY <2>1 DEF AnyGridFails, GridFails, SideFails, Sides
  <1>3. ASSUME GlobalFails PROVE file.faults # {}
    <2>1. Global.what # "size"
      BY DEF Global, Op
    <2> QED
      BY <1>3, <2>1 DEF GlobalFails, Fails
  <1>4. ASSUME NEW g \in Grids(file), GridFails(g)
        PROVE  file.faults # {} \/ \E side \in Sides : Behind(g, side)
    <2>1. \A what, side : Fails(Op(what, g, side)) => file.faults # {} \/ Behind(g, side)
      BY DEF Fails, Op
    <2>2. \A what : Fails(Op(what, g, "")) => what = "size" \/ file.faults # {}
      BY DEF Fails, Op
    <2> QED
      BY <1>4, <2>1, <2>2 DEF GridFails, InfoFails, SideFails, Sides
  <1> QED
    BY <1>1, <1>2, <1>3, <1>4 DEF AnyGridFails

\* Either every rank that is through was thrown out, or none was: the one where something of
\* the file cannot be read by somebody, the other where all of it can.
THEOREM AllThrowOrNoneHolds == Spec => []AllThrowOrNone
  <1>1. ImportInv => AllThrowOrNone
    <2> SUFFICES ASSUME ImportInv, NEW r \in Ranks, Through(r)
                 PROVE  Thrown(r) <=>
                            file.faults # {} \/ \E g \in Grids(file), side \in Sides : Behind(g, side)
      BY DEF AllThrowOrNone
    <2>1. at[r] = Out /\ file \in Files
      BY DEF Through, ImportInv
    <2>2. error[r] # "none" <=> Erring(r, Out)
      BY <2>1 DEF ImportInv, Told
    <2> QED
      BY <2>1, <2>2, ErringInDomain, FaultsFail DEF Thrown, Through
  <1> QED
    BY <1>1, ImportInvHolds, PTL
-----------------------------------------------------------------------------
\* All who take part in an operation come to it if one does.
LEMMA ReachedByAll ==
    ASSUME file \in Files, UnreadableLast,
           NEW op \in Ops, NEW r \in Members(file, op), Reaches(r, op), NEW q \in Members(file, op)
    PROVE  Reaches(q, op)
  <1>1. ASSUME Phase(op) = 1, NEW h \in LocalGrids(file, q), h < op.grid, GridFails(h)
        PROVE  FALSE
    <2>1. Located(op)
      BY OpFacts
    <2>2. op.grid # 0 /\ op.grid \in Nat
      BY <1>1, <2>1 DEF Located
    <2>3. op.grid \in LocalGrids(file, q)
      BY <2>2, MemberLocal
    <2>4. Unreadable(h)
      <3>1. ASSUME NEW what, NEW side, Fails(Op(what, h, side)), what = "size" => side \in Sides
            PROVE  Unreadable(h)
        <4> DEFINE o == Op(what, h, side)
        <4>1. o.what = what /\ o.grid = h /\ o.side = side
          BY DEF Op
        <4>2. Fails(o) /\ (o.what = "size" => o.side \in Sides)
          BY <3>1, <4>1
        <4> HIDE DEF o
        <4>3. (\E x \in file.faults : x.op = o) \/ (o.side \in Sides /\ Behind(o.grid, o.side))
          BY <4>2 DEF Fails
        <4> QED
          BY <4>1, <4>3 DEF Unreadable
      <3>2. ~InfoFails(h) \/ Unreadable(h)
        <4> DEFINE none == ""
        <4> HIDE DEF none
        <4>1. ~Fails(Op("info", h, none)) \/ Unreadable(h)
          BY <3>1
        <4> QED
          BY <4>1, Zenon DEF InfoFails, none
      <3>3. \A side \in Sides : ~Fails(Op("size", h, side)) \/ Unreadable(h)
        BY <3>1
      <3>4. \A side \in Sides : ~Fails(Op("read", h, side)) \/ Unreadable(h)
        BY <3>1
      <3>5. \A side \in Sides : ~SideFails(h, side) \/ Unreadable(h)
        BY <3>3, <3>4 DEF SideFails
      <3>6. "donors" \in Sides /\ "receivers" \in Sides
        BY DEF Sides
      <3> QED
        BY <1>1, <3>2, <3>5, <3>6 DEF GridFails
    <2>5. h \in Nat /\ h \in Grids(file) /\ q \in RanksOf(file, h)
      BY FileFacts DEF LocalGrids
    <2>6. op.grid <= h
      BY <2>3, <2>4, <2>5 DEF UnreadableLast
    <2> QED
      BY <1>1, <2>2, <2>5, <2>6
  <1> QED
    BY <1>1 DEF Reaches

\* Only those who take part are waited for.
LEMMA AwaitedTakePart ==
    ASSUME ImportInv, NEW r \in Ranks, at[r] # Out
    PROVE  Awaited(r, at[r]) \subseteq Members(file, at[r])
  <1> DEFINE op == at[r]
  <1>1. file \in Files /\ op \in Ops
    BY DEF ImportInv, InProgram
  <1>2. Located(op)
    BY <1>1, OpFacts
  <1>3. \A side \in Sides : AllLead(chunk[r][side])
    BY DEF ImportInv, RecordsLead
  <1> HIDE DEF op
  <1>4. CASE op.what = "meet"
    <2>1. Phase(op) = 5
      BY <1>4 DEF Phase
    <2>2. Members(file, op) = Ranks
      BY <1>2, <2>1, DomainMembers DEF Located
    <2>3. Awaited(r, op) \subseteq Ranks
      BY <1>4 DEF Awaited
    <2> QED
      BY <2>2, <2>3 DEF op
  <1>5. CASE op.what = "answer"
    <2>1. Phase(op) = 6
      BY <1>5 DEF Phase
    <2>2. Members(file, op) = Ranks
      BY <1>2, <2>1, DomainMembers DEF Located
    <2>3. \A side \in Sides : InBins(r, side) \subseteq Ranks
      BY <1>3 DEF InBins, AllLead, IsLog
    <2>4. Awaited(r, op) = InBins(r, "donors") \union InBins(r, "receivers")
      BY <1>5 DEF Awaited
    <2> QED
      BY <2>2, <2>3, <2>4 DEF op, Sides
  <1>6. CASE op.what = "deliver"
    <2>1. Awaited(r, op) = {q \in Members(file, op) : \E side \in Sides : ForRank(q, r, op.grid, side) # <<>>}
      BY <1>6 DEF Awaited
    <2> QED
      BY <2>1 DEF op
  <1>7. CASE op.what # "meet" /\ op.what # "answer" /\ op.what # "deliver"
    <2>1. Awaited(r, op) = Members(file, op)
      BY <1>7 DEF Awaited
    <2> QED
      BY <2>1 DEF op
  <1> QED
    BY <1>4, <1>5, <1>6, <1>7

\* Somebody on the way is not behind anybody.
LEMMA SomebodyIsLast ==
    ASSUME ImportInv, NEW w \in Ranks, at[w] # Out
    PROVE  \E r \in Ranks :
             at[r] # Out /\ \A q \in Ranks : at[q] # Out => ~Earlier(at[q], at[r])
  <1> DEFINE W == {q \in Ranks : at[q] # Out}
  <1>1. \A q \in W : Located(at[q])
    BY OpFacts DEF ImportInv, InProgram
  <1>2. \A q \in W : Phase(at[q]) \in Nat /\ at[q].grid \in Nat /\ PartOf(at[q]) \in Nat
    BY <1>1 DEF Located
  <1>3. PICK r1 \in W : \A q \in W : Phase(at[r1]) <= Phase(at[q])
    <2> DEFINE S == {Phase(at[q]) : q \in W}
    <2>1. S \in SUBSET Nat /\ S # {}
      BY <1>2
    <2>2. Min(S) \in S /\ \A k \in S : Min(S) <= k
      BY <2>1, LeastOf
    <2> QED
      BY <2>2
  <1> DEFINE W1 == {q \in W : Phase(at[q]) = Phase(at[r1])}
  <1>4. PICK r2 \in W1 : \A q \in W1 : at[r2].grid <= at[q].grid
    <2> DEFINE S == {at[q].grid : q \in W1}
    <2>1. S \in SUBSET Nat /\ S # {}
      BY <1>2
    <2>2. Min(S) \in S /\ \A k \in S : Min(S) <= k
      BY <2>1, LeastOf
    <2> QED
      BY <2>2
  <1> DEFINE W2 == {q \in W1 : at[q].grid = at[r2].grid}
  <1>5. PICK r3 \in W2 : \A q \in W2 : PartOf(at[r3]) <= PartOf(at[q])
    <2> DEFINE S == {PartOf(at[q]) : q \in W2}
    <2>1. S \in SUBSET Nat /\ S # {}
      BY <1>2
    <2>2. Min(S) \in S /\ \A k \in S : Min(S) <= k
      BY <2>1, LeastOf
    <2> QED
      BY <2>2
  <1>6. ASSUME NEW q \in W PROVE ~Earlier(at[q], at[r3])
    BY <1>2, <1>3, <1>4, <1>5 DEF Earlier
  <1> QED
    BY <1>5, <1>6

\* As long as somebody is on the way, some rank's operation is over: nobody waits for ever for
\* a rank that never comes, whatever cannot be read.
THEOREM SomebodyGoesOnHolds == Spec => []SomebodyGoesOn
  <1>1. ImportInv => SomebodyGoesOn
    <2> SUFFICES ASSUME ImportInv, UnreadableLast, NEW w \in Ranks, ~Through(w)
                 PROVE  \E r \in Ranks : ~Through(r) /\ Over(r, at[r])
      BY DEF SomebodyGoesOn
    <2>1. PICK r \in Ranks :
            at[r] # Out /\ \A q \in Ranks : at[q] # Out => ~Earlier(at[q], at[r])
      BY SomebodyIsLast DEF Through
    <2> DEFINE op == at[r]
    <2>2. /\ file \in Files /\ op \in Ops /\ r \in Members(file, op) /\ Reaches(r, op)
          /\ Members(file, op) \subseteq Ranks
      BY <2>1, MembersAreRanks DEF ImportInv, InProgram
    <2>3. ASSUME NEW q \in Members(file, op) PROVE op \in DOMAIN said[q]
      <3>1. q \in Ranks /\ Reaches(q, op)
        BY <2>2, ReachedByAll
      <3>2. CASE at[q] = Out
        <4>1. Located(op)
          BY <2>2, OpFacts
        <4>2. Earlier(op, Out)
          BY <4>1, DomainPlaces DEF Located, Earlier, IsAt
        <4> QED
          BY <2>2, <3>1, <3>2, <4>2 DEF ImportInv, InProgram
      <3>3. CASE at[q] # Out
        <4>1. at[q] \in Ops
          BY <3>1, <3>3 DEF ImportInv, InProgram
        <4>2. op = at[q] \/ Earlier(op, at[q])
          BY <2>1, <2>2, <3>1, <3>3, <4>1, InOrder
        <4> QED
          BY <2>2, <3>1, <4>2 DEF ImportInv, InProgram
      <3> QED
        BY <3>2, <3>3
    <2>4. Awaited(r, op) \subseteq Members(file, op)
      BY <2>1, AwaitedTakePart
    <2>5. Over(r, op)
      BY <2>3, <2>4 DEF Over, CameTo
    <2> QED
      BY <2>1, <2>5 DEF Through
  <1> QED
    BY <1>1, ImportInvHolds, PTL
=============================================================================
