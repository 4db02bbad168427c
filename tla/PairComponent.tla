--------------------------- MODULE PairComponent ----------------------------
(***************************************************************************)
(* overlap_component and connectivity_component, which work alike: a       *)
(* domain-wide set of records keyed by pairs of grids (M, N), replicated   *)
(* on every rank, and on the ranks that hold grid M or grid N the M or the *)
(* N side of the object.  An edit is made by the ranks of one grid, which  *)
(* set event flags on their own side only; the other ranks learn of it     *)
(* when all ranks of the domain next synchronise their edits (SyncEdits_), *)
(* which every collective operation does before anything else.             *)
(*                                                                         *)
(* The operations are collective over the domain and lie between barriers, *)
(* so each is one step here; but each rank does its part of that step from *)
(* its own records and its own flags, and only MPI_Allreduce tells it of   *)
(* the others.  Each rank's listeners hear the events its own rank raises. *)
(***************************************************************************)
EXTENDS Events

CONSTANTS
    Ranks,      \* processes of the domain
    GridIDs,    \* grids that may exist
    Placements, \* sets of ranks a grid may be created on
    Pairs,      \* pairs (M, N) of grids that may be connected
    MFlags,     \* kinds of edit on the M side
    NFlags,     \* kinds of edit on the N side
    EditsMade,  \* <<pair, edit>>: the edits that programs make
    Resized,    \* <<pair, "M" or "N">>: the sides that programs resize
    MaxCleared  \* bound on the records present when all are cleared

ASSUME PairComponentAssumption ==
    /\ GridIDs \subseteq Nat /\ IsFiniteSet(GridIDs)
    /\ (MFlags \cup NFlags) \cap {"CREATE", "DESTROY"} = {}
    /\ {} \notin Placements /\ Placements \subseteq SUBSET Ranks
    /\ Pairs \subseteq GridIDs \X GridIDs
    /\ MFlags \cap NFlags = {}
    /\ EditsMade \subseteq Pairs \X (MFlags \cup NFlags)
    /\ Resized \subseteq Pairs \X {"M", "N"}
    /\ MaxCleared \in Nat

Edits == MFlags \cup NFlags

VARIABLES
    place,      \* place[g]: the ranks that hold grid g, {} if g does not exist
    Records,    \* Records[r]: keys of OverlapRecords_ / ConnectivityRecords_ on r
    LocalMs,    \* LocalMs[r]: keys of LocalMs_ on rank r
    LocalNs,    \* LocalNs[r]: keys of LocalNs_ on rank r
    EventFlags, \* EventFlags[r]: <<pair, edit>> flagged on r's sides and not synced
    unheard,    \* unheard[r]: <<pair, edit>> made and not heard of by r's listeners
    log,        \* log[r]: the events r raised in the last operation
    toCreate    \* what the assembler is about to create after clearing

pairVars == <<place, Records, LocalMs, LocalNs, EventFlags, unheard, log, toCreate>>

GridExists(g) == place[g] # {}
PairPossible(k) == GridExists(k[1]) /\ GridExists(k[2])
KeyBefore(k, l) == k[1] < l[1] \/ (k[1] = l[1] /\ k[2] < l[2])

PairInit ==
    /\ place = [g \in GridIDs |-> {}]
    /\ Records = [r \in Ranks |-> {}]
    /\ LocalMs = [r \in Ranks |-> {}]
    /\ LocalNs = [r \in Ranks |-> {}]
    /\ EventFlags = [r \in Ranks |-> {}]
    /\ unheard = [r \in Ranks |-> {}]
    /\ log = [r \in Ranks |-> <<>>]
    /\ toCreate = {}
-----------------------------------------------------------------------------
\* The elements of an elem_set or the keys of an elem_map, one after another.
InKeyOrder(K) == Sorted(K, {p \in K \X K : KeyBefore(p[1], p[2])})

\* What is found on rank r while its listeners run.
Present(r) == [ms |-> LocalMs[r], ns |-> LocalNs[r], place |-> place]

\* A rank that goes by its own flags.
LocalFlags(r, k) == {f \in Edits : <<k, f>> \in EventFlags[r]}

\* MPI_Allreduce (BOR) of the flags of all ranks, for pair k.
ReducedFlags(r, k) == {f \in Edits : \E q \in Ranks : <<k, f>> \in EventFlags[q]}

\* SyncEdits_: the events rank r raises; afterwards no flag is set anywhere.
SyncEvents(r) ==
    LET edited == {k \in Records[r] : ReducedFlags(r, k) # {}}
    IN  Batch(InKeyOrder(edited), [k \in edited |-> ReducedFlags(r, k)], Present(r))

ClearFlags == EventFlags' = [r \in Ranks |-> {}]

\* The listeners of r hear what this step raises on r, and nothing older.
Raise(events) ==
    /\ log' = events
    /\ unheard' = [r \in Ranks |-> {e \in unheard[r] :
                      \A i \in 1 .. Len(events[r]) :
                          ~(events[r][i].id = e[1] /\ e[2] \in events[r][i].flags)}]

Told(K, flag, seen) == Batch(InKeyOrder(K), [k \in K |-> {flag}], seen)
-----------------------------------------------------------------------------
\* Closing the edit of the component: RestoreComponent, then EndEdit.
EndEdit ==
    /\ toCreate = {}
    /\ Raise([r \in Ranks |-> SyncEvents(r)])
    /\ ClearFlags
    /\ UNCHANGED <<place, Records, LocalMs, LocalNs, toCreate>>

\* CreateOverlaps: the pairs K on every rank.
Insert(K) ==
    LET ms == [r \in Ranks |-> LocalMs[r] \cup {k \in K : r \in place[k[1]]}]
        ns == [r \in Ranks |-> LocalNs[r] \cup {k \in K : r \in place[k[2]]}]
    IN  /\ LocalMs' = ms
        /\ LocalNs' = ns
        /\ Records' = [r \in Ranks |-> Records[r] \cup K]
        /\ Raise([r \in Ranks |->
              SyncEvents(r) \o Told(K, "CREATE",
                                    [ms |-> ms[r], ns |-> ns[r], place |-> place])])
        /\ ClearFlags

Create(K) ==
    /\ toCreate = {}
    /\ \A k \in K : PairPossible(k) /\ \A r \in Ranks : k \notin Records[r]
    /\ Insert(K)
    /\ UNCHANGED <<place, toCreate>>

\* CreateOverlap does the same to one pair.
CreateOne(k) == Create({k})

\* With the two sides erased before the events.
DestroyThenTell(r, K) ==
    SyncEvents(r) \o Told(K, "DESTROY",
                          [Present(r) EXCEPT !.ms = @ \ K, !.ns = @ \ K])

\* Listeners first hear of edits that are still outstanding, then of the end.
DestroyEvents(r, K) ==
    SyncEvents(r) \o Told(K, "DESTROY", Present(r))

\* DestroyOverlaps: here each rank may have its own K[r].
RemovePairs(K) ==
    /\ Raise([r \in Ranks |-> DestroyEvents(r, K[r])])
    /\ LocalMs' = [r \in Ranks |-> LocalMs[r] \ K[r]]
    /\ LocalNs' = [r \in Ranks |-> LocalNs[r] \ K[r]]
    /\ ClearFlags

Destroy(K) ==
    /\ toCreate = {}
    /\ \A k \in K : \A r \in Ranks : k \in Records[r]
    /\ RemovePairs([r \in Ranks |-> K])
    /\ Records' = [r \in Ranks |-> Records[r] \ K]
    /\ UNCHANGED <<place, toCreate>>

\* DestroyOverlap does the same to one pair.
DestroyOne(k) == Destroy({k})

\* map::Erase: the keys behind the one erased move one place down, and storage
\* behind the end stays as it was.
EraseKey(v, k) ==
    LET at == CHOOSE j \in 1 .. v.size : v.store[j] = k
    IN  IF \A j \in 1 .. v.size : v.store[j] # k THEN v
        ELSE [size |-> v.size - 1,
              store |-> [j \in DOMAIN v.store |-> IF j >= at /\ j < v.size
                                                 THEN v.store[j + 1] ELSE v.store[j]]]

\* ClearOverlaps passes DestroyOverlaps a view of the records' own keys.  Its
\* last loop erases record after record while it walks the view: every erase
\* moves the keys behind it, under the walk.
EraseViewed(keys) ==
    LET n == Len(keys)
        after[i \in 0 .. n] ==
            IF i = 0 THEN [size |-> n, store |-> keys]
                     ELSE EraseKey(after[i - 1], after[i - 1].store[i])
    IN  {after[n].store[j] : j \in 1 .. after[n].size}

\* Assembler: ClearOverlaps(), then CreateOverlaps(K) as the next step.
ClearForAssembly(K) ==
    /\ toCreate = {}
    /\ \A r \in Ranks : Cardinality(Records[r]) <= MaxCleared
    /\ \A k \in K : PairPossible(k)
    /\ RemovePairs(Records)
    /\ Records' = [r \in Ranks |-> EraseViewed(InKeyOrder(Records[r]))]
    /\ toCreate' = K
    /\ UNCHANGED place

CreateForAssembly ==
    /\ toCreate # {}
    /\ Insert(toCreate)
    /\ toCreate' = {}
    /\ UNCHANGED place

-----------------------------------------------------------------------------
\* EditOverlapM, EditOverlapN: the ranks of the grid open their side for editing.
OpenM(k) == PairPossible(k) /\ \A r \in place[k[1]] : k \in Records[r] /\ k \in LocalMs[r]
OpenN(k) == PairPossible(k) /\ \A r \in place[k[2]] : k \in Records[r] /\ k \in LocalNs[r]

\* The side's own listeners flag what was edited, on the ranks that hold the side.
FlagSide(k, ranks, flags) ==
    /\ toCreate = {}
    /\ EventFlags' = [r \in Ranks |->
                         EventFlags[r] \cup IF r \in ranks THEN {k} \X flags ELSE {}]
    /\ unheard' = [r \in Ranks |-> unheard[r] \cup ({k} \X flags)]
    /\ log' = [r \in Ranks |-> <<>>]
    /\ UNCHANGED <<place, Records, LocalMs, LocalNs, toCreate>>

\* An array of one side is edited, by way of EditExtents, EditPoints and so on.
EditM(k, f) == f \in MFlags /\ OpenM(k) /\ FlagSide(k, place[k[1]], {f})
EditN(k, f) == f \in NFlags /\ OpenN(k) /\ FlagSide(k, place[k[2]], {f})

\* Resize resets every array of the side and triggers all of its events; that of the size
\* itself (RESIZE_M, RESIZE_N) never comes without them and is not told apart from them.
ResizeM(k) == OpenM(k) /\ FlagSide(k, place[k[1]], MFlags)
ResizeN(k) == OpenN(k) /\ FlagSide(k, place[k[2]], NFlags)

\* domain::CreateGrid: the component hears of it and, destroying nothing,
\* still synchronises its edits.
CreateGrid(g, P) ==
    /\ toCreate = {}
    /\ ~GridExists(g)
    /\ place' = [place EXCEPT ![g] = P]
    /\ Raise([r \in Ranks |-> SyncEvents(r)])
    /\ ClearFlags
    /\ UNCHANGED <<Records, LocalMs, LocalNs, toCreate>>

\* Looking at the M grid only.
DyingM(r, G) == {k \in Records[r] : k[1] \in G}

\* DestroyOverlapsForDyingGrids_: the pairs with a grid in G, as rank r knows.
Dying(r, G) == {k \in Records[r] : k[1] \in G \/ k[2] \in G}

\* domain::DestroyGrid, DestroyGrids: the component hears the last of the
\* events while the grids still exist, and first destroys what depends on them.
DestroyGrids(G) ==
    /\ toCreate = {}
    /\ \A g \in G : GridExists(g)
    /\ RemovePairs([r \in Ranks |-> Dying(r, G)])
    /\ Records' = [r \in Ranks |-> Records[r] \ Dying(r, G)]
    /\ place' = [g \in GridIDs |-> IF g \in G THEN {} ELSE place[g]]
    /\ UNCHANGED toCreate

PairNext ==
    \/ EndEdit
    \/ \E k \in Pairs : CreateOne(k) \/ DestroyOne(k)
    \/ \E K \in (SUBSET Pairs) \ {{}} : Create(K) \/ Destroy(K)
    \/ \E K \in SUBSET Pairs : ClearForAssembly(K)
    \/ CreateForAssembly
    \/ \E e \in EditsMade : EditM(e[1], e[2]) \/ EditN(e[1], e[2])
    \/ \E s \in Resized : (s[2] = "M" /\ ResizeM(s[1])) \/ (s[2] = "N" /\ ResizeN(s[1]))
    \/ \E g \in GridIDs, P \in Placements : CreateGrid(g, P)
    \/ \E G \in (SUBSET GridIDs) \ {{}} : DestroyGrids(G)

PairSpec == PairInit /\ [][PairNext]_pairVars
-----------------------------------------------------------------------------
\* Types; flags are part of the sides, so only those a rank has carry any.
PairTypeOK ==
    /\ place \in [GridIDs -> Placements \cup {{}}]
    /\ Records \in [Ranks -> SUBSET Pairs]
    /\ LocalMs \in [Ranks -> SUBSET Pairs]
    /\ LocalNs \in [Ranks -> SUBSET Pairs]
    /\ \A r \in Ranks : EventFlags[r] \subseteq (LocalMs[r] \X MFlags) \cup (LocalNs[r] \X NFlags)
    /\ unheard \in [Ranks -> SUBSET (Pairs \X Edits)]
    /\ toCreate \subseteq Pairs

\* Every rank holds exactly the sides the records and its grids call for, and
\* no record outlives a grid.
LocalsMatchRecords ==
    \A r \in Ranks :
        /\ LocalMs[r] = {k \in Records[r] : r \in place[k[1]]}
        /\ LocalNs[r] = {k \in Records[r] : r \in place[k[2]]}
        /\ \A k \in Records[r] : PairPossible(k)

\* All ranks agree on the records and hear the same events in the same order:
\* what their listeners do in answer is itself collective.
RanksAgree ==
    \A r, q \in Ranks : Records[r] = Records[q] /\ Heard(log[r]) = Heard(log[q])

\* An edit that a rank's listeners have not heard of is still flagged on a rank
\* that made it, so that the next synchronisation will tell of it.
NoEditForgotten ==
    \A r \in Ranks : \A e \in unheard[r] : \E q \in Ranks : e \in EventFlags[q]

\* No operation leaves a listener in the middle of a batch, and none tells of
\* an edit to something that is already gone or not there yet.
LogsWellFormed ==
    \A r \in Ranks : EndsBatch(log[r]) /\ WithinLifetime(log[r])

\* A listener that looks up the grids, the M side or the N side of the pair it
\* is told of finds them, at its beginning and still at its end.
ListenersFindTheSide ==
    \A r \in Ranks : \A i \in 1 .. Len(log[r]) :
        LET e == log[r][i]
            M == e.seen.place[e.id[1]]
            N == e.seen.place[e.id[2]]
        IN  /\ M # {} /\ N # {}
            /\ r \in M => e.id \in e.seen.ms
            /\ r \in N => e.id \in e.seen.ns

\* CreateOverlaps' own assertion, when the assembler calls it after clearing:
\* "Overlap (%i,%i) already exists."
NoneAlreadyExists == \A r \in Ranks : toCreate \cap Records[r] = {}

\* The records as the three above say: of all ranks alike, with the sides that
\* each rank's grids call for.
RecordsAgree == PairTypeOK /\ LocalsMatchRecords /\ RanksAgree

\* What listeners may rely on, of the order of events and of what they find.
ListenersFindTheirWay == LogsWellFormed /\ ListenersFindTheSide
=============================================================================
