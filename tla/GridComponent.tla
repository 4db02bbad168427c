--------------------------- MODULE GridComponent ----------------------------
(***************************************************************************)
(* state_component and geometry_component, which work alike: one object    *)
(* for each grid that was given one.  Every rank of the domain has the     *)
(* record of it, the ranks of the grid have the object itself, and an edit *)
(* of the object, made by the ranks of the grid, is told to the listeners  *)
(* on all ranks when edits are next synchronised (SyncEdits_).             *)
(*                                                                         *)
(* As in PairComponent an operation is collective, lies between barriers   *)
(* and is one step, of which each rank does its part from what it knows.   *)
(* Unlike there, a dying grid is looked up in no record: every dying grid  *)
(* is handed to DestroyStates, which asserts that it has a state.  So the  *)
(* program is one that gives each grid its object before it destroys the   *)
(* grid (HaveStates).                                                      *)
(***************************************************************************)
EXTENDS Events

CONSTANTS
    Ranks,      \* processes of the domain
    GridIDs,    \* grids that may exist
    Placements, \* sets of ranks a grid may be created on
    Edits       \* kinds of edit

ASSUME GridComponentAssumption ==
    /\ Ranks # {}
    /\ GridIDs \subseteq Nat /\ IsFiniteSet(GridIDs)
    /\ Edits \cap {"CREATE", "DESTROY"} = {}
    /\ {} \notin Placements /\ Placements \subseteq SUBSET Ranks

VARIABLES
    place,      \* place[g]: the ranks that hold grid g, {} if g does not exist
    Records,    \* Records[r]: keys of StateRecords_ / GeometryRecords_ on rank r
    Locals,     \* Locals[r]: keys of Locals_ on rank r
    EventFlags, \* EventFlags[r]: <<grid, edit>> flagged in Locals_ and not synced
    unheard,    \* unheard[r]: <<grid, edit>> made and not heard of by r's listeners
    log         \* log[r]: the events r raised in the last operation

gridVars == <<place, Records, Locals, EventFlags, unheard, log>>

GridExists(g) == place[g] # {}
DomainGrids == {g \in GridIDs : GridExists(g)}

GridInit ==
    /\ place = [g \in GridIDs |-> {}]
    /\ Records = [r \in Ranks |-> {}]
    /\ Locals = [r \in Ranks |-> {}]
    /\ EventFlags = [r \in Ranks |-> {}]
    /\ unheard = [r \in Ranks |-> {}]
    /\ log = [r \in Ranks |-> <<>>]
-----------------------------------------------------------------------------
\* A rank that goes by its own flags.
OwnFlags(r, g) == {f \in Edits : <<g, f>> \in EventFlags[r]}

\* MPI_Allreduce (BOR) of the flags of all ranks, for grid g.
ReducedFlags(r, g) == {f \in Edits : \E q \in Ranks : <<g, f>> \in EventFlags[q]}

\* What is found on rank r while its listeners run.
Present(r) == [records |-> Records[r], locals |-> Locals[r], place |-> place]

\* SyncEdits_: the events rank r raises; afterwards no flag is set anywhere.
SyncEvents(r) ==
    LET edited == {g \in Records[r] : ReducedFlags(r, g) # {}}
    IN  Batch(SortedInts(edited), [g \in edited |-> ReducedFlags(r, g)], Present(r))

ClearFlags == EventFlags' = [r \in Ranks |-> {}]

\* The listeners of r hear what this step raises on r, and nothing older.
Raise(events) ==
    /\ log' = events
    /\ unheard' = [r \in Ranks |-> {e \in unheard[r] :
                      \A i \in 1 .. Len(events[r]) :
                          ~(events[r][i].id = e[1] /\ e[2] \in events[r][i].flags)}]

Told(r, G, flag, seen) == Batch(SortedInts(G), [g \in G |-> {flag}], seen)
-----------------------------------------------------------------------------
\* Closing the edit of the component: RestoreComponent, then EndEdit.
EndEdit ==
    /\ Raise([r \in Ranks |-> SyncEvents(r)])
    /\ ClearFlags
    /\ UNCHANGED <<place, Records, Locals>>

\* CreateStates; CreateState does the same to one grid.
Create(G) ==
    LET locals == [r \in Ranks |-> Locals[r] \cup {g \in G : r \in place[g]}]
        records == [r \in Ranks |-> Records[r] \cup G]
    IN  /\ \A g \in G : GridExists(g) /\ \A r \in Ranks : g \notin Records[r]
        /\ Locals' = locals
        /\ Records' = records
        /\ Raise([r \in Ranks |-> SyncEvents(r) \o
              Told(r, G, "CREATE", [records |-> records[r], locals |-> locals[r], place |-> place])])
        /\ ClearFlags
        /\ UNCHANGED place

CreateOne(g) == Create({g})

\* With StateRecords_ erased before the events.
EraseThenTell(r, G) ==
    SyncEvents(r) \o Told(r, G, "DESTROY", [Present(r) EXCEPT !.records = @ \ G])

\* Listeners first hear of edits that are still outstanding, then of the end.
EndEvents(r, G) ==
    SyncEvents(r) \o Told(r, G, "DESTROY", Present(r))

Erases(G) ==
    /\ Records' = [r \in Ranks |-> Records[r] \ G]
    /\ Locals' = [r \in Ranks |-> Locals[r] \ G]

RemoveStates(G) ==
    /\ Raise([r \in Ranks |-> EndEvents(r, G)])
    /\ Erases(G)
    /\ ClearFlags

\* DestroyStates; DestroyState does the same to one grid.
Destroy(G) ==
    /\ \A r \in Ranks : G \subseteq Records[r]
    /\ RemoveStates(G)
    /\ UNCHANGED place

DestroyOne(g) == Destroy({g})

\* ClearStates: each rank goes by its own records, of which there may be none.
Clear ==
    /\ Raise([r \in Ranks |-> EndEvents(r, Records[r])])
    /\ Records' = [r \in Ranks |-> {}]
    /\ Locals' = [r \in Ranks |-> {}]
    /\ ClearFlags
    /\ UNCHANGED place

\* EditState and the object's own editors: the ranks of the grid take part.
Edit(g, f) ==
    /\ GridExists(g)
    /\ \A r \in place[g] : g \in Locals[r]
    /\ EventFlags' = [r \in Ranks |->
                         EventFlags[r] \cup IF r \in place[g] THEN {<<g, f>>} ELSE {}]
    /\ unheard' = [r \in Ranks |-> unheard[r] \cup {<<g, f>>}]
    /\ log' = [r \in Ranks |-> <<>>]
    /\ UNCHANGED <<place, Records, Locals>>

\* domain::CreateGrid, CreateGrids: the component hears of them and, having
\* nothing to destroy, still synchronises its edits.
CreateGrids(P) ==
    /\ \A g \in DOMAIN P : ~GridExists(g)
    /\ place' = [g \in GridIDs |-> IF g \in DOMAIN P THEN P[g] ELSE place[g]]
    /\ Raise([r \in Ranks |-> SyncEvents(r)])
    /\ ClearFlags
    /\ UNCHANGED <<Records, Locals>>

\* domain::DestroyGrid, DestroyGrids: DestroyStatesForDyingGrids_ of all of them.
DestroyGrids(G) ==
    /\ \A g \in G : GridExists(g)
    /\ RemoveStates(G)
    /\ place' = [g \in GridIDs |-> IF g \in G THEN {} ELSE place[g]]

HaveStates(G) == \A r \in Ranks : G \subseteq Records[r]

GridSets == (SUBSET GridIDs) \ {{}}

GridNext ==
    \/ EndEdit \/ Clear
    \/ \E g \in GridIDs : CreateOne(g) \/ DestroyOne(g)
    \/ \E G \in GridSets : Create(G) \/ Destroy(G) \/ \E P \in [G -> Placements] : CreateGrids(P)
    \/ \E g \in GridIDs, f \in Edits : Edit(g, f)
    \/ \E G \in GridSets : HaveStates(G) /\ DestroyGrids(G)

GridSpec == GridInit /\ [][GridNext]_gridVars
-----------------------------------------------------------------------------
\* Types; flags are part of the objects, so only those a rank has carry any.
GridTypeOK ==
    /\ place \in [GridIDs -> Placements \cup {{}}]
    /\ Records \in [Ranks -> SUBSET GridIDs]
    /\ Locals \in [Ranks -> SUBSET GridIDs]
    /\ \A r \in Ranks : EventFlags[r] \subseteq Locals[r] \X Edits
    /\ unheard \in [Ranks -> SUBSET (GridIDs \X Edits)]

\* All ranks have the same records, none of them outlives its grid, and a rank
\* has the object exactly where it has the grid.
LocalsMatchRecords ==
    \A r \in Ranks :
        /\ \A q \in Ranks : Records[r] = Records[q]
        /\ Records[r] \subseteq DomainGrids
        /\ Locals[r] = {g \in Records[r] : r \in place[g]}

\* No edit is forgotten: on each rank whose listeners have not heard of it, the
\* next synchronisation will tell them.
NoEditForgotten ==
    \A r \in Ranks : \A e \in unheard[r] : \E q \in Ranks : e \in EventFlags[q]

\* All ranks raise the same events, whole batches of them, and say nothing of
\* an object after its end or before its beginning.
LogsAgree ==
    \A r \in Ranks :
        /\ EndsBatch(log[r]) /\ WithinLifetime(log[r])
        /\ \A q \in Ranks : Heard(log[r]) = Heard(log[q])

\* A listener that looks up the object it is told of finds its record, at its
\* beginning and still at its end ("State %i does not exist.").
ToldOfExistingOnly ==
    \A r \in Ranks : \A i \in 1 .. Len(log[r]) : log[r][i].id \in log[r][i].seen.records

\* All ranks have the same records and hear the same of them, while they exist.
RecordsAgree == GridTypeOK /\ LocalsMatchRecords /\ LogsAgree /\ ToldOfExistingOnly
=============================================================================
