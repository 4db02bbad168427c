-------------------------- MODULE Assembler_proofs --------------------------
(***************************************************************************)
(* An assembler.  The records of a component, the options of an assembler  *)
(* and what it has to do follow the grids of the domain, for any grids on  *)
(* any ranks and whatever the events say; and what the events say is the   *)
(* same on all ranks, in order, and ends up in what the assembler has to   *)
(* do.  The stages of an assembly go back to what the user gave, and leave *)
(* whole stencils and whole connections, for any grids on any ranks, flags *)
(* and options.                                                            *)
(***************************************************************************)
EXTENDS Assembler, Assembly, Events_proofs, TLAPS

StateTypeOK ==
    /\ place \in [GridIDs -> Placements \cup {{}}]
    /\ Records \in [Ranks -> SUBSET GridIDs]
    /\ Locals \in [Ranks -> SUBSET GridIDs]
    /\ bound \in BOOLEAN /\ hearsFirst \in BOOLEAN /\ editing \in BOOLEAN
    /\ options \in [ids : SUBSET GridIDs, grids : SUBSET GridIDs,
                    pairs : SUBSET (GridIDs \X GridIDs)]
    /\ manifest \in [grids : SUBSET GridIDs, pairs : SUBSET (GridIDs \X GridIDs)]

IInv == StateTypeOK /\ LocalsMatchRecords /\ OptionsFollowGrids
-----------------------------------------------------------------------------
\* What becomes of the grids of the domain (domain::CreateGrids, DestroyGrids).
LEMMA GridsCreated ==
    ASSUME StateTypeOK, NEW G \in GridSets, NEW P \in [G -> Placements], CreateGrids(P)
    PROVE  /\ DomainGrids' = DomainGrids \cup G
           /\ \A g \in DomainGrids : g \notin G /\ place'[g] = place[g]
           /\ place' \in [GridIDs -> Placements \cup {{}}]
  <1>1. /\ G \subseteq GridIDs /\ DOMAIN P = G
        /\ \A g \in G : ~GridExists(g) /\ P[g] \in Placements
        /\ place' = [g \in GridIDs |-> IF g \in G THEN P[g] ELSE place[g]]
    BY DEF CreateGrids, GridSets
  <1>2. \A g \in GridIDs : GridExists(g)' <=> g \in G \/ GridExists(g)
    BY <1>1, GridComponentAssumption DEF GridExists
  <1>3. place' \in [GridIDs -> Placements \cup {{}}]
    BY <1>1 DEF StateTypeOK
  <1> QED
    BY <1>1, <1>2, <1>3 DEF DomainGrids

LEMMA GridsDestroyed ==
    ASSUME StateTypeOK, NEW G \in GridSets, DestroyGrids(G)
    PROVE  /\ DomainGrids' = DomainGrids \ G
           /\ \A g \in DomainGrids \ G : place'[g] = place[g]
           /\ place' \in [GridIDs -> Placements \cup {{}}]
  BY GridComponentAssumption
  DEF StateTypeOK, DestroyGrids, GridSets, DomainGrids, GridExists

\* A step of the component alone leaves the grids as they are, and the records
\* agree when it is over (CreateStates, DestroyStates, ClearStates, SyncEdits_).
RecordsOK ==
    /\ Records \in [Ranks -> SUBSET GridIDs]
    /\ Locals \in [Ranks -> SUBSET GridIDs]
    /\ LocalsMatchRecords

LEMMA CreateKeepsRecords ==
    ASSUME StateTypeOK, LocalsMatchRecords, NEW G \in SUBSET GridIDs, Create(G)
    PROVE  place' = place /\ RecordsOK'
  <1>1. /\ place' = place
        /\ Records' = [r \in Ranks |-> Records[r] \cup G]
        /\ Locals' = [r \in Ranks |-> Locals[r] \cup {g \in G : r \in place[g]}]
        /\ \A g \in G : GridExists(g)
    BY DEF Create
  <1>2. DomainGrids' = DomainGrids /\ G \subseteq DomainGrids
    BY <1>1 DEF DomainGrids, GridExists
  <1>3. Records' \in [Ranks -> SUBSET GridIDs] /\ Locals' \in [Ranks -> SUBSET GridIDs]
    BY <1>1 DEF StateTypeOK
  <1> QED
    BY <1>1, <1>2, <1>3 DEF StateTypeOK, LocalsMatchRecords, RecordsOK

LEMMA DestroyKeepsRecords ==
    ASSUME StateTypeOK, LocalsMatchRecords, NEW G \in SUBSET GridIDs, Destroy(G)
    PROVE  place' = place /\ RecordsOK'
  <1>1. /\ place' = place
        /\ Records' = [r \in Ranks |-> Records[r] \ G]
        /\ Locals' = [r \in Ranks |-> Locals[r] \ G]
    BY DEF Destroy, RemoveStates, Erases
  <1>2. DomainGrids' = DomainGrids
    BY <1>1 DEF DomainGrids, GridExists
  <1> QED
    BY <1>1, <1>2 DEF StateTypeOK, LocalsMatchRecords, RecordsOK

LEMMA ClearKeepsRecords ==
    ASSUME StateTypeOK, LocalsMatchRecords, EndEdit \/ Clear
    PROVE  place' = place /\ RecordsOK'
  <1>1. CASE EndEdit
    BY <1>1 DEF EndEdit, StateTypeOK, LocalsMatchRecords, RecordsOK, DomainGrids, GridExists
  <1>2. CASE Clear
    BY <1>2 DEF Clear, LocalsMatchRecords, RecordsOK
  <1> QED
    BY <1>1, <1>2

\* An assembler that hears of states does or does not have everything to do
\* anew, and nothing else (OnStateEvent_).
LEMMA OptionsKept ==
    ASSUME IInv, RecordsOK', place' = place, HearStates
    PROVE  IInv'
  <1>1. DomainGrids' = DomainGrids /\ DomainGrids \subseteq GridIDs
    BY DEF DomainGrids, GridExists
  <1>2. manifest' = manifest \/ (bound /\ manifest' = AllWork(DomainGrids))
    BY DEF HearStates, OnStateEvents
  <1>3. StateTypeOK'
    BY <1>1, <1>2 DEF IInv, StateTypeOK, RecordsOK, HearStates, AllWork
  <1>4. OptionsFollowGrids'
    BY <1>1 DEF IInv, HearStates, OptionsFollowGrids
  <1> QED
    BY <1>3, <1>4 DEF IInv, RecordsOK

\* New grids get their options (OnGridEvent_, options::AddGrids).
LEMMA OptionsAdded ==
    ASSUME IInv, NEW G \in GridSets, NEW P \in [G -> Placements], CreateGrids(P), HearCreated(G)
    PROVE  IInv'
  <1>1. /\ DomainGrids' = DomainGrids \cup G
        /\ \A g \in DomainGrids : g \notin G /\ place'[g] = place[g]
        /\ place' \in [GridIDs -> Placements \cup {{}}]
        /\ DomainGrids \subseteq GridIDs /\ G \subseteq GridIDs
    BY GridsCreated DEF IInv, DomainGrids, GridSets
  <1>2. Records' = Records /\ Locals' = Locals
    BY DEF CreateGrids
  <1>3. manifest' = manifest \/ (bound /\ manifest' = AllWork(DomainGrids'))
    BY DEF HearCreated, OnStateEvents
  <1>4. options' = IF bound THEN [options EXCEPT !.ids = @ \cup G] ELSE options
    BY DEF HearCreated, AddGrids
  <1>5. bound' = bound /\ hearsFirst' = hearsFirst /\ editing' = editing
    BY DEF HearCreated
  <1>6. StateTypeOK'
    BY <1>1, <1>2, <1>3, <1>4, <1>5 DEF IInv, StateTypeOK, AllWork
  <1>7. LocalsMatchRecords'
    BY <1>1, <1>2 DEF IInv, LocalsMatchRecords
  <1>8. OptionsFollowGrids'
    BY <1>1, <1>4, <1>5 DEF IInv, StateTypeOK, OptionsFollowGrids, NoOptions
  <1> QED
    BY <1>6, <1>7, <1>8 DEF IInv

\* What is left to do when grids have died, and the component has told of their
\* states before or after that (OnGridEvent_, Update_, OnStateEvent_).
LEMMA DyingHeard ==
    ASSUME NEW G, HearDying(G)
    PROVE  \/ manifest' = manifest
           \/ bound /\ manifest' = RemoveEntries(manifest, G)
           \/ bound /\ manifest' = RemoveEntries(AllWork(DomainGrids), G)
           \/ bound /\ hearsFirst /\ manifest' = AllWork(DomainGrids)
  BY DEF HearDying, OnStateEvents

\* Dying grids take their options along, whoever hears of them first.
LEMMA OptionsRemoved ==
    ASSUME IInv, NEW G \in GridSets, DestroyGrids(G), HearDying(G)
    PROVE  IInv'
  <1>1. /\ DomainGrids' = DomainGrids \ G
        /\ \A g \in DomainGrids \ G : place'[g] = place[g]
        /\ place' \in [GridIDs -> Placements \cup {{}}]
        /\ DomainGrids \subseteq GridIDs /\ G \subseteq GridIDs
    BY GridsDestroyed DEF IInv, DomainGrids, GridSets
  <1>2. /\ Records' = [r \in Ranks |-> Records[r] \ G]
        /\ Locals' = [r \in Ranks |-> Locals[r] \ G]
    BY DEF DestroyGrids, RemoveStates, Erases
  <1>4. options' = IF bound THEN RemoveGrids(options, G) ELSE options
    BY DEF HearDying
  <1>5. bound' = bound /\ hearsFirst' = hearsFirst /\ editing' = editing
    BY DEF HearDying
  <1>6. StateTypeOK'
    <2>1. /\ Records' \in [Ranks -> SUBSET GridIDs]
          /\ Locals' \in [Ranks -> SUBSET GridIDs]
      BY <1>2 DEF IInv, StateTypeOK
    <2>2. manifest' \in [grids : SUBSET GridIDs, pairs : SUBSET (GridIDs \X GridIDs)]
      BY <1>1, DyingHeard DEF IInv, StateTypeOK, AllWork, RemoveEntries
    <2>3. options' \in [ids : SUBSET GridIDs, grids : SUBSET GridIDs,
                        pairs : SUBSET (GridIDs \X GridIDs)]
      BY <1>4 DEF IInv, StateTypeOK, RemoveGrids
    <2> QED
      BY <1>1, <1>5, <2>1, <2>2, <2>3 DEF IInv, StateTypeOK
  <1>7. LocalsMatchRecords'
    BY <1>1, <1>2 DEF IInv, StateTypeOK, LocalsMatchRecords
  <1>8. OptionsFollowGrids'
    BY <1>1, <1>4, <1>5 DEF IInv, StateTypeOK, OptionsFollowGrids, NoOptions, RemoveGrids
  <1> QED
    BY <1>6, <1>7, <1>8 DEF IInv
-----------------------------------------------------------------------------
\* An assembly has nothing left to do (assembler::Assemble); options are edited,
\* and at the end of the edit a grid has none with itself (OnOptionsEndEdit_).
LEMMA OwnStepsKeepOrder ==
    ASSUME IInv, OptionsStep \/ Assemble \/ Bind \/ Unbind
    PROVE  IInv'
  <1>1. place' = place /\ Records' = Records /\ Locals' = Locals
    BY DEF OptionsStep, EditOptions, ChangeOptions, EndEditOptions, Assemble, Bind, Unbind, gridVars
  <1>2. DomainGrids' = DomainGrids /\ DomainGrids \subseteq GridIDs
    BY <1>1 DEF DomainGrids, GridExists
  <1>3. LocalsMatchRecords'
    BY <1>1, <1>2 DEF IInv, LocalsMatchRecords
  <1>4. CASE EditOptions
    BY <1>1, <1>2, <1>3, <1>4
    DEF EditOptions, IInv, StateTypeOK, OptionsFollowGrids
  <1>5. CASE ChangeOptions
    <2>1. /\ bound' = bound /\ hearsFirst' = hearsFirst
          /\ editing' = editing /\ manifest' = manifest /\ editing
      BY <1>5 DEF ChangeOptions
    <2>2. PICK G \in SUBSET options.ids, H \in SUBSET options.ids :
              options' \in {SetForGrids(options, G), ResetForGrids(options, G),
                           SetForPairs(options, G, H), ResetForPairs(options, G, H)}
      BY <1>5 DEF ChangeOptions
    <2>3. options' \in [ids : SUBSET GridIDs, grids : SUBSET GridIDs,
                        pairs : SUBSET (GridIDs \X GridIDs)]
      BY <2>2 DEF IInv, StateTypeOK, SetForGrids, ResetForGrids, SetForPairs, ResetForPairs
    <2>4. OptionsFollowGrids'
      BY <1>2, <2>1, <2>2
      DEF IInv, StateTypeOK, OptionsFollowGrids, NoOptions,
          SetForGrids, ResetForGrids, SetForPairs, ResetForPairs
    <2> QED
      BY <1>1, <1>2, <1>3, <2>1, <2>3, <2>4 DEF IInv, StateTypeOK
  <1>6. CASE EndEditOptions
    <2>1. /\ bound' = bound /\ bound /\ hearsFirst' = hearsFirst /\ editing' = FALSE
          /\ manifest' = AllWork(DomainGrids) /\ options' = WithoutSelfPairs(options, DomainGrids)
      BY <1>6 DEF EndEditOptions, IInv, StateTypeOK
    <2>2. OptionsFollowGrids'
      BY <1>2, <2>1 DEF IInv, StateTypeOK, OptionsFollowGrids, WithoutSelfPairs
    <2>3. StateTypeOK'
      BY <1>1, <1>2, <2>1 DEF IInv, StateTypeOK, WithoutSelfPairs, AllWork
    <2> QED
      BY <1>3, <2>2, <2>3 DEF IInv
  <1>7. CASE Assemble
    BY <1>1, <1>2, <1>3, <1>7
    DEF Assemble, IInv, StateTypeOK, OptionsFollowGrids, NoWork
  <1>8. CASE Bind
    BY <1>1, <1>2, <1>3, <1>8
    DEF Bind, AddGrids, NoOptions, IInv, StateTypeOK, OptionsFollowGrids
  <1>9. CASE Unbind
    BY <1>1, <1>2, <1>3, <1>9
    DEF Unbind, NoOptions, IInv, StateTypeOK, OptionsFollowGrids
  <1> QED
    BY <1>4, <1>5, <1>6, <1>7, <1>8, <1>9 DEF OptionsStep

\* All of it holds together in every state, for any grids, ranks and edits.
THEOREM Invariance == Spec => []IInv
  <1>1. Init => IInv
    <2> SUFFICES ASSUME Init PROVE IInv
      OBVIOUS
    <2>1. StateTypeOK
      BY DEF Init, GridInit, NoOptions, NoWork, StateTypeOK
    <2>2. LocalsMatchRecords
      BY DEF Init, GridInit, LocalsMatchRecords
    <2>3. OptionsFollowGrids
      BY DEF Init, NoOptions, OptionsFollowGrids
    <2> QED
      BY <2>1, <2>2, <2>3 DEF IInv
  <1>2. ASSUME IInv, [Next]_vars
        PROVE  IInv'
    <2>1. IInv => StateTypeOK /\ LocalsMatchRecords
      BY DEF IInv
    <2>2. CASE ComponentStep
      <3>1. CASE (EndEdit \/ Clear) /\ HearStates
        BY <1>2, <2>1, <3>1, ClearKeepsRecords, OptionsKept
      <3>2. ASSUME NEW G \in SUBSET GridIDs, Create(G) \/ Destroy(G), HearStates
            PROVE  IInv'
        BY <1>2, <2>1, <3>2, CreateKeepsRecords, DestroyKeepsRecords, OptionsKept
      <3>3. ASSUME NEW g \in GridIDs, NEW f \in Edits, Edit(g, f) /\ UNCHANGED asmVars
            PROVE  IInv'
        BY <1>2, <3>3 DEF Edit, asmVars, IInv, StateTypeOK, LocalsMatchRecords,
                          OptionsFollowGrids, DomainGrids, GridExists
      <3>4. ASSUME NEW G \in GridSets, NEW P \in [G -> Placements], CreateGrids(P), HearCreated(G)
            PROVE  IInv'
        BY <1>2, <3>4, OptionsAdded
      <3> QED
        BY <2>2, <3>1, <3>2, <3>3, <3>4 DEF ComponentStep, CreateOne, DestroyOne, GridSets
    <2>3. ASSUME NEW G \in GridSets, DestroyGrids(G), HearDying(G)
          PROVE  IInv'
      BY <1>2, <2>3, OptionsRemoved
    <2>4. CASE OptionsStep \/ Assemble \/ Bind \/ Unbind
      BY <1>2, <2>4, OwnStepsKeepOrder
    <2>5. CASE UNCHANGED vars
      BY <1>2, <2>5 DEF vars, gridVars, asmVars, IInv, StateTypeOK, LocalsMatchRecords,
                        OptionsFollowGrids, DomainGrids, GridExists
    <2> QED
      BY <1>2, <2>2, <2>3, <2>4, <2>5 DEF Next
  <1> QED
    BY <1>1, <1>2, PTL DEF Spec

\* The options mention the grids of the domain and no others, and no grid with
\* itself once the edit is over (assembler::OnGridEvent_, OnOptionsEndEdit_).
THEOREM OptionsAreOfGrids == Spec => []OptionsFollowGrids
  <1>1. IInv => OptionsFollowGrids
    BY DEF IInv
  <1> QED
    BY <1>1, Invariance, PTL

\* An assembler that hears of dying grids after the component leaves no work for
\* them, however late the component spoke of them; what is stale was so when it was
\* bound (assembler::OnStateEvent_, RemoveAssemblyManifestEntries_).
THEOREM WorkIsOnGrids == Spec => NoWorkForTheGone
  <1>1. ASSUME IInv, [Next]_vars, bound, bound', ~hearsFirst
        PROVE  LeavesNoWork
    <2>1. /\ manifest.grids \subseteq GridIDs /\ manifest.pairs \subseteq GridIDs \X GridIDs
          /\ DomainGrids \subseteq GridIDs
      BY <1>1 DEF IInv, StateTypeOK, DomainGrids
    <2>2. CASE /\ manifest' = manifest \/ manifest' = AllWork(DomainGrids')
               /\ DomainGrids \subseteq DomainGrids'
      BY <2>1, <2>2 DEF LeavesNoWork, Stale, AllWork
    <2>3. ASSUME NEW G \in GridSets, DestroyGrids(G), HearDying(G)
          PROVE  LeavesNoWork
      <3>1. DomainGrids' = DomainGrids \ G
        BY <1>1, <2>3, GridsDestroyed DEF IInv
      <3>2. PICK w \in {manifest, AllWork(DomainGrids)} : manifest' = RemoveEntries(w, G)
        BY <1>1, <2>3 DEF HearDying, OnStateEvents
      <3>3. Stale(w, DomainGrids).grids \subseteq Stale(manifest, DomainGrids).grids
        BY <3>2 DEF Stale, AllWork
      <3>4. Stale(w, DomainGrids).pairs \subseteq Stale(manifest, DomainGrids).pairs
        BY <3>2 DEF Stale, AllWork
      <3>5. w.pairs \subseteq GridIDs \X GridIDs
        BY <2>1, <3>2 DEF AllWork
      <3> QED
        BY <3>1, <3>2, <3>3, <3>4, <3>5 DEF LeavesNoWork, Stale, RemoveEntries
    <2>4. CASE Assemble
      BY <2>4 DEF Assemble, LeavesNoWork, Stale, NoWork
    <2>5. ASSUME NEW G \in GridSets, NEW P \in [G -> Placements], CreateGrids(P), HearCreated(G)
          PROVE  LeavesNoWork
      BY <1>1, <2>2, <2>5, GridsCreated DEF IInv, HearCreated, OnStateEvents
    <2>6. CASE HearStates /\ place' = place
      <3>1. DomainGrids' = DomainGrids
        BY <2>6 DEF DomainGrids, GridExists
      <3> QED
        BY <2>2, <2>6, <3>1 DEF HearStates, OnStateEvents
    <2>7. CASE OptionsStep \/ (place' = place /\ UNCHANGED asmVars)
      <3>1. DomainGrids' = DomainGrids
        BY <2>7 DEF OptionsStep, EditOptions, ChangeOptions, EndEditOptions,
                    gridVars, DomainGrids, GridExists
      <3> QED
        BY <2>2, <2>7, <3>1
        DEF OptionsStep, EditOptions, ChangeOptions, EndEditOptions, asmVars
    <2>8. CASE ComponentStep
      <3>1. ASSUME EndEdit \/ Clear \/ \E G \in SUBSET GridIDs : Create(G) \/ Destroy(G)
            PROVE  place' = place
        BY <3>1 DEF EndEdit, Clear, Create, Destroy
      <3>2. ASSUME NEW g \in GridIDs, NEW f \in Edits, Edit(g, f) PROVE place' = place
        BY <3>2 DEF Edit
      <3> QED
        BY <2>5, <2>6, <2>7, <2>8, <3>1, <3>2
        DEF ComponentStep, CreateOne, DestroyOne, GridSets
    <2>9. CASE UNCHANGED vars
      BY <2>7, <2>9 DEF vars, gridVars
    <2>10. ~Bind /\ ~Unbind
      BY <1>1 DEF Bind, Unbind
    <2> QED
      BY <1>1, <2>3, <2>4, <2>7, <2>8, <2>9, <2>10 DEF Next
  <1>2. IInv /\ [Next]_vars => [bound /\ bound' /\ ~hearsFirst => LeavesNoWork]_vars
    BY <1>1
  <1> QED
    BY <1>2, Invariance, PTL DEF Spec, NoWorkForTheGone

\* Every rank has the same records, for grids that exist, and the objects of the
\* grids it holds a part of (StateRecords_ and Locals_ of state_component).
THEOREM RecordsFollowGrids == Spec => []LocalsMatchRecords
  <1>1. IInv => LocalsMatchRecords
    BY DEF IInv
  <1> QED
    BY <1>1, Invariance, PTL
-----------------------------------------------------------------------------
\* What the listeners of the component are told.  Flags are set on objects that
\* the rank has, what is told agrees on all ranks, and nothing is forgotten.
TellsOK ==
    /\ \A r \in Ranks : EventFlags[r] \subseteq Locals[r] \X Edits
    /\ unheard \in [Ranks -> SUBSET (GridIDs \X Edits)]
    /\ NoEditForgotten /\ LogsAgree /\ ToldOfExistingOnly

LEMMA GridsInOrder ==
    ASSUME NEW G \in SUBSET GridIDs
    PROVE  /\ IsFiniteSet(G) /\ StrictOrder(G, IntOrder(G))
           /\ SortedInts(G) = Sorted(G, IntOrder(G))
  <1>1. IsFiniteSet(G)
    BY GridComponentAssumption, FS_Subset
  <1> QED
    BY <1>1, GridComponentAssumption, IntsInOrder

Edited(r) == {g \in Records[r] : ReducedFlags(r, g) # {}}
EditedFlags(r) == [g \in Edited(r) |-> ReducedFlags(r, g)]

LEMMA SyncIsWhole ==
    ASSUME StateTypeOK, NEW r \in Ranks
    PROVE  WholeBatch(SyncEvents(r), Edited(r), EditedFlags(r), Present(r))
  <1>1. Edited(r) \in SUBSET GridIDs
    BY DEF StateTypeOK, Edited
  <1>2. SyncEvents(r) = Batch(Sorted(Edited(r), IntOrder(Edited(r))), EditedFlags(r), Present(r))
    BY DEF SyncEvents, Edited, EditedFlags, SortedInts, IntOrder
  <1> QED
    BY <1>1, <1>2, GridsInOrder, BatchIsWhole

LEMMA ToldIsWhole ==
    ASSUME NEW r, NEW G \in SUBSET GridIDs, NEW flag, NEW seen
    PROVE  WholeBatch(Told(r, G, flag, seen), G, [g \in G |-> {flag}], seen)
  <1>1. Told(r, G, flag, seen) = Batch(Sorted(G, IntOrder(G)), [g \in G |-> {flag}], seen)
    BY DEF Told, SortedInts, IntOrder
  <1> QED
    BY <1>1, GridsInOrder, BatchIsWhole

\* All ranks raise the same events (MPI_Allreduce in SyncEdits_).
LEMMA SyncAlike ==
    ASSUME StateTypeOK, LocalsMatchRecords, NEW r \in Ranks, NEW q \in Ranks
    PROVE  Heard(SyncEvents(r)) = Heard(SyncEvents(q))
  <1> DEFINE ids == Sorted(Edited(r), IntOrder(Edited(r)))
  <1>1. Edited(r) = Edited(q) /\ EditedFlags(r) = EditedFlags(q) /\ Edited(r) \in SUBSET GridIDs
    BY DEF StateTypeOK, LocalsMatchRecords, Edited, EditedFlags, ReducedFlags
  <1>2. /\ SyncEvents(r) = Batch(ids, EditedFlags(r), Present(r))
        /\ SyncEvents(q) = Batch(ids, EditedFlags(r), Present(q))
    BY <1>1 DEF SyncEvents, Edited, EditedFlags, SortedInts, IntOrder
  <1>3. Len(ids) \in Nat
    BY <1>1, GridsInOrder, SortedIsLog DEF IsLog
  <1> QED
    BY <1>2, <1>3, BatchesHeardAlike

LEMMA ToldAlike ==
    ASSUME NEW r, NEW q, NEW G \in SUBSET GridIDs, NEW flag, NEW s, NEW t
    PROVE  Heard(Told(r, G, flag, s)) = Heard(Told(q, G, flag, t))
  <1>1. Len(SortedInts(G)) \in Nat
    BY GridsInOrder, SortedIsLog DEF IsLog
  <1> QED
    BY <1>1, BatchesHeardAlike DEF Told

\* Events in order, about grids of D that listeners find, and of all edits made.
InOrder(u, D) ==
    /\ EndsBatch(u) /\ WithinLifetime(u)
    /\ \A i \in 1 .. Len(u) : u[i].id \in u[i].seen.records /\ u[i].id \in D
    /\ \A q \in Ranks : \A e \in EventFlags[q] :
          \E i \in 1 .. Len(u) : u[i].id = e[1] /\ e[2] \in u[i].flags

LEMMA EditsAreSynced ==
    ASSUME StateTypeOK, LocalsMatchRecords, TellsOK, NEW r \in Ranks,
           NEW q \in Ranks, NEW e \in EventFlags[q]
    PROVE  e[1] \in Edited(r) /\ e[2] \in EditedFlags(r)[e[1]] /\ EditedFlags(r)[e[1]] \subseteq Edits
  <1>1. e \in Locals[q] \X Edits
    BY DEF TellsOK
  <1>2. e = <<e[1], e[2]>> /\ e[1] \in Records[r] /\ e[2] \in Edits
    BY <1>1 DEF LocalsMatchRecords
  <1>3. e[2] \in ReducedFlags(r, e[1])
    BY <1>2 DEF ReducedFlags
  <1> QED
    BY <1>2, <1>3 DEF Edited, EditedFlags, ReducedFlags

LEMMA SyncInOrder ==
    ASSUME StateTypeOK, LocalsMatchRecords, TellsOK, NEW r \in Ranks
    PROVE  InOrder(SyncEvents(r), Records[r])
  <1>1. WholeBatch(SyncEvents(r), Edited(r), EditedFlags(r), Present(r))
    BY SyncIsWhole
  <1>2. EndsBatch(SyncEvents(r)) /\ WithinLifetime(SyncEvents(r))
    BY <1>1, WholeBatchInOrder
  <1>3. \A i \in 1 .. Len(SyncEvents(r)) :
            SyncEvents(r)[i].id \in SyncEvents(r)[i].seen.records /\ SyncEvents(r)[i].id \in Records[r]
    BY <1>1 DEF WholeBatch, Present, Edited
  <1>4. ASSUME NEW q \in Ranks, NEW e \in EventFlags[q]
        PROVE  \E i \in 1 .. Len(SyncEvents(r)) :
                   SyncEvents(r)[i].id = e[1] /\ e[2] \in SyncEvents(r)[i].flags
    BY <1>1, EditsAreSynced DEF WholeBatch
  <1> QED
    BY <1>2, <1>3, <1>4 DEF InOrder

\* The same with objects that begin or end after the edits have been told of.
LEMMA SyncThenToldInOrder ==
    ASSUME StateTypeOK, LocalsMatchRecords, TellsOK, NEW r \in Ranks,
           NEW G \in SUBSET GridIDs, NEW flag, NEW seen, G \subseteq seen.records,
           flag = "DESTROY" \/ (flag = "CREATE" /\ G \cap Records[r] = {})
    PROVE  InOrder(SyncEvents(r) \o Told(r, G, flag, seen), Records[r] \cup G)
  <1> DEFINE s == SyncEvents(r)
             t == Told(r, G, flag, seen)
             f == [g \in G |-> {flag}]
  <1>1. WholeBatch(s, Edited(r), EditedFlags(r), Present(r)) /\ WholeBatch(t, G, f, seen)
    BY SyncIsWhole, ToldIsWhole
  <1>2. \A k \in Edited(r) : "CREATE" \notin EditedFlags(r)[k] /\ "DESTROY" \notin EditedFlags(r)[k]
    BY GridComponentAssumption DEF EditedFlags, ReducedFlags
  <1>3. Begins(Edited(r), G, f) \/ Ends(G, f)
    BY DEF Begins, Ends, Edited
  <1> HIDE DEF s, t, f
  <1>4. EndsBatch(s \o t) /\ WithinLifetime(s \o t)
    BY <1>1, <1>2, <1>3, JoinedInOrder
  <1>5. ASSUME NEW i \in 1 .. Len(s \o t)
        PROVE  (s \o t)[i].id \in (s \o t)[i].seen.records /\ (s \o t)[i].id \in Records[r] \cup G
    <2>1. Speaks((s \o t)[i], Edited(r), EditedFlags(r), Present(r)) \/ Speaks((s \o t)[i], G, f, seen)
      BY <1>1, JoinedSays
    <2> QED
      BY <2>1 DEF Speaks, Present, Edited
  <1>6. ASSUME NEW q \in Ranks, NEW e \in EventFlags[q]
        PROVE  \E i \in 1 .. Len(s \o t) : (s \o t)[i].id = e[1] /\ e[2] \in (s \o t)[i].flags
    <2>1. e[1] \in Edited(r) /\ e[2] \in EditedFlags(r)[e[1]]
      BY EditsAreSynced
    <2>2. \A k \in Edited(r) : \E i \in 1 .. Len(s \o t) :
              (s \o t)[i].id = k /\ (s \o t)[i].flags = EditedFlags(r)[k]
      BY <1>1, JoinedSays
    <2> QED
      BY <2>1, <2>2
  <1> QED
    BY <1>4, <1>5, <1>6 DEF InOrder, s, t

\* Such events leave nothing untold and nothing in disorder.
LEMMA RaisedInOrder ==
    ASSUME TellsOK, NEW ev, NEW D, Raise(ev), ClearFlags,
           \A r \in Ranks : InOrder(ev[r], D),
           \A r, q \in Ranks : Heard(ev[r]) = Heard(ev[q])
    PROVE  TellsOK' /\ \A r \in Ranks : \A i \in 1 .. Len(log'[r]) : log'[r][i].id \in D
  <1>1. log' = ev /\ EventFlags' = [r \in Ranks |-> {}]
    BY DEF Raise, ClearFlags
  <1>2. unheard' = [r \in Ranks |-> {e \in unheard[r] :
                       \A i \in 1 .. Len(ev[r]) : ~(ev[r][i].id = e[1] /\ e[2] \in ev[r][i].flags)}]
    BY DEF Raise
  <1>3. \A r \in Ranks : unheard'[r] = {}
    BY <1>2 DEF TellsOK, NoEditForgotten, InOrder
  <1>4. unheard' \in [Ranks -> SUBSET (GridIDs \X Edits)]
    BY <1>2 DEF TellsOK
  <1>5. NoEditForgotten'
    BY <1>3 DEF NoEditForgotten
  <1>6. LogsAgree' /\ ToldOfExistingOnly'
    BY <1>1 DEF LogsAgree, ToldOfExistingOnly, InOrder
  <1> QED
    BY <1>1, <1>4, <1>5, <1>6 DEF TellsOK, InOrder
-----------------------------------------------------------------------------
LEMMA DomainGridsAreGrids == DomainGrids \subseteq GridIDs
  BY DEF DomainGrids

\* What each operation of the component tells: of its edits, and of what it
\* creates or destroys, all of which exist (SyncEdits_, CreateStates,
\* DestroyStates, ClearStates).
LEMMA SyncTells ==
    ASSUME StateTypeOK, LocalsMatchRecords, TellsOK,
           Raise([r \in Ranks |-> SyncEvents(r)]), ClearFlags
    PROVE  TellsOK' /\ \A r \in Ranks : \A i \in 1 .. Len(log'[r]) : log'[r][i].id \in DomainGrids
  <1> DEFINE ev == [r \in Ranks |-> SyncEvents(r)]
  <1>1. \A r \in Ranks : InOrder(ev[r], DomainGrids)
    BY SyncInOrder DEF InOrder, LocalsMatchRecords
  <1>2. \A r, q \in Ranks : Heard(ev[r]) = Heard(ev[q])
    BY SyncAlike
  <1> HIDE DEF ev
  <1> QED
    BY <1>1, <1>2, RaisedInOrder DEF ev

\* What may be told of after a synchronisation: an end, or the beginning of
\* records that are new.
MayTell(G, flag) == flag = "DESTROY" \/ (flag = "CREATE" /\ \A r \in Ranks : G \cap Records[r] = {})

LEMMA SyncThenTold ==
    ASSUME StateTypeOK, LocalsMatchRecords, TellsOK, NEW G \in SUBSET DomainGrids,
           NEW flag, NEW seen, \A r \in Ranks : G \subseteq seen[r].records,
           MayTell(G, flag),
           Raise([r \in Ranks |-> SyncEvents(r) \o Told(r, G, flag, seen[r])]), ClearFlags
    PROVE  TellsOK' /\ \A r \in Ranks : \A i \in 1 .. Len(log'[r]) : log'[r][i].id \in DomainGrids
  <1> DEFINE ev == [r \in Ranks |-> SyncEvents(r) \o Told(r, G, flag, seen[r])]
  <1>1. G \in SUBSET GridIDs
    BY DomainGridsAreGrids
  <1>2. ASSUME NEW r \in Ranks
        PROVE  InOrder(ev[r], DomainGrids)
    <2>1. InOrder(ev[r], Records[r] \cup G)
      BY <1>1, SyncThenToldInOrder DEF MayTell
    <2>2. Records[r] \cup G \subseteq DomainGrids
      BY DEF LocalsMatchRecords
    <2> QED
      BY <2>1, <2>2 DEF InOrder
  <1>3. ASSUME NEW r \in Ranks, NEW q \in Ranks
        PROVE  Heard(ev[r]) = Heard(ev[q])
    <2>1. /\ IsLog(SyncEvents(r)) /\ IsLog(SyncEvents(q))
          /\ IsLog(Told(r, G, flag, seen[r])) /\ IsLog(Told(q, G, flag, seen[q]))
      BY <1>1, SyncIsWhole, ToldIsWhole DEF WholeBatch
    <2>2. Heard(SyncEvents(r)) = Heard(SyncEvents(q))
      BY SyncAlike
    <2>3. Heard(Told(r, G, flag, seen[r])) = Heard(Told(q, G, flag, seen[q]))
      BY <1>1, ToldAlike
    <2> QED
      BY <2>1, <2>2, <2>3, JoinsHeardAlike
  <1> HIDE DEF ev
  <1> QED
    BY <1>2, <1>3, RaisedInOrder DEF ev
ToldWithin(D) == \A r \in Ranks : \A i \in 1 .. Len(log'[r]) : log'[r][i].id \in D

LEMMA EndTells ==
    ASSUME StateTypeOK, LocalsMatchRecords, TellsOK, NEW G \in SUBSET DomainGrids,
           \A r \in Ranks : G \subseteq Records[r],
           Raise([r \in Ranks |-> EndEvents(r, G)]), ClearFlags
    PROVE  TellsOK' /\ ToldWithin(DomainGrids)
  <1> DEFINE seen == [r \in Ranks |-> Present(r)]
  <1>1. \A r \in Ranks : G \subseteq seen[r].records
    BY DEF Present
  <1>2. [r \in Ranks |-> EndEvents(r, G)]
            = [r \in Ranks |-> SyncEvents(r) \o Told(r, G, "DESTROY", seen[r])]
    BY DEF EndEvents
  <1>3. Raise([r \in Ranks |-> SyncEvents(r) \o Told(r, G, "DESTROY", seen[r])])
    BY <1>2, Zenon
  <1>4. MayTell(G, "DESTROY")
    BY DEF MayTell
  <1> HIDE DEF seen
  <1> QED
    BY <1>1, <1>3, <1>4, SyncThenTold, Zenon DEF ToldWithin

LEMMA CreateTells ==
    ASSUME StateTypeOK, LocalsMatchRecords, TellsOK, NEW G \in SUBSET GridIDs, Create(G)
    PROVE  TellsOK' /\ ToldWithin(DomainGrids)
  <1> DEFINE locals == [r \in Ranks |-> Locals[r] \cup {g \in G : r \in place[g]}]
             records == [r \in Ranks |-> Records[r] \cup G]
             seen == [r \in Ranks |-> [records |-> records[r], locals |-> locals[r], place |-> place]]
  <1>1. G \in SUBSET DomainGrids /\ \A r \in Ranks : G \cap Records[r] = {}
    BY DEF Create, DomainGrids
  <1>2. \A r \in Ranks : G \subseteq seen[r].records
    OBVIOUS
  <1>3. Raise([r \in Ranks |-> SyncEvents(r) \o Told(r, G, "CREATE", seen[r])]) /\ ClearFlags
    <2>1. [r \in Ranks |-> SyncEvents(r) \o Told(r, G, "CREATE", seen[r])]
              = [r \in Ranks |-> SyncEvents(r) \o
                    Told(r, G, "CREATE", [records |-> records[r], locals |-> locals[r], place |-> place])]
      OBVIOUS
    <2> HIDE DEF locals, records, seen
    <2> QED
      BY <2>1 DEF Create, locals, records
  <1> HIDE DEF seen
  <1>4. TellsOK' /\ \A r \in Ranks : \A i \in 1 .. Len(log'[r]) : log'[r][i].id \in DomainGrids
    <2>1. \A r \in Ranks : G \subseteq seen[r].records
      BY <1>2
    <2>2. MayTell(G, "CREATE")
      BY <1>1 DEF MayTell
    <2> QED
      BY <1>1, <1>3, <2>1, <2>2, SyncThenTold, Zenon
  <1> QED
    BY <1>4 DEF ToldWithin

LEMMA DestroyTells ==
    ASSUME StateTypeOK, LocalsMatchRecords, TellsOK, NEW G \in SUBSET GridIDs, HaveStates(G), RemoveStates(G)
    PROVE  TellsOK' /\ ToldWithin(DomainGrids)
  <1>1. G \in SUBSET DomainGrids /\ \A r \in Ranks : G \subseteq Records[r]
    BY GridComponentAssumption DEF LocalsMatchRecords, HaveStates
  <1> QED
    BY <1>1, EndTells DEF RemoveStates

LEMMA ClearTells ==
    ASSUME StateTypeOK, LocalsMatchRecords, TellsOK, Clear
    PROVE  TellsOK' /\ ToldWithin(DomainGrids)
  <1>1. PICK q \in Ranks : TRUE
    BY GridComponentAssumption
  <1> DEFINE G == Records[q]
  <1>2. G \in SUBSET DomainGrids /\ \A r \in Ranks : Records[r] = G
    BY DEF LocalsMatchRecords
  <1>3. [r \in Ranks |-> EndEvents(r, Records[r])] = [r \in Ranks |-> EndEvents(r, G)]
    BY <1>2
  <1> HIDE DEF G
  <1> QED
    BY <1>2, <1>3, EndTells DEF Clear

\* An edit is flagged where the object is, and is to be told of everywhere.
LEMMA EditTells ==
    ASSUME StateTypeOK, LocalsMatchRecords, TellsOK, NEW g \in GridIDs, NEW f \in Edits, Edit(g, f)
    PROVE  TellsOK'
  <1>1. PICK q \in place[g] : q \in Ranks
    BY GridComponentAssumption DEF Edit, GridExists, StateTypeOK
  <1>2. \A r \in Ranks : EventFlags'[r] = EventFlags[r] \cup IF r \in place[g] THEN {<<g, f>>} ELSE {}
    BY DEF Edit
  <1>3. \A r \in Ranks : EventFlags'[r] \subseteq Locals'[r] \X Edits
    BY <1>2 DEF Edit, TellsOK
  <1>4. /\ unheard' \in [Ranks -> SUBSET (GridIDs \X Edits)]
        /\ \A r \in Ranks : unheard'[r] = unheard[r] \cup {<<g, f>>}
    BY DEF Edit, TellsOK
  <1>5. NoEditForgotten'
    BY <1>1, <1>2, <1>4 DEF NoEditForgotten, TellsOK
  <1>6. LogsAgree' /\ ToldOfExistingOnly'
    BY DEF Edit, LogsAgree, ToldOfExistingOnly, EndsBatch, WithinLifetime, Heard
  <1> QED
    BY <1>3, <1>4, <1>5, <1>6 DEF TellsOK

\* An assembly edits every object; what it has told of at its beginning, it goes
\* on to edit (assembler::Assemble).
LEMMA AssembleTells ==
    ASSUME StateTypeOK, LocalsMatchRecords, TellsOK, Assemble
    PROVE  TellsOK'
  <1>1. PICK q \in Ranks : TRUE
    BY GridComponentAssumption
  <1>2. /\ EventFlags' = [r \in Ranks |-> Locals[r] \X Edits]
        /\ unheard' = [r \in Ranks |-> DomainGrids \X Edits]
        /\ UNCHANGED <<place, Records, Locals>>
    BY DEF Assemble
  <1>3. unheard' \in [Ranks -> SUBSET (GridIDs \X Edits)]
    BY <1>2, DomainGridsAreGrids
  <1>4. NoEditForgotten'
    <2> SUFFICES ASSUME NEW r \in Ranks, NEW e \in unheard'[r]
                 PROVE  \E p \in Ranks : e \in EventFlags'[p]
      BY DEF NoEditForgotten
    <2>1. e \in DomainGrids \X Edits
      BY <1>2
    <2>2. e = <<e[1], e[2]>> /\ e[1] \in Records[q] /\ e[2] \in Edits
      BY <2>1 DEF Assemble, HaveStates
    <2>3. PICK p \in place[e[1]] : p \in Ranks
      <3>1. e[1] \in GridIDs /\ place[e[1]] # {}
        BY <2>1 DEF DomainGrids, GridExists
      <3>2. place[e[1]] \in SUBSET Ranks
        BY <3>1, GridComponentAssumption DEF StateTypeOK
      <3> QED
        BY <3>1, <3>2
    <2>4. e[1] \in Locals[p]
      BY <2>2, <2>3 DEF LocalsMatchRecords
    <2> QED
      BY <1>2, <2>2, <2>3, <2>4
  <1>5. ASSUME \A r \in Ranks : log'[r] = ToldOfEdits(r)
        PROVE  LogsAgree' /\ ToldOfExistingOnly'
    <2>1. ASSUME NEW r \in Ranks
          PROVE  WholeBatch(ToldOfEdits(r), Records[r], [g \in Records[r] |-> Edits], Present(r))
      <3>1. Records[r] \in SUBSET GridIDs
        BY DEF StateTypeOK
      <3> QED
        BY <3>1, GridsInOrder, BatchIsWhole DEF ToldOfEdits, SortedInts, IntOrder
    <2>2. ASSUME NEW r \in Ranks, NEW p \in Ranks
          PROVE  Heard(ToldOfEdits(r)) = Heard(ToldOfEdits(p))
      <3>1. Records[r] = Records[p] /\ Records[r] \in SUBSET GridIDs
        BY DEF LocalsMatchRecords, StateTypeOK
      <3>2. Len(SortedInts(Records[r])) \in Nat
        BY <3>1, GridsInOrder, SortedIsLog DEF IsLog
      <3> QED
        BY <3>1, <3>2, BatchesHeardAlike DEF ToldOfEdits
    <2>3. \A r \in Ranks : EndsBatch(log'[r]) /\ WithinLifetime(log'[r])
      BY <1>5, <2>1, WholeBatchInOrder
    <2>4. ToldOfExistingOnly'
      <3>1. \A r \in Ranks : \A i \in 1 .. Len(ToldOfEdits(r)) :
                ToldOfEdits(r)[i].id \in ToldOfEdits(r)[i].seen.records
        <4>1. \A r \in Ranks : \A i \in 1 .. Len(ToldOfEdits(r)) :
                  ToldOfEdits(r)[i].id \in Records[r] /\ ToldOfEdits(r)[i].seen = Present(r)
          BY <2>1 DEF WholeBatch
        <4>2. \A r \in Ranks : Present(r).records = Records[r]
          BY DEF Present
        <4> QED
          BY <4>1, <4>2
      <3> QED
        BY <1>5, <3>1 DEF ToldOfExistingOnly
    <2> QED
      BY <1>5, <2>2, <2>3, <2>4 DEF LogsAgree
  <1>6. ASSUME \A r \in Ranks : log'[r] = <<>>
        PROVE  LogsAgree' /\ ToldOfExistingOnly'
    BY <1>6 DEF LogsAgree, ToldOfExistingOnly, EndsBatch, WithinLifetime, Heard
  <1> QED
    BY <1>2, <1>3, <1>4, <1>5, <1>6 DEF TellsOK, Assemble
-----------------------------------------------------------------------------
\* What the assembler has heard of exists, and is to be done again.
WorkOK ==
    /\ behind \subseteq DomainGrids
    /\ ~bound => behind = {}
    /\ ChangesNoted

\* The assembler has all work to do in a domain of grids D once it hears anything.
LEMMA HeardIsNoted ==
    ASSUME WorkOK, NEW D, ToldWithin(DomainGrids), DomainGrids \subseteq D, bound
    PROVE  /\ behind \cup StatesTold \subseteq D
           /\ \A g \in behind \cup StatesTold :
                 /\ g \in OnStateEvents(Events, D, manifest).grids
                 /\ \A h \in (behind \cup StatesTold) \ {g} :
                       <<g, h>> \in OnStateEvents(Events, D, manifest).pairs
  <1>1. StatesTold \subseteq DomainGrids
    <2>1. (CHOOSE r \in Ranks : TRUE) \in Ranks
      BY GridComponentAssumption
    <2> QED
      BY <2>1 DEF StatesTold, ToldWithin, Events
  <1>2. CASE Events = <<>>
    <2>1. StatesTold = {}
      BY <1>2 DEF StatesTold
    <2> QED
      BY <1>2, <2>1 DEF OnStateEvents, WorkOK, ChangesNoted
  <1>3. CASE Events # <<>>
    <2>1. OnStateEvents(Events, D, manifest) = AllWork(D)
      BY <1>3 DEF OnStateEvents
    <2>2. /\ AllWork(D).grids = D
          /\ \A g, h \in D : g # h => <<g, h>> \in AllWork(D).pairs
      BY DEF AllWork
    <2>3. behind \cup StatesTold \subseteq D
      BY <1>1 DEF WorkOK
    <2> HIDE DEF WorkOK
    <2> QED
      BY <2>1, <2>2, <2>3
  <1> QED
    BY <1>2, <1>3

LEMMA HearStatesNotes ==
    ASSUME WorkOK, place' = place, ToldWithin(DomainGrids), HearStates
    PROVE  WorkOK'
  <1>1. DomainGrids' = DomainGrids
    BY DEF DomainGrids, GridExists
  <1>2. CASE bound
    <2>1. /\ bound' = bound /\ behind' = behind \cup StatesTold
          /\ manifest' = OnStateEvents(Events, DomainGrids, manifest)
      BY <1>2 DEF HearStates
    <2> QED
      BY <1>1, <1>2, <2>1, HeardIsNoted DEF WorkOK, ChangesNoted
  <1>3. CASE ~bound
    BY <1>1, <1>3 DEF HearStates, WorkOK, ChangesNoted
  <1> QED
    BY <1>2, <1>3

LEMMA HearCreatedNotes ==
    ASSUME StateTypeOK, WorkOK, ToldWithin(DomainGrids),
           NEW G \in GridSets, NEW P \in [G -> Placements], CreateGrids(P), HearCreated(G)
    PROVE  WorkOK'
  <1>1. DomainGrids' = DomainGrids \cup G
    BY GridsCreated
  <1>2. CASE bound
    <2>1. /\ bound' = bound /\ behind' = behind \cup StatesTold
          /\ manifest' = OnStateEvents(Events, DomainGrids', manifest)
      BY <1>2 DEF HearCreated
    <2> QED
      BY <1>1, <1>2, <2>1, HeardIsNoted DEF WorkOK, ChangesNoted
  <1>3. CASE ~bound
    BY <1>1, <1>3 DEF HearCreated, WorkOK, ChangesNoted
  <1> QED
    BY <1>2, <1>3

LEMMA HearDyingNotes ==
    ASSUME StateTypeOK, WorkOK, ToldWithin(DomainGrids),
           NEW G \in GridSets, DestroyGrids(G), HearDying(G)
    PROVE  WorkOK'
  <1>1. DomainGrids' = DomainGrids \ G
    BY GridsDestroyed
  <1>2. CASE bound
    <2> DEFINE w == OnStateEvents(Events, DomainGrids, manifest)
               B == behind \cup StatesTold
    <2>1. bound' = bound /\ behind' = B \ G
      BY <1>2 DEF HearDying
    <2>2. /\ B \subseteq DomainGrids
          /\ \A g \in B : g \in w.grids /\ \A h \in B \ {g} : <<g, h>> \in w.pairs
      BY <1>2, HeardIsNoted
    <2>3. manifest' = RemoveEntries(w, G) \/ manifest' = w
      <3>1. CASE Events = <<>>
        BY <1>2, <3>1 DEF HearDying, OnStateEvents
      <3>2. CASE Events # <<>>
        BY <1>2, <3>2 DEF HearDying, OnStateEvents
      <3> QED
        BY <3>1, <3>2
    <2> HIDE DEF w, B
    <2>4. /\ RemoveEntries(w, G).grids = w.grids \ G
          /\ RemoveEntries(w, G).pairs = {p \in w.pairs : p[1] \notin G /\ p[2] \notin G}
      BY DEF RemoveEntries
    <2> QED
      BY <1>1, <1>2, <2>1, <2>2, <2>3, <2>4 DEF WorkOK, ChangesNoted
  <1>3. CASE ~bound
    BY <1>1, <1>3 DEF HearDying, WorkOK, ChangesNoted
  <1> QED
    BY <1>2, <1>3

\* The assembler's own steps: an edit of the options has everything done anew,
\* an assembly leaves nothing behind.
LEMMA OwnStepsNote ==
    ASSUME WorkOK, OptionsStep \/ Assemble \/ Bind \/ Unbind
    PROVE  WorkOK'
  <1>1. DomainGrids' = DomainGrids
    BY DEF OptionsStep, EditOptions, ChangeOptions, EndEditOptions, Assemble, Bind, Unbind,
           gridVars, DomainGrids, GridExists
  <1>2. CASE EndEditOptions
    BY <1>1, <1>2 DEF EndEditOptions, WorkOK, ChangesNoted, AllWork
  <1>3. CASE EditOptions \/ ChangeOptions
    BY <1>1, <1>3 DEF EditOptions, ChangeOptions, WorkOK, ChangesNoted
  <1>4. CASE Assemble \/ Bind \/ Unbind
    BY <1>1, <1>4 DEF Assemble, Bind, Unbind, WorkOK, ChangesNoted
  <1> QED
    BY <1>2, <1>3, <1>4 DEF OptionsStep

LEMMA OwnStepsTell ==
    ASSUME StateTypeOK, LocalsMatchRecords, TellsOK,
           OptionsStep \/ Assemble \/ Bind \/ Unbind
    PROVE  TellsOK'
  <1>1. CASE Assemble
    BY <1>1, AssembleTells
  <1>2. CASE UNCHANGED gridVars
    BY <1>2 DEF gridVars, TellsOK, NoEditForgotten, LogsAgree, ToldOfExistingOnly
  <1> QED
    BY <1>1, <1>2 DEF OptionsStep, EditOptions, ChangeOptions, EndEditOptions, Bind, Unbind

\* What is told and what is noted hold together, for any grids, ranks and edits.
THEOREM TellsInvariance == Spec => [](TellsOK /\ WorkOK)
  <1>1. Init => TellsOK /\ WorkOK
    <2> SUFFICES ASSUME Init PROVE TellsOK /\ WorkOK
      OBVIOUS
    <2>1. NoEditForgotten /\ LogsAgree /\ ToldOfExistingOnly
      BY DEF Init, GridInit, NoEditForgotten, LogsAgree, ToldOfExistingOnly, EndsBatch, WithinLifetime, Heard
    <2>2. WorkOK
      BY DEF Init, WorkOK, ChangesNoted
    <2> QED
      BY <2>1, <2>2 DEF Init, GridInit, TellsOK
  <1>2. ASSUME IInv, TellsOK, WorkOK, [Next]_vars
        PROVE  TellsOK' /\ WorkOK'
    <2>1. StateTypeOK /\ LocalsMatchRecords
      BY <1>2 DEF IInv
    <2>2. CASE ComponentStep
      <3>1. CASE (EndEdit \/ Clear) /\ HearStates
        <4>1. TellsOK' /\ ToldWithin(DomainGrids)
          BY <1>2, <2>1, <3>1, SyncTells, ClearTells DEF EndEdit, ToldWithin
        <4>2. place' = place
          BY <3>1 DEF EndEdit, Clear
        <4> QED
          BY <1>2, <3>1, <4>1, <4>2, HearStatesNotes
      <3>2. ASSUME NEW G \in SUBSET GridIDs, Create(G) \/ Destroy(G), HearStates
            PROVE  TellsOK' /\ WorkOK'
        <4>1. CASE Create(G)
          <5>1. TellsOK' /\ ToldWithin(DomainGrids)
            BY <1>2, <2>1, <4>1, CreateTells
          <5> QED
            BY <1>2, <3>2, <4>1, <5>1, HearStatesNotes DEF Create
        <4>2. CASE Destroy(G)
          <5>1. HaveStates(G) /\ RemoveStates(G) /\ place' = place
            BY <4>2 DEF Destroy, HaveStates
          <5>2. TellsOK' /\ ToldWithin(DomainGrids)
            BY <1>2, <2>1, <5>1, DestroyTells
          <5> QED
            BY <1>2, <3>2, <5>1, <5>2, HearStatesNotes
        <4> QED
          BY <3>2, <4>1, <4>2
      <3>3. ASSUME NEW g \in GridIDs, NEW f \in Edits, Edit(g, f) /\ UNCHANGED asmVars
            PROVE  TellsOK' /\ WorkOK'
        <4>1. TellsOK'
          BY <1>2, <2>1, <3>3, EditTells
        <4>2. WorkOK'
          BY <1>2, <3>3 DEF Edit, asmVars, WorkOK, ChangesNoted, DomainGrids, GridExists
        <4> QED
          BY <4>1, <4>2
      <3>4. ASSUME NEW G \in GridSets, NEW P \in [G -> Placements], CreateGrids(P), HearCreated(G)
            PROVE  TellsOK' /\ WorkOK'
        <4>1. TellsOK' /\ ToldWithin(DomainGrids)
          BY <1>2, <2>1, <3>4, SyncTells DEF CreateGrids, ToldWithin
        <4> QED
          BY <1>2, <2>1, <3>4, <4>1, HearCreatedNotes
      <3> QED
        BY <2>2, <3>1, <3>2, <3>3, <3>4 DEF ComponentStep, CreateOne, DestroyOne, GridSets
    <2>3. ASSUME NEW G \in GridSets, HaveStates(G), DestroyGrids(G), HearDying(G)
          PROVE  TellsOK' /\ WorkOK'
      <3>1. TellsOK' /\ ToldWithin(DomainGrids)
        BY <1>2, <2>1, <2>3, DestroyTells DEF DestroyGrids, GridSets
      <3> QED
        BY <1>2, <2>1, <2>3, <3>1, HearDyingNotes
    <2>4. CASE OptionsStep \/ Assemble \/ Bind \/ Unbind
      BY <1>2, <2>1, <2>4, OwnStepsTell, OwnStepsNote
    <2>5. CASE UNCHANGED vars
      <3>1. TellsOK'
        BY <1>2, <2>5 DEF vars, gridVars, TellsOK, NoEditForgotten, LogsAgree, ToldOfExistingOnly
      <3>2. WorkOK'
        BY <1>2, <2>5 DEF vars, gridVars, asmVars, WorkOK, ChangesNoted, DomainGrids, GridExists
      <3> QED
        BY <3>1, <3>2
    <2> QED
      BY <1>2, <2>2, <2>3, <2>4, <2>5 DEF Next
  <1> QED
    BY <1>1, <1>2, Invariance, PTL DEF Spec

\* Every rank has the same records and hears the same of them, in whole batches,
\* nothing before the beginning of an object or after its end, and of none that
\* it would look up in vain (StateRecords_, SyncEdits_, the order of the events).
THEOREM RanksHearAlike == Spec => []RecordsAgree
  <1>1. IInv /\ TellsOK => RecordsAgree
    BY DEF IInv, StateTypeOK, TellsOK, RecordsAgree, GridTypeOK
  <1> QED
    BY <1>1, Invariance, TellsInvariance, PTL

\* An edit that a rank's listeners have not heard of is flagged on some rank, so
\* that the next synchronisation tells of it (EventFlags, SyncEdits_).
THEOREM EditsRemembered == Spec => []NoEditForgotten
  <1>1. TellsOK => NoEditForgotten
    BY DEF TellsOK
  <1> QED
    BY <1>1, TellsInvariance, PTL

\* No change of state that a bound assembler heard of is lost before the next
\* assembly, with whatever grids it may be paired (AssemblyManifest_).
THEOREM ChangesStayNoted == Spec => []ChangesNoted
  <1>1. WorkOK => ChangesNoted
    BY DEF WorkOK
  <1> QED
    BY <1>1, TellsInvariance, PTL
-----------------------------------------------------------------------------
\* Points that a period apart are the same: what moving a point into the range of a cart
\* gives (PeriodicAdjust, MapToUniqueRange).

\* Quotients and remainders.
LEMMA ModUnique ==
    ASSUME NEW P \in Nat, P > 0, NEW k \in Int, NEW m \in Int, NEW r \in 0 .. P-1, NEW s \in 0 .. P-1,
           P * k + r = P * m + s
    PROVE  r = s
  <1>1. \A n \in Int : n >= 1 => P * n >= P
    OBVIOUS
  <1>2. P * (k - m) = s - r
    OBVIOUS
  <1>3. P * (m - k) = r - s
    OBVIOUS
  <1>4. ~(k - m >= 1)
    BY <1>1, <1>2
  <1>5. ~(m - k >= 1)
    BY <1>1, <1>3
  <1> QED
    BY <1>4, <1>5

\* Products with negative numbers.
LEMMA Negated ==
    ASSUME NEW P \in Nat, NEW m \in Int
    PROVE  -m \in Int /\ P * m \in Int /\ P * (-m) = -(P * m)
  OBVIOUS

\* Division with remainder.
LEMMA ModFacts ==
    ASSUME NEW a \in Int, NEW P \in Nat, P > 0
    PROVE  /\ a % P \in 0 .. P-1
           /\ a \div P \in Int
           /\ a = P * (a \div P) + (a % P)
  <1>1. a \div P \in Int
    OBVIOUS
  <1>2. a % P \in 0 .. P-1
    OBVIOUS
  <1>3. a = P * (a \div P) + (a % P)
    OBVIOUS
  <1> QED
    BY <1>1, <1>2, <1>3


IsPoint(p) == p = <<p[1], p[2]>> /\ p[1] \in Int /\ p[2] \in Int

\* p and q are the same point of a cart.
PeriodsApart(C, d, x, y) == \E k \in Int : x = y + PeriodSize(C, d) * k
SameIn(C, p, q) ==
    \A d \in Dims : IF C.periodic[d] THEN PeriodsApart(C, d, p[d], q[d]) ELSE p[d] = q[d]

\* Functions of the dimensions are points.
LEMMA PointIs ==
    ASSUME NEW f, f = [d \in Dims |-> f[d]], f[1] \in Int, f[2] \in Int
    PROVE  IsPoint(f)
  BY DEF IsPoint, Dims

\* Points of a range, coordinate by coordinate.
LEMMA PointsIn ==
    ASSUME NEW C, CartOK(C), NEW p
    PROVE  p \in Points(C.range) <=> IsPoint(p) /\ HasPoint(C.range, p)
  <1>1. \A d \in Dims : C.range.begin[d] \in Int /\ C.range.end[d] \in Int
    BY DEF CartOK
  <1>2. 1 \in Dims /\ 2 \in Dims /\ \A d \in Dims : d = 1 \/ d = 2
    BY DEF Dims
  <1> QED
    BY <1>1, <1>2 DEF Points, HasPoint, IsPoint

\* The sides of the range of a cart.
LEMMA PeriodIs ==
    ASSUME NEW C, CartOK(C), NEW d \in Dims
    PROVE  /\ PeriodSize(C, d) = C.range.end[d] - C.range.begin[d]
           /\ PeriodSize(C, d) \in Nat /\ PeriodSize(C, d) > 0
           /\ C.range.begin[d] \in Int /\ C.range.end[d] \in Int
           /\ C.periodic[d] \in BOOLEAN
  BY DEF CartOK, PeriodSize

\* A point is moved into the period of the range, and stays the same.
LEMMA AdjustIs ==
    ASSUME NEW C, CartOK(C), NEW p, IsPoint(p)
    PROVE  /\ IsPoint(PeriodicAdjust(C, p))
           /\ SameIn(C, PeriodicAdjust(C, p), p)
           /\ \A d \in Dims : C.periodic[d] =>
                C.range.begin[d] <= PeriodicAdjust(C, p)[d] /\ PeriodicAdjust(C, p)[d] < C.range.end[d]
  <1> DEFINE q == PeriodicAdjust(C, p)
  <1>1. q = [d \in Dims |-> q[d]]
    BY DEF PeriodicAdjust
  <1>2. \A d \in Dims : q[d] = IF C.periodic[d]
                               THEN C.range.begin[d] + ((p[d] - C.range.begin[d]) % PeriodSize(C, d))
                               ELSE p[d]
    BY DEF PeriodicAdjust
  <1> HIDE DEF q
  <1>3. \A d \in Dims : p[d] \in Int
    BY DEF IsPoint, Dims
  <1>4. ASSUME NEW d \in Dims
        PROVE  /\ q[d] \in Int
               /\ C.periodic[d] =>
                    /\ C.range.begin[d] <= q[d] /\ q[d] < C.range.end[d]
                    /\ PeriodsApart(C, d, q[d], p[d])
               /\ ~C.periodic[d] => q[d] = p[d]
    <2> DEFINE b == C.range.begin[d]
               P == PeriodSize(C, d)
               m == (p[d] - b) \div P
    <2>1. P \in Nat /\ P > 0 /\ b \in Int /\ p[d] - b \in Int /\ p[d] \in Int /\ C.range.end[d] = b + P
      BY <1>3, PeriodIs
    <2> HIDE DEF P, b
    <2>2. /\ (p[d] - b) % P \in 0 .. P-1 /\ m \in Int
          /\ p[d] - b = P * m + ((p[d] - b) % P)
      BY <2>1, ModFacts
    <2>3. CASE C.periodic[d]
      <3>1. q[d] = b + ((p[d] - b) % P)
        BY <1>2, <2>3 DEF P, b
      <3> HIDE DEF m
      <3> DEFINE rest == (p[d] - b) % P
      <3>2. rest \in 0 .. P-1 /\ p[d] - b = P * m + rest /\ q[d] = b + rest /\ m \in Int
        BY <2>2, <3>1
      <3> HIDE DEF rest
      <3>3. -m \in Int /\ P * (-m) = -(P * m) /\ P * m \in Int
        BY <2>1, <3>2, Negated
      <3> DEFINE whole == P * m
                 back == P * (-m)
      <3>4. q[d] = p[d] + P * (-m)
        <4>1. whole \in Int /\ back = -whole /\ p[d] - b = whole + rest /\ rest \in Int /\ q[d] = b + rest
          BY <3>2, <3>3
        <4> HIDE DEF whole, back
        <4>2. q[d] = p[d] + back
          BY <2>1, <4>1
        <4> QED
          BY <4>2 DEF back
      <3>5. \E k \in Int : q[d] = p[d] + P * k
        BY <3>3, <3>4
      <3> QED
        BY <2>1, <2>3, <3>2, <3>5 DEF P, b, PeriodsApart
    <2>4. CASE ~C.periodic[d]
      BY <1>2, <2>1, <2>4
    <2> QED
      BY <2>3, <2>4
  <1>5. IsPoint(q)
    BY <1>1, <1>4, PointIs DEF Dims
  <1> QED
    BY <1>4, <1>5 DEF SameIn, q

\* A point of the period is determined by what it is the same as.
LEMMA SameInRange ==
    ASSUME NEW C, CartOK(C), NEW p, NEW q, IsPoint(p), IsPoint(q), SameIn(C, p, q),
           \A d \in Dims : C.periodic[d] =>
              /\ C.range.begin[d] <= p[d] /\ p[d] < C.range.end[d]
              /\ C.range.begin[d] <= q[d] /\ q[d] < C.range.end[d]
    PROVE  p = q
  <1>1. ASSUME NEW d \in Dims PROVE p[d] = q[d]
    <2> DEFINE b == C.range.begin[d]
               P == PeriodSize(C, d)
    <2>1. P \in Nat /\ P > 0 /\ b \in Int /\ C.range.end[d] = b + P
          /\ p[d] \in Int /\ q[d] \in Int
      BY PeriodIs DEF IsPoint, Dims
    <2>2. CASE C.periodic[d]
      <3>1. b <= p[d] /\ p[d] < b + P /\ b <= q[d] /\ q[d] < b + P
        BY <2>1, <2>2
      <3>2. PICK k \in Int : p[d] = q[d] + P * k
        BY <2>2 DEF SameIn, PeriodsApart
      <3> HIDE DEF P, b
      <3>3. P * k + (q[d] - b) = P * 0 + (p[d] - b)
        BY <2>1, <3>2
      <3>4. q[d] - b = p[d] - b
        <4> DEFINE r == q[d] - b
                   s == p[d] - b
        <4>1. r \in 0 .. P-1 /\ s \in 0 .. P-1 /\ P * k + r = P * 0 + s
          BY <2>1, <3>1, <3>3
        <4> HIDE DEF r, s
        <4>2. r = s
          BY <2>1, <4>1, ModUnique
        <4> QED
          BY <4>2 DEF r, s
      <3> QED
        BY <2>1, <3>4
    <2>3. CASE ~C.periodic[d]
      BY <2>3 DEF SameIn
    <2> QED
      BY <2>2, <2>3
  <1> QED
    BY <1>1 DEF IsPoint, Dims

\* To be periods apart is an equivalence.
LEMMA SameTrans ==
    ASSUME NEW C, CartOK(C), NEW p, NEW q, NEW r, IsPoint(p), IsPoint(q), IsPoint(r)
    PROVE  /\ SameIn(C, p, p)
           /\ SameIn(C, p, q) => SameIn(C, q, p)
           /\ SameIn(C, p, q) /\ SameIn(C, q, r) => SameIn(C, p, r)
  <1>1. ASSUME NEW d \in Dims, NEW x \in Int, NEW y \in Int, NEW z \in Int
        PROVE  /\ PeriodsApart(C, d, x, x)
               /\ (PeriodsApart(C, d, x, y)) =>
                     PeriodsApart(C, d, y, x)
               /\ (PeriodsApart(C, d, x, y))
                  /\ (PeriodsApart(C, d, y, z)) =>
                     PeriodsApart(C, d, x, z)
    <2> DEFINE P == PeriodSize(C, d)
    <2>1. P \in Nat
      BY PeriodIs
    <2> HIDE DEF P
    <2>2. x = x + P * 0
      BY <2>1
    <2>3. \A k \in Int : P * (-k) = -(P * k) /\ P * k \in Int
      BY <2>1
    <2>4. \A k \in Int : x = y + P * k => y = x + P * (-k)
      BY <2>3
    <2>5. \A k, m \in Int : P * (k + m) = P * k + P * m /\ P * k \in Int /\ P * m \in Int
      BY <2>1
    <2>6. ASSUME NEW k \in Int, NEW m \in Int, x = y + P * k, y = z + P * m
          PROVE  x = z + P * (k + m)
      <3> DEFINE a == P * k
                 b == P * m
      <3>1. P * (k + m) = a + b /\ a \in Int /\ b \in Int /\ x = y + a /\ y = z + b
        BY <2>5, <2>6
      <3> HIDE DEF a, b
      <3> QED
        BY <3>1
    <2>7. \A k, m \in Int : -k \in Int /\ k + m \in Int /\ 0 \in Int
      OBVIOUS
    <2> QED
      BY <2>2, <2>4, <2>6, <2>7 DEF P, PeriodsApart
  <1>2. \A d \in Dims : p[d] \in Int /\ q[d] \in Int /\ r[d] \in Int
    BY DEF IsPoint, Dims
  <1>3. SameIn(C, p, p)
    BY <1>1, <1>2 DEF SameIn
  <1>4. SameIn(C, p, q) => SameIn(C, q, p)
    <2>1. SUFFICES ASSUME SameIn(C, p, q), NEW d \in Dims
                   PROVE  IF C.periodic[d] THEN PeriodsApart(C, d, q[d], p[d])
                          ELSE q[d] = p[d]
      BY DEF SameIn
    <2> QED
      BY <1>1, <1>2, <2>1 DEF SameIn
  <1>5. SameIn(C, p, q) /\ SameIn(C, q, r) => SameIn(C, p, r)
    <2>1. SUFFICES ASSUME SameIn(C, p, q), SameIn(C, q, r), NEW d \in Dims
                   PROVE  IF C.periodic[d] THEN PeriodsApart(C, d, p[d], r[d])
                          ELSE p[d] = r[d]
      BY DEF SameIn
    <2>2. /\ IF C.periodic[d] THEN PeriodsApart(C, d, p[d], q[d])
             ELSE p[d] = q[d]
          /\ IF C.periodic[d] THEN PeriodsApart(C, d, q[d], r[d])
             ELSE q[d] = r[d]
      BY <2>1 DEF SameIn
    <2> QED
      BY <1>1, <1>2, <2>2
  <1> QED
    BY <1>3, <1>4, <1>5

\* Points that are periods apart are moved to one point.
LEMMA AdjustSame ==
    ASSUME NEW C, CartOK(C), NEW p, NEW q, IsPoint(p), IsPoint(q), SameIn(C, p, q)
    PROVE  PeriodicAdjust(C, p) = PeriodicAdjust(C, q)
  <1> DEFINE a == PeriodicAdjust(C, p)
             b == PeriodicAdjust(C, q)
  <1>1. IsPoint(a) /\ IsPoint(b) /\ SameIn(C, a, p) /\ SameIn(C, b, q)
    BY AdjustIs
  <1>2. \A d \in Dims : C.periodic[d] =>
           /\ C.range.begin[d] <= a[d] /\ a[d] < C.range.end[d]
           /\ C.range.begin[d] <= b[d] /\ b[d] < C.range.end[d]
    BY AdjustIs
  <1> HIDE DEF a, b
  <1>3. SameIn(C, a, q)
    BY <1>1, SameTrans
  <1>4. SameIn(C, q, b)
    BY <1>1, SameTrans
  <1>5. SameIn(C, a, b)
    BY <1>1, <1>3, <1>4, SameTrans
  <1>6. a = b
    BY <1>1, <1>2, <1>5, SameInRange
  <1> QED
    BY <1>6 DEF a, b

\* What is in the period already stays where it is.
LEMMA AdjustFixed ==
    ASSUME NEW C, CartOK(C), NEW p, IsPoint(p),
           \A d \in Dims : C.periodic[d] => C.range.begin[d] <= p[d] /\ p[d] < C.range.end[d]
    PROVE  PeriodicAdjust(C, p) = p
  <1> DEFINE a == PeriodicAdjust(C, p)
  <1>1. IsPoint(a) /\ SameIn(C, a, p)
        /\ \A d \in Dims : C.periodic[d] => C.range.begin[d] <= a[d] /\ a[d] < C.range.end[d]
    BY AdjustIs
  <1> HIDE DEF a
  <1>2. a = p
    BY <1>1, SameInRange
  <1> QED
    BY <1>2 DEF a

\* Points of the range stay where they are.
LEMMA AdjustInRange ==
    ASSUME NEW C, CartOK(C), NEW p \in Points(C.range)
    PROVE  PeriodicAdjust(C, p) = p /\ Wrapped(C, p) = p
  <1>1. IsPoint(p) /\ HasPoint(C.range, p)
    BY PointsIn
  <1>2. \A d \in Dims : C.range.begin[d] <= p[d] /\ p[d] < C.range.end[d]
    BY <1>1 DEF HasPoint
  <1> QED
    BY <1>1, <1>2, AdjustFixed DEF Wrapped

\* Wrapped is PeriodicAdjust, which moves by periods.
LEMMA WrappedIs ==
    ASSUME NEW C, CartOK(C), NEW p, IsPoint(p)
    PROVE  /\ Wrapped(C, p) = PeriodicAdjust(C, p)
           /\ IsPoint(Wrapped(C, p)) /\ SameIn(C, Wrapped(C, p), p)
  <1>1. HasPoint(C.range, p) => p \in Points(C.range)
    BY PointsIn
  <1>2. Wrapped(C, p) = PeriodicAdjust(C, p)
    BY <1>1, AdjustInRange DEF Wrapped
  <1> QED
    BY <1>2, AdjustIs

\* A point next to another, seen from where the other is moved to.
LEMMA Moved ==
    ASSUME NEW C, CartOK(C), NEW p, IsPoint(p), NEW q, IsPoint(q), NEW n \in Nat,
           p[1] - n <= q[1], q[1] <= p[1] + n, p[2] - n <= q[2], q[2] <= p[2] + n,
           NEW r, IsPoint(r), SameIn(C, r, q)
    PROVE  \E s : /\ IsPoint(s) /\ SameIn(C, s, p)
                  /\ r[1] - n <= s[1] /\ s[1] <= r[1] + n
                  /\ r[2] - n <= s[2] /\ s[2] <= r[2] + n
  <1> DEFINE s == <<p[1] + (r[1] - q[1]), p[2] + (r[2] - q[2])>>
  <1>1. p[1] \in Int /\ p[2] \in Int /\ q[1] \in Int /\ q[2] \in Int /\ r[1] \in Int /\ r[2] \in Int
    BY DEF IsPoint
  <1>2. IsPoint(s)
    BY <1>1 DEF IsPoint
  <1>3. /\ r[1] - n <= s[1] /\ s[1] <= r[1] + n
        /\ r[2] - n <= s[2] /\ s[2] <= r[2] + n
    BY <1>1
  <1>4. SameIn(C, s, p)
    <2>1. SUFFICES ASSUME NEW d \in Dims
                   PROVE IF C.periodic[d] THEN PeriodsApart(C, d, s[d], p[d])
                         ELSE s[d] = p[d]
      BY DEF SameIn
    <2>2. p[d] \in Int /\ q[d] \in Int /\ r[d] \in Int /\ s[d] = p[d] + (r[d] - q[d])
      BY <1>1 DEF Dims
    <2> HIDE DEF s
    <2>3. CASE C.periodic[d]
      <3>1. PICK k \in Int : r[d] = q[d] + PeriodSize(C, d) * k
        BY <2>3 DEF SameIn, PeriodsApart
      <3>2. PeriodSize(C, d) * k \in Int
        BY PeriodIs
      <3> DEFINE by == PeriodSize(C, d) * k
      <3>3. s[d] = p[d] + by
        <4>1. by \in Int /\ r[d] = q[d] + by
          BY <3>1, <3>2
        <4> HIDE DEF by
        <4> QED
          BY <2>2, <4>1
      <3> QED
        BY <2>3, <3>3 DEF PeriodsApart
    <2>4. CASE ~C.periodic[d]
      <3>1. r[d] = q[d]
        BY <2>4 DEF SameIn
      <3> QED
        BY <2>2, <2>4, <3>1
    <2> QED
      BY <2>3, <2>4
  <1> QED
    BY <1>2, <1>3, <1>4
-----------------------------------------------------------------------------
\* Masks: layers that are added and taken away, and edges (core/Field and FieldOps).

\* A function that is defined from its value before.
Stepwise(f, n, S, start, next) ==
    f \in [0 .. n -> S] /\ f[0] = start /\ \A m \in 1 .. n : f[m] = next[<<m, f[m - 1]>>]

\* Such a function exists: a recursion over 1 .. n gives values in S.
LEMMA Steps ==
    ASSUME NEW n \in Nat, NEW S, NEW start \in S, NEW next \in [(1 .. n) \X S -> S]
    PROVE  \E f : Stepwise(f, n, S, start, next)
  <1> DEFINE Begun(i, f) == f[0] = start /\ \A m \in 1 .. i : f[m] = next[<<m, f[m - 1]>>]
             P == {i \in 0 .. n : \E f \in [0 .. n -> S] : Begun(i, f)}
  <1>1. 0 \in P
    <2> DEFINE f == [m \in 0 .. n |-> start]
    <2>1. f \in [0 .. n -> S] /\ f[0] = start
      OBVIOUS
    <2> HIDE DEF f
    <2>2. Begun(0, f)
      BY <2>1
    <2> QED
      BY <2>1, <2>2
  <1>2. ASSUME NEW i \in 1 .. n, i - 1 \in P
        PROVE  i \in P
    <2>1. PICK f \in [0 .. n -> S] : Begun(i - 1, f)
      BY <1>2
    <2> DEFINE g == [f EXCEPT ![i] = next[<<i, f[i - 1]>>]]
    <2>2. f[i - 1] \in S /\ i \in 0 .. n /\ next[<<i, f[i - 1]>>] \in S
      OBVIOUS
    <2>3. g \in [0 .. n -> S] /\ g[i] = next[<<i, f[i - 1]>>] /\ \A m \in 0 .. n : m # i => g[m] = f[m]
      BY <2>2
    <2> HIDE DEF g
    <2>4. \A m \in 1 .. i : /\ m \in 0 .. n /\ m - 1 \in 0 .. n /\ m - 1 # i /\ i # 0
                            /\ m # i => m \in 1 .. i - 1
      OBVIOUS
    <2>5. g[0] = start
      BY <2>1, <2>3
    <2>6. \A m \in 1 .. i : g[m] = next[<<m, g[m - 1]>>]
      BY <2>1, <2>3, <2>4
    <2> QED
      BY <2>2, <2>3, <2>5, <2>6
  <1> HIDE DEF P
  <1>3. n \in P
    BY <1>1, <1>2, UpTo
  <1>4. PICK f \in [0 .. n -> S] : Begun(n, f)
    BY <1>3 DEF P
  <1> QED
    BY <1>4 DEF Stepwise

Dilation(f, C, M, n, bc) ==
    /\ f \in [0 .. n -> SUBSET (M \cup Points(C.range))]
    /\ f[0] = M
    /\ \A m \in 1 .. n : f[m] = f[m - 1] \cup EdgeOf(C, f[m - 1], "OUTER", bc, FALSE)

\* Dilate is the last of such functions, whatever layers it adds.
LEMMA DilateIs ==
    ASSUME NEW C, NEW M, NEW amount \in Nat, NEW bc
    PROVE  \E f : Dilation(f, C, M, amount, bc) /\ Dilate(C, M, amount, bc) = f[amount]
  <1> DEFINE S == SUBSET (M \cup Points(C.range))
             More(N) == N \cup EdgeOf(C, N, "OUTER", bc, FALSE)
             next == [ms \in (1 .. amount) \X S |-> More(ms[2])]
             Next1(N) == UNION {More(K) : K \in {N}}
             Ok(g) == g = [m \in 0 .. amount |-> IF m = 0 THEN M ELSE Next1(g[m - 1])]
  <1>1. \A N \in S : More(N) \in S
    BY DEF EdgeOf
  <1>2. next \in [(1 .. amount) \X S -> S]
    BY <1>1
  <1>3. \A m \in 1 .. amount, N \in S : next[<<m, N>>] = More(N)
    OBVIOUS
  <1>4. M \in S
    OBVIOUS
  <1>5. Dilate(C, M, amount, bc) = (CHOOSE g : Ok(g))[amount]
    BY DEF Dilate
  <1> HIDE DEF S, More, next
  <1>6. PICK f : Stepwise(f, amount, S, M, next)
    BY <1>2, <1>4, Steps
  <1>7. \A m \in 1 .. amount : m \in 0 .. amount /\ m - 1 \in 0 .. amount /\ m # 0
    OBVIOUS
  <1>8. f \in [0 .. amount -> S] /\ f[0] = M
    BY <1>6 DEF Stepwise
  <1>9. \A m \in 1 .. amount : f[m - 1] \in S /\ f[m] = More(f[m - 1])
    BY <1>3, <1>6, <1>7 DEF Stepwise
  <1>10. \A N : Next1(N) = More(N)
    OBVIOUS
  <1> HIDE DEF Next1
  <1>11. Ok(f)
    <2>1. \A m \in 0 .. amount : f[m] = IF m = 0 THEN M ELSE Next1(f[m - 1])
      <3> TAKE m \in 0 .. amount
      <3>1. CASE m = 0
        BY <1>8, <3>1
      <3>2. CASE m # 0
        BY <1>9, <1>10, <3>2
      <3> QED
        BY <3>1, <3>2
    <2> QED
      BY <1>8, <2>1
  <1>12. \A g : Ok(g) => \A m \in 0 .. amount : g[m] = f[m]
    <2> SUFFICES ASSUME NEW g, Ok(g)
                 PROVE  \A m \in 0 .. amount : g[m] = f[m]
      OBVIOUS
    <2> DEFINE P == {m \in 0 .. amount : g[m] = f[m]}
    <2>1. g[0] = M /\ \A m \in 1 .. amount : g[m] = More(g[m - 1])
      <3>1. \A m \in 0 .. amount : g[m] = IF m = 0 THEN M ELSE Next1(g[m - 1])
        OBVIOUS
      <3> QED
        BY <1>7, <1>10, <3>1
    <2>2. 0 \in P
      BY <1>8, <2>1
    <2>3. ASSUME NEW i \in 1 .. amount, i - 1 \in P PROVE i \in P
      BY <1>7, <1>9, <2>1, <2>3
    <2> HIDE DEF P
    <2>4. \A i \in 0 .. amount : i \in P
      BY <2>2, <2>3, UpTo
    <2> QED
      BY <2>4 DEF P
  <1>13. Ok(CHOOSE g : Ok(g))
    BY <1>11
  <1> HIDE DEF Ok
  <1>14. Dilate(C, M, amount, bc) = f[amount]
    BY <1>5, <1>12, <1>13
  <1> QED
    BY <1>8, <1>9, <1>14 DEF S, More, Dilation
Erosion(f, C, M, n, bc) ==
    /\ f \in [0 .. n -> SUBSET M]
    /\ f[0] = M
    /\ \A m \in 1 .. n : f[m] = f[m - 1] \ EdgeOf(C, f[m - 1], "INNER", bc, FALSE)

\* Erode is the last of such functions.
LEMMA ErodeIs ==
    ASSUME NEW C, NEW M, NEW amount \in Nat, NEW bc
    PROVE  \E f : Erosion(f, C, M, amount, bc) /\ Erode(C, M, amount, bc) = f[amount]
  <1> DEFINE S == SUBSET M
             Less(N) == N \ EdgeOf(C, N, "INNER", bc, FALSE)
             next == [ms \in (1 .. amount) \X S |-> Less(ms[2])]
             Next1(N) == UNION {Less(K) : K \in {N}}
             Ok(g) == g = [m \in 0 .. amount |-> IF m = 0 THEN M ELSE Next1(g[m - 1])]
  <1>1. \A N \in S : Less(N) \in S
    BY DEF EdgeOf
  <1>2. next \in [(1 .. amount) \X S -> S]
    BY <1>1
  <1>3. \A m \in 1 .. amount, N \in S : next[<<m, N>>] = Less(N)
    OBVIOUS
  <1>4. M \in S
    OBVIOUS
  <1>5. Erode(C, M, amount, bc) = (CHOOSE g : Ok(g))[amount]
    BY DEF Erode
  <1> HIDE DEF S, Less, next
  <1>6. PICK f : Stepwise(f, amount, S, M, next)
    BY <1>2, <1>4, Steps
  <1>7. \A m \in 1 .. amount : m \in 0 .. amount /\ m - 1 \in 0 .. amount /\ m # 0
    OBVIOUS
  <1>8. f \in [0 .. amount -> S] /\ f[0] = M
    BY <1>6 DEF Stepwise
  <1>9. \A m \in 1 .. amount : f[m - 1] \in S /\ f[m] = Less(f[m - 1])
    BY <1>3, <1>6, <1>7 DEF Stepwise
  <1>10. \A N : Next1(N) = Less(N)
    OBVIOUS
  <1> HIDE DEF Next1
  <1>11. Ok(f)
    <2>1. \A m \in 0 .. amount : f[m] = IF m = 0 THEN M ELSE Next1(f[m - 1])
      <3> TAKE m \in 0 .. amount
      <3>1. CASE m = 0
        BY <1>8, <3>1
      <3>2. CASE m # 0
        BY <1>9, <1>10, <3>2
      <3> QED
        BY <3>1, <3>2
    <2> QED
      BY <1>8, <2>1
  <1>12. \A g : Ok(g) => \A m \in 0 .. amount : g[m] = f[m]
    <2> SUFFICES ASSUME NEW g, Ok(g)
                 PROVE  \A m \in 0 .. amount : g[m] = f[m]
      OBVIOUS
    <2> DEFINE P == {m \in 0 .. amount : g[m] = f[m]}
    <2>1. g[0] = M /\ \A m \in 1 .. amount : g[m] = Less(g[m - 1])
      <3>1. \A m \in 0 .. amount : g[m] = IF m = 0 THEN M ELSE Next1(g[m - 1])
        OBVIOUS
      <3> QED
        BY <1>7, <1>10, <3>1
    <2>2. 0 \in P
      BY <1>8, <2>1
    <2>3. ASSUME NEW i \in 1 .. amount, i - 1 \in P PROVE i \in P
      BY <1>7, <1>9, <2>1, <2>3
    <2> HIDE DEF P
    <2>4. \A i \in 0 .. amount : i \in P
      BY <2>2, <2>3, UpTo
    <2> QED
      BY <2>4 DEF P
  <1>13. Ok(CHOOSE g : Ok(g))
    BY <1>11
  <1> HIDE DEF Ok
  <1>14. Erode(C, M, amount, bc) = f[amount]
    BY <1>5, <1>12, <1>13
  <1> QED
    BY <1>8, <1>9, <1>14 DEF S, Less, Erosion

\* What the value of a mask is beyond the range, and where it is looked up.
LEMMA ValueIs ==
    ASSUME NEW C, CartOK(C), NEW M, NEW p, IsPoint(p)
    PROVE  /\ MaskValue(C, M, "FALSE", p) \in BOOLEAN
           /\ MaskValue(C, M, "FALSE", p) <=> PeriodicAdjust(C, p) \in Points(C.range) \cap M
           /\ MaskValue(C, M, "TRUE", p) \in BOOLEAN
           /\ MaskValue(C, M, "TRUE", p) <=>
                (PeriodicAdjust(C, p) \in Points(C.range) => PeriodicAdjust(C, p) \in M)
  <1> DEFINE q == PeriodicAdjust(C, p)
  <1>1. q \in Points(C.range) <=> HasPoint(C.range, q)
    BY AdjustIs, PointsIn
  <1>2. ASSUME HasPoint(C.range, q)
        PROVE  /\ MaskValue(C, M, "FALSE", p) \in BOOLEAN /\ MaskValue(C, M, "TRUE", p) \in BOOLEAN
               /\ MaskValue(C, M, "FALSE", p) <=> q \in M
               /\ MaskValue(C, M, "TRUE", p) <=> q \in M
    BY <1>2 DEF MaskValue
  <1>3. ASSUME ~HasPoint(C.range, q)
        PROVE  /\ MaskValue(C, M, "FALSE", p) \in BOOLEAN /\ MaskValue(C, M, "TRUE", p) \in BOOLEAN
               /\ ~MaskValue(C, M, "FALSE", p)
               /\ MaskValue(C, M, "TRUE", p)
    BY <1>3 DEF MaskValue
  <1> HIDE DEF q
  <1>4. CASE HasPoint(C.range, q)
    BY <1>1, <1>2, <1>4 DEF q
  <1>5. CASE ~HasPoint(C.range, q)
    BY <1>1, <1>3, <1>5 DEF q
  <1> QED
    BY <1>4, <1>5

\* Points next to a mask, and next to what is not of it.
Touches(C, M, p) == \E q \in Neighbors(p) : PeriodicAdjust(C, q) \in Points(C.range) \cap M
Leaves(C, M, p) == \E q \in Neighbors(p) : PeriodicAdjust(C, q) \in Points(C.range) \ M

\* Neighbours, coordinate by coordinate.
LEMMA NeighborIs ==
    ASSUME NEW p, IsPoint(p), NEW q
    PROVE  q \in Neighbors(p) <=>
             /\ IsPoint(q) /\ p[1] - 1 <= q[1] /\ q[1] <= p[1] + 1
             /\ p[2] - 1 <= q[2] /\ q[2] <= p[2] + 1
  BY DEF Neighbors, IsPoint

\* Where a mask ends, with nothing or everything beyond the range.
LEMMA OuterEdgeIs ==
    ASSUME NEW C, CartOK(C), NEW M, NEW p
    PROVE  p \in EdgeOf(C, M, "OUTER", "FALSE", FALSE) <=>
             /\ p \in Points(C.range) /\ p \notin M
             /\ Touches(C, M, p)
  <1> DEFINE V(q) == MaskValue(C, M, "FALSE", q)
  <1>1. p \in EdgeOf(C, M, "OUTER", "FALSE", FALSE) <=>
          p \in Points(C.range) /\ V(p) = FALSE /\ \E q \in Neighbors(p) : V(q) # V(p)
    BY DEF EdgeOf
  <1>2. ASSUME p \in Points(C.range)
        PROVE  /\ IsPoint(p) /\ PeriodicAdjust(C, p) = p
               /\ \A q \in Neighbors(p) : IsPoint(q)
    BY <1>2, PointsIn, AdjustInRange, NeighborIs
  <1>3. ASSUME NEW q, IsPoint(q)
        PROVE  V(q) \in BOOLEAN /\ (V(q) <=> PeriodicAdjust(C, q) \in Points(C.range) \cap M)
    BY <1>3, ValueIs
  <1> HIDE DEF V
  <1>4. CASE p \in Points(C.range)
    BY <1>1, <1>2, <1>3, <1>4, Zenon DEF Touches
  <1>5. CASE p \notin Points(C.range)
    BY <1>1, <1>5
  <1> QED
    BY <1>4, <1>5

\* The inner edge is of the mask; where everything is beyond, it touches points outside.
LEMMA InnerEdgeIs ==
    ASSUME NEW C, CartOK(C), NEW M, NEW p
    PROVE  /\ p \in EdgeOf(C, M, "INNER", "TRUE", FALSE) <=>
                /\ p \in Points(C.range) /\ p \in M
                /\ Leaves(C, M, p)
           /\ p \in EdgeOf(C, M, "INNER", "FALSE", FALSE) => p \in Points(C.range) \cap M
  <1> DEFINE V(q) == MaskValue(C, M, "TRUE", q)
             W(q) == MaskValue(C, M, "FALSE", q)
  <1>1. p \in EdgeOf(C, M, "INNER", "TRUE", FALSE) <=>
          p \in Points(C.range) /\ V(p) = TRUE /\ \E q \in Neighbors(p) : V(q) # V(p)
    BY DEF EdgeOf
  <1>2. p \in EdgeOf(C, M, "INNER", "FALSE", FALSE) =>
          p \in Points(C.range) /\ W(p) = TRUE
    BY DEF EdgeOf
  <1>3. ASSUME p \in Points(C.range)
        PROVE  /\ IsPoint(p) /\ PeriodicAdjust(C, p) = p
               /\ \A q \in Neighbors(p) : IsPoint(q)
    BY <1>3, PointsIn, AdjustInRange, NeighborIs
  <1>4. ASSUME NEW q, IsPoint(q)
        PROVE  /\ V(q) \in BOOLEAN
               /\ V(q) <=> (PeriodicAdjust(C, q) \in Points(C.range) => PeriodicAdjust(C, q) \in M)
               /\ W(q) <=> PeriodicAdjust(C, q) \in Points(C.range) \cap M
    BY <1>4, ValueIs
  <1> HIDE DEF V, W
  <1>5. p \in EdgeOf(C, M, "INNER", "FALSE", FALSE) => p \in Points(C.range) \cap M
    BY <1>2, <1>3, <1>4, Zenon
  <1>6. CASE p \in Points(C.range)
    <2>1. V(p) <=> p \in M
      BY <1>3, <1>4, <1>6
    <2>2. \A q \in Neighbors(p) : V(q) \in BOOLEAN /\ V(p) \in BOOLEAN
             /\ (~V(q) <=> PeriodicAdjust(C, q) \in Points(C.range) \ M)
      BY <1>3, <1>4, <1>6
    <2> QED
      BY <1>1, <1>5, <1>6, <2>1, <2>2, Zenon DEF Leaves
  <1>7. CASE p \notin Points(C.range)
    BY <1>1, <1>5, <1>7
  <1> QED
    BY <1>6, <1>7

\* An edge that may lie one point outside the range.
LEMMA ExteriorEdgeIs ==
    ASSUME NEW C, CartOK(C), NEW M, NEW p
    PROVE  p \in EdgeOf(C, M, "OUTER", "FALSE", TRUE) <=>
             /\ p \in Points(CartIncludeExteriorPoint(C).range) /\ IsPoint(p)
             /\ PeriodicAdjust(C, p) \notin Points(C.range) \cap M
             /\ Touches(C, M, p)
  <1> DEFINE V(q) == MaskValue(C, M, "FALSE", q)
             E == Points(CartIncludeExteriorPoint(C).range)
  <1>1. p \in EdgeOf(C, M, "OUTER", "FALSE", TRUE) <=>
          p \in E /\ V(p) = FALSE /\ \E q \in Neighbors(p) : V(q) # V(p)
    BY DEF EdgeOf
  <1>2. ASSUME p \in E
        PROVE  /\ IsPoint(p)
               /\ \A q \in Neighbors(p) : IsPoint(q)
    <2>1. \A d \in Dims : CartIncludeExteriorPoint(C).range.begin[d] \in Int
            /\ CartIncludeExteriorPoint(C).range.end[d] \in Int
      BY DEF CartOK, CartIncludeExteriorPoint, Box
    <2>2. IsPoint(p)
      BY <1>2, <2>1 DEF IsPoint, Points, Dims
    <2> QED
      BY <2>2, NeighborIs
  <1>3. ASSUME NEW q, IsPoint(q)
        PROVE  V(q) \in BOOLEAN /\ (V(q) <=> PeriodicAdjust(C, q) \in Points(C.range) \cap M)
    BY <1>3, ValueIs
  <1> HIDE DEF V, E
  <1>4. CASE p \in E
    <2> QED
      BY <1>1, <1>2, <1>3, <1>4, Zenon DEF E, Touches
  <1>5. CASE p \notin E
    BY <1>1, <1>5 DEF E
  <1> QED
    BY <1>4, <1>5

\* The cart with one point more at every side that is not periodic.
LEMMA ExteriorOK ==
    ASSUME NEW C, CartOK(C)
    PROVE  /\ CartOK(CartIncludeExteriorPoint(C))
           /\ Points(C.range) \subseteq Points(CartIncludeExteriorPoint(C).range)
           /\ \A p : PeriodicAdjust(CartIncludeExteriorPoint(C), p) = PeriodicAdjust(C, p)
           /\ \A p, q : SameIn(CartIncludeExteriorPoint(C), p, q) <=> SameIn(C, p, q)
           /\ \A d \in Dims :
                LET R == CartIncludeExteriorPoint(C).range
                IN IF C.periodic[d] THEN R.begin[d] = C.range.begin[d] /\ R.end[d] = C.range.end[d]
                   ELSE R.begin[d] = C.range.begin[d] - 1 /\ R.end[d] = C.range.end[d] + 1
  <1> DEFINE E == CartIncludeExteriorPoint(C)
  <1>1. /\ E.periodic = C.periodic /\ E.storage = C.storage
        /\ E \in [range : [begin : [Dims -> Int], end : [Dims -> Int]],
                  periodic : [Dims -> BOOLEAN], storage : {"UNIQUE"}]
        /\ \A d \in Dims :
             IF C.periodic[d]
             THEN E.range.begin[d] = C.range.begin[d] /\ E.range.end[d] = C.range.end[d]
             ELSE E.range.begin[d] = C.range.begin[d] - 1 /\ E.range.end[d] = C.range.end[d] + 1
    BY DEF CartOK, CartIncludeExteriorPoint, Box
  <1> HIDE DEF E
  <1>2. \A d \in Dims : /\ C.range.begin[d] \in Int /\ C.range.end[d] \in Int
                        /\ C.range.begin[d] < C.range.end[d]
    BY DEF CartOK
  <1>3. CartOK(E)
    BY <1>1, <1>2 DEF CartOK
  <1>4. \A p : p \in Points(C.range) => p \in Points(E.range)
    <2> TAKE p
    <2>1. HasPoint(C.range, p) /\ IsPoint(p) => HasPoint(E.range, p)
      BY <1>1, <1>2 DEF HasPoint, IsPoint, Dims
    <2> QED
      BY <1>3, <2>1, PointsIn
  <1>5. \A d \in Dims : C.periodic[d] =>
          E.range.begin[d] = C.range.begin[d] /\ PeriodSize(E, d) = PeriodSize(C, d)
    BY <1>1 DEF PeriodSize
  <1>6. \A p : PeriodicAdjust(E, p) = PeriodicAdjust(C, p)
    BY <1>1, <1>5 DEF PeriodicAdjust
  <1>7. \A p, q : SameIn(E, p, q) <=> SameIn(C, p, q)
    BY <1>1, <1>5 DEF SameIn, PeriodsApart
  <1> QED
    BY <1>1, <1>3, <1>4, <1>6, <1>7 DEF E

\* What layers around points cover was there before that many layers were taken away.
LEMMA Opening ==
    ASSUME NEW C, CartOK(C), NEW S, S \subseteq Points(C.range), NEW n \in Nat,
           NEW M, M \subseteq Erode(C, S, n, "TRUE")
    PROVE  Dilate(C, M, n, "FALSE") \subseteq S
  <1>1. PICK d : Dilation(d, C, M, n, "FALSE") /\ Dilate(C, M, n, "FALSE") = d[n]
    BY DilateIs
  <1>2. PICK e : Erosion(e, C, S, n, "TRUE") /\ Erode(C, S, n, "TRUE") = e[n]
    BY ErodeIs
  <1> DEFINE P == {j \in 0 .. n : d[j] \subseteq e[n - j]}
  <1>3. 0 \in P
    <2>1. d[0] \subseteq e[n]
      BY <1>1, <1>2 DEF Dilation, Erosion
    <2>2. n - 0 = n
      OBVIOUS
    <2> QED
      BY <2>1, <2>2
  <1>4. ASSUME NEW j \in 1 .. n, j - 1 \in P PROVE j \in P
    <2> DEFINE k == n - j + 1
    <2>1. k \in 1 .. n /\ k - 1 = n - j /\ k = n - (j - 1) /\ j \in 0 .. n /\ k - 1 \in 0 .. n
      OBVIOUS
    <2>2. d[j - 1] \subseteq e[k]
      BY <1>4, <2>1
    <2> HIDE DEF k
    <2>3. /\ d[j] = d[j - 1] \cup EdgeOf(C, d[j - 1], "OUTER", "FALSE", FALSE)
          /\ e[k] = e[k - 1] \ EdgeOf(C, e[k - 1], "INNER", "TRUE", FALSE)
          /\ e[k - 1] \subseteq S
      BY <1>1, <1>2, <2>1 DEF Dilation, Erosion
    <2>4. ASSUME NEW p \in EdgeOf(C, d[j - 1], "OUTER", "FALSE", FALSE)
          PROVE  p \in e[k - 1]
      <3>1. p \in Points(C.range) /\ IsPoint(p)
            /\ Touches(C, d[j - 1], p)
        BY OuterEdgeIs, PointsIn
      <3>2. PICK q \in Neighbors(p) : PeriodicAdjust(C, q) \in Points(C.range) \cap d[j - 1]
        BY <3>1 DEF Touches
      <3>3. IsPoint(q) /\ p[1] - 1 <= q[1] /\ q[1] <= p[1] + 1 /\ p[2] - 1 <= q[2] /\ q[2] <= p[2] + 1
        BY <3>1, NeighborIs
      <3> DEFINE r == PeriodicAdjust(C, q)
      <3>4. IsPoint(r) /\ SameIn(C, r, q) /\ r \in e[k] /\ r \in Points(C.range)
        BY <2>2, <3>2, <3>3, AdjustIs
      <3> HIDE DEF r
      <3>5. r \in e[k - 1] /\ ~Leaves(C, e[k - 1], r)
        BY <2>3, <3>4, InnerEdgeIs
      <3>6. PICK s : /\ IsPoint(s) /\ SameIn(C, s, p)
                     /\ r[1] - 1 <= s[1] /\ s[1] <= r[1] + 1
                     /\ r[2] - 1 <= s[2] /\ s[2] <= r[2] + 1
        BY <3>1, <3>3, <3>4, Moved
      <3>7. s \in Neighbors(r)
        BY <3>4, <3>6, NeighborIs
      <3>8. PeriodicAdjust(C, s) = p
        BY <3>1, <3>6, AdjustSame, AdjustInRange
      <3> QED
        BY <3>1, <3>5, <3>7, <3>8 DEF Leaves
    <2> QED
      BY <2>1, <2>2, <2>3, <2>4
  <1> HIDE DEF P
  <1>5. n \in P
    BY <1>3, <1>4, UpTo
  <1>6. d[n] \subseteq e[0]
    <2>1. n - n = 0
      OBVIOUS
    <2> QED
      BY <1>5, <2>1 DEF P
  <1> QED
    BY <1>1, <1>2, <1>6 DEF Erosion

\* Layers reach all points that are as near.
Within(p, s, n) ==
    p[1] - n <= s[1] /\ s[1] <= p[1] + n /\ p[2] - n <= s[2] /\ s[2] <= p[2] + n

\* Dilate covers every point from which n steps along each axis, across periodic
\* sides too, lead to the mask.
LEMMA Reached ==
    ASSUME NEW C, CartOK(C), NEW M, NEW n \in Nat, NEW p \in Points(C.range),
           NEW q \in Points(C.range) \cap M, NEW s, IsPoint(s), Within(p, s, n), SameIn(C, q, s)
    PROVE  p \in Dilate(C, M, n, "FALSE")
  <1>1. PICK d : Dilation(d, C, M, n, "FALSE") /\ Dilate(C, M, n, "FALSE") = d[n]
    BY DilateIs
  <1> DEFINE Near(i, a, b) == IsPoint(b) /\ Within(a, b, i) /\ SameIn(C, q, b)
             P == {i \in 0 .. n : \A a \in Points(C.range) : \A b : Near(i, a, b) => a \in d[i]}
  <1>2. IsPoint(q) /\ HasPoint(C.range, q)
    BY PointsIn
  <1>3. \A i \in Dims : C.range.begin[i] <= q[i] /\ q[i] < C.range.end[i]
    BY <1>2 DEF HasPoint
  <1>4. ASSUME NEW a \in Points(C.range)
        PROVE  IsPoint(a) /\ \A i \in Dims : C.range.begin[i] <= a[i] /\ a[i] < C.range.end[i]
    BY PointsIn DEF HasPoint
  <1>5. 0 \in P
    <2>1. ASSUME NEW a \in Points(C.range), NEW b, Near(0, a, b) PROVE a \in d[0]
      <3>1. IsPoint(a) /\ IsPoint(b) /\ a[1] = b[1] /\ a[2] = b[2]
        BY <1>4, <2>1 DEF Within, IsPoint
      <3>2. a = b
        BY <3>1 DEF IsPoint
      <3>3. q = a
        BY <1>2, <1>3, <1>4, <2>1, <3>2, SameInRange
      <3> QED
        BY <1>1, <3>3 DEF Dilation
    <2> QED
      BY <2>1
  <1>6. ASSUME NEW i \in 1 .. n, i - 1 \in P PROVE i \in P
    <2>1. ASSUME NEW a \in Points(C.range), NEW b, Near(i, a, b) PROVE a \in d[i]
      <3> DEFINE Toward(x, y) == IF x < y THEN x + 1 ELSE IF x > y THEN x - 1 ELSE x
                 r == <<Toward(a[1], b[1]), Toward(a[2], b[2])>>
      <3>1. a[1] \in Int /\ a[2] \in Int /\ b[1] \in Int /\ b[2] \in Int /\ IsPoint(a) /\ IsPoint(b)
        BY <1>4, <2>1 DEF IsPoint
      <3>2. ASSUME NEW x \in Int, NEW y \in Int, x - i <= y, y <= x + i
            PROVE  /\ Toward(x, y) \in Int
                   /\ x - 1 <= Toward(x, y) /\ Toward(x, y) <= x + 1
                   /\ y - (i - 1) <= Toward(x, y) /\ Toward(x, y) <= y + (i - 1)
                   /\ Toward(x, y) - (i - 1) <= y /\ y <= Toward(x, y) + (i - 1)
                   /\ \A l, u \in Int : l <= x /\ l <= y /\ x < u /\ y < u => l <= Toward(x, y) /\ Toward(x, y) < u
        BY <3>2
      <3>3. a[1] - i <= b[1] /\ b[1] <= a[1] + i /\ a[2] - i <= b[2] /\ b[2] <= a[2] + i
        BY <2>1 DEF Within
      <3>4. IsPoint(r) /\ r \in Neighbors(a)
        <4>1. IsPoint(r)
          BY <3>1, <3>2, <3>3 DEF IsPoint
        <4> QED
          BY <3>1, <3>2, <3>3, <4>1, NeighborIs
      <3>5. r[1] - (i - 1) <= b[1] /\ b[1] <= r[1] + (i - 1) /\ r[2] - (i - 1) <= b[2] /\ b[2] <= r[2] + (i - 1)
        BY <3>1, <3>2, <3>3
      <3>6. \A j \in Dims : r[j] \in Int /\ r[j] = Toward(a[j], b[j]) /\ a[j] \in Int /\ b[j] \in Int
                 /\ a[j] - i <= b[j] /\ b[j] <= a[j] + i
        BY <3>1, <3>2, <3>3 DEF Dims
      <3>7. ASSUME NEW j \in Dims, ~C.periodic[j]
            PROVE  C.range.begin[j] <= r[j] /\ r[j] < C.range.end[j]
        <4>1. q[j] = b[j]
          BY <2>1, <3>7 DEF SameIn
        <4>2. C.range.begin[j] \in Int /\ C.range.end[j] \in Int
          BY PeriodIs
        <4>3. /\ C.range.begin[j] <= a[j] /\ a[j] < C.range.end[j]
              /\ C.range.begin[j] <= b[j] /\ b[j] < C.range.end[j]
          BY <1>3, <1>4, <4>1
        <4>4. r[j] = Toward(a[j], b[j]) /\ a[j] \in Int /\ b[j] \in Int
              /\ a[j] - i <= b[j] /\ b[j] <= a[j] + i
          BY <3>6
        <4> QED
          BY <4>2, <4>3, <4>4
      <3> HIDE DEF r, Toward
      <3> DEFINE t == PeriodicAdjust(C, r)
      <3>8. /\ IsPoint(t) /\ SameIn(C, t, r)
            /\ \A j \in Dims : C.periodic[j] => C.range.begin[j] <= t[j] /\ t[j] < C.range.end[j]
        BY <3>4, AdjustIs
      <3>9. t \in Points(C.range)
        <4>1. \A j \in Dims : ~C.periodic[j] => t[j] = r[j]
          BY <3>8 DEF SameIn
        <4>2. HasPoint(C.range, t)
          BY <3>7, <3>8, <4>1 DEF HasPoint
        <4> QED
          BY <3>8, <4>2, PointsIn
      <3> HIDE DEF t
      <3>10. PICK c : /\ IsPoint(c) /\ SameIn(C, c, b)
                      /\ t[1] - (i - 1) <= c[1] /\ c[1] <= t[1] + (i - 1)
                      /\ t[2] - (i - 1) <= c[2] /\ c[2] <= t[2] + (i - 1)
        <4>1. i - 1 \in Nat
          OBVIOUS
        <4>2. /\ b[1] - (i - 1) <= r[1] /\ r[1] <= b[1] + (i - 1)
              /\ b[2] - (i - 1) <= r[2] /\ r[2] <= b[2] + (i - 1)
          BY <3>1, <3>5, <3>6 DEF Dims
        <4> QED
          BY <3>1, <3>4, <3>8, <4>1, <4>2, Moved
      <3>11. Near(i - 1, t, c)
        <4>1. SameIn(C, b, c)
          BY <3>1, <3>10, SameTrans
        <4>2. SameIn(C, q, c)
          BY <1>2, <2>1, <3>1, <3>10, <4>1, SameTrans
        <4> QED
          BY <3>10, <4>2 DEF Within
      <3>12. t \in d[i - 1]
        BY <1>6, <3>9, <3>11
      <3>13. d[i] = d[i - 1] \cup EdgeOf(C, d[i - 1], "OUTER", "FALSE", FALSE)
        BY <1>1 DEF Dilation
      <3>14. a \notin d[i - 1] => a \in EdgeOf(C, d[i - 1], "OUTER", "FALSE", FALSE)
        <4>1. Touches(C, d[i - 1], a)
          BY <3>4, <3>9, <3>12 DEF t, Touches
        <4> QED
          BY <4>1, OuterEdgeIs
      <3> QED
        BY <3>13, <3>14
    <2> QED
      BY <2>1
  <1> HIDE DEF P
  <1>7. n \in P
    BY <1>5, <1>6, UpTo
  <1> QED
    BY <1>1, <1>7 DEF P
-----------------------------------------------------------------------------
\* The image of a cell at a rank of its grid (MapToRange, RangeInRange, KnownRanges).

\* An image of the four corners of a cell: a range of two points a side, periods apart.
ImageOf(C, X, c) ==
    /\ IsPoint(X.begin) /\ X.end[1] = X.begin[1] + 2 /\ X.end[2] = X.begin[2] + 2
    /\ SameIn(C, X.begin, c)

\* The points of an image are the corners of the cell.
LEMMA ImageCorners ==
    ASSUME NEW C, CartOK(C), NEW c, IsPoint(c), NEW X, ImageOf(C, X, c)
    PROVE  {Wrapped(C, q) : q \in Points(X)} = Corners(C, c)
  <1> DEFINE b == X.begin
  <1>1. /\ b = <<b[1], b[2]>> /\ b[1] \in Int /\ b[2] \in Int /\ c[1] \in Int /\ c[2] \in Int
        /\ c = <<c[1], c[2]>> /\ X.end[1] = b[1] + 2 /\ X.end[2] = b[2] + 2 /\ SameIn(C, b, c)
    BY DEF ImageOf, IsPoint
  <1>2. Points(X) = {<<x, y>> : x \in {b[1], b[1] + 1}, y \in {b[2], b[2] + 1}}
    <2> DEFINE Product(A, B) == {<<x, y>> : x \in A, y \in B}
    <2>1. b[1] .. X.end[1] - 1 = {b[1], b[1] + 1} /\ b[2] .. X.end[2] - 1 = {b[2], b[2] + 1}
      BY <1>1
    <2>2. Points(X) = Product(b[1] .. X.end[1] - 1, b[2] .. X.end[2] - 1)
      BY DEF Points
    <2> HIDE DEF Product, b
    <2>3. Points(X) = Product({b[1], b[1] + 1}, {b[2], b[2] + 1})
      BY <2>1, <2>2
    <2> QED
      BY <2>3 DEF Product
  <1> HIDE DEF b
  <1>3. ASSUME NEW i \in {0, 1}, NEW j \in {0, 1}
        PROVE  Wrapped(C, <<b[1] + i, b[2] + j>>) = Wrapped(C, <<c[1] + i, c[2] + j>>)
    <2> DEFINE q == <<b[1] + i, b[2] + j>>
               e == <<c[1] + i, c[2] + j>>
    <2>1. IsPoint(q) /\ IsPoint(e)
      BY <1>1 DEF IsPoint
    <2>2. SameIn(C, q, e)
      <3>1. ASSUME NEW d \in Dims, NEW k \in {0, 1}, C.periodic[d], PeriodsApart(C, d, b[d], c[d]),
                   c[d] \in Int
            PROVE  PeriodsApart(C, d, b[d] + k, c[d] + k)
        <4>1. PICK n \in Int : b[d] = c[d] + PeriodSize(C, d) * n
          BY <3>1 DEF PeriodsApart
        <4>2. PeriodSize(C, d) * n \in Int
          BY PeriodIs
        <4>3. b[d] + k = (c[d] + k) + PeriodSize(C, d) * n
          BY <3>1, <4>1, <4>2
        <4> QED
          BY <4>3 DEF PeriodsApart
      <3>2. q[1] = b[1] + i /\ q[2] = b[2] + j /\ e[1] = c[1] + i /\ e[2] = c[2] + j
        OBVIOUS
      <3>3. 1 \in Dims /\ 2 \in Dims /\ \A d \in Dims : d = 1 \/ d = 2
        BY DEF Dims
      <3> HIDE DEF q, e
      <3> QED
        BY <1>1, <3>1, <3>2, <3>3 DEF SameIn
    <2> HIDE DEF q, e
    <2>3. Wrapped(C, q) = PeriodicAdjust(C, q) /\ Wrapped(C, e) = PeriodicAdjust(C, e)
      BY <2>1, WrappedIs
    <2>4. Wrapped(C, q) = Wrapped(C, e)
      BY <2>1, <2>2, <2>3, AdjustSame
    <2> QED
      BY <2>4 DEF q, e
  <1>4. \A x \in {b[1], b[1] + 1}, y \in {b[2], b[2] + 1} :
          \E u \in {c[1], c[1] + 1}, v \in {c[2], c[2] + 1} : Wrapped(C, <<x, y>>) = Wrapped(C, <<u, v>>)
    <2>1. \A x \in {b[1], b[1] + 1} : \E i \in {0, 1} : x = b[1] + i
      BY <1>1
    <2>2. \A y \in {b[2], b[2] + 1} : \E j \in {0, 1} : y = b[2] + j
      BY <1>1
    <2>3. \A i \in {0, 1} : c[1] + i \in {c[1], c[1] + 1} /\ c[2] + i \in {c[2], c[2] + 1}
      BY <1>1
    <2> QED
      BY <1>3, <2>1, <2>2, <2>3
  <1>5. \A u \in {c[1], c[1] + 1}, v \in {c[2], c[2] + 1} :
          \E x \in {b[1], b[1] + 1}, y \in {b[2], b[2] + 1} : Wrapped(C, <<x, y>>) = Wrapped(C, <<u, v>>)
    <2>1. \A x \in {c[1], c[1] + 1} : \E i \in {0, 1} : x = c[1] + i
      BY <1>1
    <2>2. \A y \in {c[2], c[2] + 1} : \E j \in {0, 1} : y = c[2] + j
      BY <1>1
    <2>3. \A i \in {0, 1} : b[1] + i \in {b[1], b[1] + 1} /\ b[2] + i \in {b[2], b[2] + 1}
      BY <1>1
    <2> QED
      BY <1>3, <2>1, <2>2, <2>3
  <1> QED
    BY <1>2, <1>4, <1>5 DEF Corners

\* The local range of a rank of a grid.
LocalIn(C, L) ==
    /\ L = [begin |-> L.begin, end |-> L.end]
    /\ IsPoint(L.begin) /\ L.begin = [d \in Dims |-> L.begin[d]] /\ L.end = [d \in Dims |-> L.end[d]]
    /\ \A d \in Dims : /\ L.begin[d] \in Int /\ L.end[d] \in Int
                       /\ C.range.begin[d] <= L.begin[d] /\ L.begin[d] < L.end[d]
                       /\ L.end[d] <= C.range.end[d]

LEMMA LocalIs ==
    ASSUME NEW C, CartOK(C), NEW Local, LocalOK(C, Local), NEW r \in DOMAIN Local
    PROVE  LocalIn(C, Local[r])
  <1>1. 1 \in Dims /\ 2 \in Dims /\ \A d \in Dims : d = 1 \/ d = 2
    BY DEF Dims
  <1>2. /\ Local[r] \in [begin : [Dims -> Int], end : [Dims -> Int]]
        /\ ~Empty(Local[r]) /\ Includes(C.range, Local[r])
    BY DEF LocalOK
  <1>3. IsPoint(Local[r].begin)
    <2>1. Local[r].begin \in [1 .. 2 -> Int]
      BY <1>2 DEF Dims
    <2> QED
      BY <2>1 DEF IsPoint
  <1>4. /\ Local[r] = [begin |-> Local[r].begin, end |-> Local[r].end]
        /\ Local[r].begin = [d \in Dims |-> Local[r].begin[d]]
        /\ Local[r].end = [d \in Dims |-> Local[r].end[d]]
        /\ \A d \in Dims : Local[r].begin[d] \in Int /\ Local[r].end[d] \in Int
    BY <1>2
  <1>5. ASSUME NEW d \in Dims
        PROVE  /\ Local[r].begin[d] < Local[r].end[d]
               /\ C.range.begin[d] <= Local[r].begin[d] /\ Local[r].end[d] <= C.range.end[d]
    BY <1>2, <1>4 DEF Empty, Includes
  <1> QED
    BY <1>3, <1>4, <1>5 DEF LocalIn

\* Cells begin at points, and have corners at the side where the range does not end.
LEMMA CellsIn ==
    ASSUME NEW C, CartOK(C), NEW c \in Cells(C)
    PROVE  /\ IsPoint(c) /\ HasPoint(C.range, c) /\ c \in Points(C.range)
           /\ \A d \in Dims : ~C.periodic[d] => c[d] + 1 < C.range.end[d]
  <1>1. 1 \in Dims /\ 2 \in Dims /\ \A d \in Dims : d = 1 \/ d = 2
    BY DEF Dims
  <1>2. \A d \in Dims : /\ C.range.begin[d] \in Int /\ C.range.end[d] \in Int /\ C.periodic[d] \in BOOLEAN
    BY PeriodIs
  <1> DEFINE R == CartPointToCell(C).range
  <1>3. /\ R.begin = C.range.begin
        /\ \A d \in Dims : R.end[d] = IF C.periodic[d] THEN C.range.end[d] ELSE C.range.end[d] - 1
    BY DEF CartPointToCell, CartOK, Box
  <1>4. c \in {<<x, y>> : x \in R.begin[1] .. R.end[1] - 1, y \in R.begin[2] .. R.end[2] - 1}
    BY DEF Cells, Points
  <1> HIDE DEF R
  <1>5. /\ c = <<c[1], c[2]>> /\ c[1] \in R.begin[1] .. R.end[1] - 1 /\ c[2] \in R.begin[2] .. R.end[2] - 1
    BY <1>4
  <1>6. \A d \in Dims : c[d] \in Int /\ R.begin[d] <= c[d] /\ c[d] < R.end[d]
    BY <1>1, <1>2, <1>3, <1>5
  <1>7. IsPoint(c)
    BY <1>1, <1>5, <1>6 DEF IsPoint
  <1>8. HasPoint(C.range, c)
    BY <1>2, <1>3, <1>6 DEF HasPoint
  <1>9. \A d \in Dims : ~C.periodic[d] => c[d] + 1 < C.range.end[d]
    BY <1>2, <1>3, <1>6
  <1> QED
    BY <1>7, <1>8, <1>9, PointsIn

\* What lies in the range is in the first period.
LEMMA FirstPeriod ==
    ASSUME NEW a \in Int, NEW P \in Nat, 0 <= a, a < P
    PROVE  a \div P = 0
  <1> DEFINE k == a \div P
  <1>1. k \in Int /\ a = P * k + (a % P) /\ a % P \in 0 .. P - 1
    BY ModFacts
  <1> HIDE DEF k
  <1>2. P * k + (a % P) = P * 0 + a
    BY <1>1
  <1>3. \A n \in Int : n >= 1 => P * n >= P
    OBVIOUS
  <1>4. \A n \in Int : n <= -1 => P * n <= -P
    OBVIOUS
  <1>5. ~(k >= 1)
    BY <1>1, <1>3
  <1>6. ~(k <= -1)
    BY <1>1, <1>4
  <1> QED
    BY <1>1, <1>5, <1>6 DEF k

\* The image of a point of the range in a local range, if there is one.
LEMMA MapIs ==
    ASSUME NEW C, CartOK(C), NEW L, LocalIn(C, L), NEW p, IsPoint(p), HasPoint(C.range, p)
    PROVE  LET m == MapToRange(C, L, p)
           IN m # NoPoint => IsPoint(m) /\ HasPoint(L, m) /\ SameIn(C, m, p)
  <1> DEFINE bp == Period(C, L.begin)
             tp == Period(C, p)
             in == [d \in Dims |-> p[d] + PeriodSize(C, d) * (bp[d] - tp[d])]
             m == [d \in Dims |-> IF in[d] < L.begin[d] THEN in[d] + PeriodSize(C, d) ELSE in[d]]
  <1>1. MapToRange(C, L, p) = IF HasPoint(L, m) THEN m ELSE NoPoint
    BY DEF MapToRange
  <1>2. ASSUME HasPoint(L, m) PROVE IsPoint(m) /\ SameIn(C, m, p)
    <2>1. ASSUME NEW d \in Dims
          PROVE  /\ m[d] \in Int
                 /\ C.periodic[d] => PeriodsApart(C, d, m[d], p[d])
                 /\ ~C.periodic[d] => m[d] = p[d]
      <3> DEFINE P == PeriodSize(C, d)
                 n == bp[d] - tp[d]
      <3>1. /\ P \in Nat /\ P > 0 /\ P = C.range.end[d] - C.range.begin[d]
            /\ C.range.begin[d] \in Int /\ C.range.end[d] \in Int /\ C.periodic[d] \in BOOLEAN
        BY PeriodIs
      <3>2. /\ L.begin[d] \in Int /\ L.end[d] \in Int /\ L.end[d] <= C.range.end[d] /\ p[d] \in Int
            /\ C.range.begin[d] <= p[d]
        BY <1>2 DEF LocalIn, IsPoint, HasPoint, Dims
      <3>3. n \in Int /\ (~C.periodic[d] => n = 0)
        <4>1. CASE C.periodic[d]
          <5>1. bp[d] = (L.begin[d] - C.range.begin[d]) \div P /\ tp[d] = (p[d] - C.range.begin[d]) \div P
            BY <4>1 DEF Period
          <5>2. bp[d] \in Int /\ tp[d] \in Int
            BY <3>1, <3>2, <5>1, ModFacts
          <5> QED
            BY <4>1, <5>2
        <4>2. CASE ~C.periodic[d]
          <5>1. bp[d] = 0 /\ tp[d] = 0
            BY <4>2 DEF Period
          <5> QED
            BY <5>1
        <4> QED
          BY <4>1, <4>2
      <3>4. m[d] = (p[d] + P * n) + (IF p[d] + P * n < L.begin[d] THEN P ELSE 0)
        <4>1. in[d] = p[d] + P * n
          OBVIOUS
        <4>2. m[d] = IF in[d] < L.begin[d] THEN in[d] + P ELSE in[d]
          OBVIOUS
        <4>3. in[d] \in Int
          BY <3>1, <3>2, <3>3, <4>1
        <4> HIDE DEF in, m, P, n
        <4> QED
          BY <3>1, <4>1, <4>2, <4>3
      <3>5. m[d] < L.end[d]
        BY <1>2 DEF HasPoint
      <3> HIDE DEF m, P, n, in, bp, tp
      <3>6. CASE C.periodic[d]
        <4>1. P * (n + 1) = P * n + P /\ P * n \in Int
          BY <3>1, <3>3
        <4>2. m[d] \in Int /\ (m[d] = p[d] + P * n \/ m[d] = p[d] + P * (n + 1))
          <5> DEFINE whole == P * n
                     next == P * (n + 1)
          <5>1. whole \in Int /\ next = whole + P /\ m[d] = (p[d] + whole) + (IF p[d] + whole < L.begin[d] THEN P ELSE 0)
            BY <3>4, <4>1
          <5> HIDE DEF whole, next
          <5>2. m[d] \in Int /\ (m[d] = p[d] + whole \/ m[d] = p[d] + next)
            BY <3>1, <3>2, <5>1
          <5> QED
            BY <5>2 DEF whole, next
        <4>3. n \in Int /\ n + 1 \in Int
          BY <3>3
        <4> QED
          BY <3>6, <4>2, <4>3 DEF PeriodsApart, P
      <3>7. CASE ~C.periodic[d]
        <4>1. P * n = 0
          BY <3>1, <3>3, <3>7
        <4> QED
          BY <3>1, <3>2, <3>4, <3>5, <3>7, <4>1
      <3> QED
        BY <3>1, <3>6, <3>7
    <2>2. m = [d \in Dims |-> m[d]]
      OBVIOUS
    <2>3. IsPoint(m)
      <3>1. 1 \in Dims /\ 2 \in Dims
        BY DEF Dims
      <3> HIDE DEF m
      <3> QED
        BY <2>1, <2>2, <3>1, PointIs
    <2> HIDE DEF m
    <2> QED
      BY <2>1, <2>3 DEF SameIn
  <1> HIDE DEF m
  <1> QED
    BY <1>1, <1>2

\* A point of the range is its own image in it.
LEMMA MapHere ==
    ASSUME NEW C, CartOK(C), NEW p, IsPoint(p), HasPoint(C.range, p)
    PROVE  \A d \in Dims : MapToRange(C, C.range, p)[d] = p[d]
  <1> DEFINE bp == Period(C, C.range.begin)
             tp == Period(C, p)
             in == [d \in Dims |-> p[d] + PeriodSize(C, d) * (bp[d] - tp[d])]
             m == [d \in Dims |-> IF in[d] < C.range.begin[d] THEN in[d] + PeriodSize(C, d) ELSE in[d]]
  <1>1. MapToRange(C, C.range, p) = IF HasPoint(C.range, m) THEN m ELSE NoPoint
    BY DEF MapToRange
  <1>2. ASSUME NEW d \in Dims PROVE m[d] = p[d]
    <2> DEFINE P == PeriodSize(C, d)
    <2>1. /\ P \in Nat /\ P > 0 /\ P = C.range.end[d] - C.range.begin[d]
          /\ C.range.begin[d] \in Int /\ C.range.end[d] \in Int /\ p[d] \in Int
          /\ C.range.begin[d] <= p[d] /\ p[d] < C.range.end[d]
      BY PeriodIs DEF IsPoint, HasPoint, Dims
    <2>2. bp[d] = 0 /\ tp[d] = 0
      <3>1. CASE C.periodic[d]
        <4>1. bp[d] = (C.range.begin[d] - C.range.begin[d]) \div P /\ tp[d] = (p[d] - C.range.begin[d]) \div P
          BY <3>1 DEF Period
        <4> HIDE DEF P, bp, tp
        <4>2. (C.range.begin[d] - C.range.begin[d]) \div P = 0 /\ (p[d] - C.range.begin[d]) \div P = 0
          BY <2>1, FirstPeriod
        <4> QED
          BY <4>1, <4>2
      <3>2. CASE ~C.periodic[d]
        BY <3>2 DEF Period
      <3> QED
        BY <3>1, <3>2
    <2>3. in[d] = p[d]
      <3>1. in[d] = p[d] + P * (bp[d] - tp[d])
        OBVIOUS
      <3> HIDE DEF in, bp, tp, P
      <3>2. in[d] = p[d] + P * 0
        BY <2>2, <3>1
      <3> QED
        BY <2>1, <3>2
    <2>4. m[d] = IF in[d] < C.range.begin[d] THEN in[d] + P ELSE in[d]
      OBVIOUS
    <2> HIDE DEF m, in, P
    <2> QED
      BY <2>1, <2>3, <2>4
  <1> HIDE DEF m
  <1>3. HasPoint(C.range, m)
    BY <1>2 DEF HasPoint
  <1> QED
    BY <1>1, <1>2, <1>3

\* Where the corners of a cell lie that is moved by so much.
Reaches2(L, c, by) == \A d \in Dims : c[d] + by[d] + 2 > L.begin[d] /\ L.end[d] > c[d] + by[d]
PeriodShifts(C) == {[d \in Dims |-> k[d] * PeriodSize(C, d)] : k \in {-1, 0} \X {-1, 0}}

LEMMA ShiftsAre ==
    ASSUME NEW C, CartOK(C), NEW by \in PeriodShifts(C)
    PROVE  \A d \in Dims : by[d] \in Int /\ (by[d] = 0 \/ by[d] = -PeriodSize(C, d))
  <1>1. PICK k \in {-1, 0} \X {-1, 0} : by = [d \in Dims |-> k[d] * PeriodSize(C, d)]
    BY DEF PeriodShifts
  <1>2. ASSUME NEW d \in Dims PROVE k[d] = 0 \/ k[d] = -1
    BY <1>1 DEF Dims
  <1>3. ASSUME NEW d \in Dims PROVE by[d] = k[d] * PeriodSize(C, d) /\ PeriodSize(C, d) \in Nat
    BY <1>1, PeriodIs
  <1> QED
    BY <1>2, <1>3

LEMMA ShiftBy ==
    ASSUME NEW C, CartOK(C), NEW i \in {-1, 0}, NEW j \in {-1, 0}
    PROVE  \E by \in PeriodShifts(C) : by[1] = i * PeriodSize(C, 1) /\ by[2] = j * PeriodSize(C, 2)
  <1> DEFINE k == <<i, j>>
             by == [d \in Dims |-> k[d] * PeriodSize(C, d)]
  <1>1. k \in {-1, 0} \X {-1, 0} /\ k[1] = i /\ k[2] = j
    OBVIOUS
  <1>2. 1 \in Dims /\ 2 \in Dims
    BY DEF Dims
  <1> HIDE DEF k
  <1>3. by \in PeriodShifts(C)
    BY <1>1 DEF PeriodShifts
  <1> QED
    BY <1>1, <1>2, <1>3

\* Of some of these shifts one is the last.
LEMMA LastShift ==
    ASSUME NEW C, CartOK(C), NEW M \in SUBSET PeriodShifts(C), M # {}
    PROVE  \E by \in M : \A other \in M : other[2] < by[2] \/ (other[2] = by[2] /\ other[1] <= by[1])
  <1>1. \A by \in M : by[1] \in Int /\ by[2] \in Int /\ (by[1] = 0 \/ by[1] = -PeriodSize(C, 1))
                      /\ (by[2] = 0 \/ by[2] = -PeriodSize(C, 2))
    BY ShiftsAre DEF Dims
  <1>2. PeriodSize(C, 1) \in Nat /\ PeriodSize(C, 2) \in Nat /\ PeriodSize(C, 1) > 0 /\ PeriodSize(C, 2) > 0
    BY PeriodIs DEF Dims
  <1> DEFINE Upper == {by \in M : by[2] = 0}
             Rightmost(by, K) == by \in K /\ \A other \in K : other[1] <= by[1]
  <1>3. ASSUME NEW K \in SUBSET M, K # {} PROVE \E by \in K : Rightmost(by, K)
    <2>1. CASE \E by \in K : by[1] = 0
      BY <1>1, <1>2, <2>1
    <2>2. CASE \A by \in K : by[1] # 0
      BY <1>1, <1>2, <1>3, <2>2
    <2> QED
      BY <2>1, <2>2
  <1>4. CASE Upper # {}
    <2>1. PICK by \in Upper : Rightmost(by, Upper)
      BY <1>3, <1>4
    <2>2. \A other \in M : other[2] < by[2] \/ (other[2] = by[2] /\ other[1] <= by[1])
      BY <1>1, <1>2, <2>1
    <2> QED
      BY <2>2
  <1>5. CASE Upper = {}
    <2>1. PICK by \in M : Rightmost(by, M)
      BY <1>3
    <2>2. \A other \in M : other[2] = -PeriodSize(C, 2)
      BY <1>1, <1>5
    <2> QED
      BY <2>1, <2>2
  <1> QED
    BY <1>4, <1>5

\* What moves a cell into reach of a local range moves it by periods.
LEMMA ShiftedImage ==
    ASSUME NEW C, CartOK(C), NEW L, LocalIn(C, L), NEW c \in Cells(C), NEW by \in PeriodShifts(C),
           Reaches2(L, c, by), NEW b, IsPoint(b), \A d \in Dims : b[d] = c[d] + by[d]
    PROVE  SameIn(C, b, c)
  <1>1. ASSUME NEW d \in Dims
        PROVE IF C.periodic[d] THEN PeriodsApart(C, d, b[d], c[d]) ELSE b[d] = c[d]
    <2> DEFINE P == PeriodSize(C, d)
    <2>1. /\ P \in Nat /\ P > 0 /\ P = C.range.end[d] - C.range.begin[d]
          /\ C.range.begin[d] \in Int /\ C.range.end[d] \in Int /\ C.periodic[d] \in BOOLEAN
      BY PeriodIs
    <2>2. /\ by[d] \in Int /\ (by[d] = 0 \/ by[d] = -P) /\ b[d] = c[d] + by[d]
      BY ShiftsAre
    <2>3. c[d] \in Int /\ (~C.periodic[d] => c[d] + 1 < C.range.end[d])
      BY CellsIn DEF IsPoint, Dims
    <2>4. L.begin[d] \in Int /\ C.range.begin[d] <= L.begin[d] /\ c[d] + by[d] + 2 > L.begin[d]
      BY DEF LocalIn, Reaches2
    <2> HIDE DEF P
    <2>5. CASE C.periodic[d]
      <3>1. b[d] = c[d] + P * 0 \/ b[d] = c[d] + P * (-1)
        BY <2>1, <2>2, <2>3
      <3>2. 0 \in Int /\ -1 \in Int
        OBVIOUS
      <3> QED
        BY <2>5, <3>1, <3>2 DEF PeriodsApart, P
    <2>6. CASE ~C.periodic[d]
      BY <2>1, <2>2, <2>3, <2>4, <2>6
    <2> QED
      BY <2>1, <2>5, <2>6
  <1> QED
    BY <1>1 DEF SameIn

\* A corner of a cell that lies in a local range is brought there by a shift.
LEMMA CornerReached ==
    ASSUME NEW C, CartOK(C), NEW L, LocalIn(C, L), NEW c \in Cells(C),
           NEW w \in Corners(C, c), HasPoint(L, w)
    PROVE  \E by \in PeriodShifts(C) : Reaches2(L, c, by)
  <1>1. IsPoint(c) /\ c[1] \in Int /\ c[2] \in Int /\ HasPoint(C.range, c)
    BY CellsIn DEF IsPoint
  <1>2. PICK x \in {c[1], c[1] + 1}, y \in {c[2], c[2] + 1} : w = Wrapped(C, <<x, y>>)
    BY DEF Corners
  <1> DEFINE e == <<x, y>>
  <1>3. IsPoint(e) /\ e[1] = x /\ e[2] = y
    BY <1>1 DEF IsPoint
  <1> HIDE DEF e
  <1>4. IsPoint(w) /\ SameIn(C, w, e)
    BY <1>2, <1>3, WrappedIs DEF e
  <1>5. \A d \in Dims : e[d] \in Int /\ c[d] \in Int /\ w[d] \in Int /\ c[d] <= e[d] /\ e[d] <= c[d] + 1
    BY <1>1, <1>2, <1>3, <1>4 DEF IsPoint, Dims
  <1>6. ASSUME NEW d \in Dims
        PROVE  \E k \in {-1, 0} : w[d] = e[d] + k * PeriodSize(C, d)
    <2> DEFINE P == PeriodSize(C, d)
    <2>1. /\ P \in Nat /\ P > 0 /\ P = C.range.end[d] - C.range.begin[d]
          /\ C.range.begin[d] \in Int /\ C.range.end[d] \in Int /\ C.periodic[d] \in BOOLEAN
      BY PeriodIs
    <2>2. C.range.begin[d] <= w[d] /\ w[d] < C.range.end[d]
      BY <1>5, <2>1 DEF LocalIn, HasPoint
    <2>3. C.range.begin[d] <= c[d] /\ c[d] < C.range.end[d]
      BY <1>1 DEF HasPoint
    <2> HIDE DEF P
    <2>4. CASE C.periodic[d]
      <3>1. PICK n \in Int : w[d] = e[d] + P * n
        BY <1>4, <2>4 DEF SameIn, PeriodsApart, P
      <3>2. P * n \in Int /\ -P <= w[d] - e[d] /\ w[d] - e[d] < P
        BY <1>5, <2>1, <2>2, <2>3, <3>1
      <3>3. P * n >= -P /\ P * n < P
        <4> DEFINE whole == P * n
        <4>1. whole \in Int /\ w[d] = e[d] + whole
          BY <3>1, <3>2
        <4> HIDE DEF whole
        <4>2. whole >= -P /\ whole < P
          BY <1>5, <2>1, <3>2, <4>1
        <4> QED
          BY <4>2 DEF whole
      <3>4. ~(n >= 1)
        <4>1. n >= 1 => P * n >= P
          BY <2>1
        <4> QED
          BY <2>1, <3>2, <3>3, <4>1
      <3>5. ~(n <= -2)
        <4>1. n <= -2 => P * n <= -2 * P
          BY <2>1
        <4> QED
          BY <2>1, <3>2, <3>3, <4>1
      <3>6. n = 0 \/ n = -1
        BY <3>4, <3>5
      <3>7. w[d] = e[d] + n * P
        BY <2>1, <3>1
      <3> QED
        BY <3>6, <3>7 DEF P
    <2>5. CASE ~C.periodic[d]
      <3>1. w[d] = e[d]
        BY <1>4, <2>5 DEF SameIn
      <3>2. w[d] = e[d] + 0 * P
        BY <1>5, <2>1, <3>1
      <3> QED
        BY <3>2 DEF P
    <2> QED
      BY <2>1, <2>4, <2>5
  <1>7. 1 \in Dims /\ 2 \in Dims /\ \A d \in Dims : d = 1 \/ d = 2
    BY DEF Dims
  <1>8. PICK i \in {-1, 0}, j \in {-1, 0} :
          w[1] = e[1] + i * PeriodSize(C, 1) /\ w[2] = e[2] + j * PeriodSize(C, 2)
    BY <1>6, <1>7
  <1>9. PICK by \in PeriodShifts(C) : by[1] = i * PeriodSize(C, 1) /\ by[2] = j * PeriodSize(C, 2)
    BY ShiftBy
  <1>10. \A d \in Dims : by[d] \in Int /\ w[d] = e[d] + by[d]
    BY <1>7, <1>8, <1>9, ShiftsAre
  <1>11. \A d \in Dims : /\ L.begin[d] \in Int /\ L.end[d] \in Int /\ L.begin[d] <= w[d] /\ w[d] < L.end[d]
    BY DEF LocalIn, HasPoint
  <1>12. Reaches2(L, c, by)
    BY <1>5, <1>10, <1>11 DEF Reaches2
  <1> QED
    BY <1>12

\* The range of the corners of a cell, two points a side.
LEMMA CellRangeIs ==
    ASSUME NEW c, IsPoint(c)
    PROVE  /\ CellRange(c).begin = c /\ CellRange(c).end = [d \in Dims |-> c[d] + 2]
           /\ \A d \in Dims : c[d] \in Int /\ CellRange(c).end[d] = c[d] + 2
           /\ 1 \in Dims /\ 2 \in Dims /\ \A d \in Dims : d = 1 \/ d = 2
  BY DEF CellRange, Box, Dims, IsPoint

\* What overlaps a local range is told from how far it reaches.
LEMMA Overlapping ==
    ASSUME NEW C, CartOK(C), NEW L, LocalIn(C, L), NEW X, NEW b,
           \A d \in Dims : b[d] \in Int /\ X.begin[d] = b[d] /\ X.end[d] = b[d] + 2
    PROVE  RangesOverlap(L, X) <=> \A d \in Dims : b[d] + 2 > L.begin[d] /\ L.end[d] > b[d]
  <1>1. ~Empty(L)
    BY DEF LocalIn, Empty
  <1>2. ~Empty(X)
    BY DEF Empty
  <1> QED
    BY <1>1, <1>2 DEF RangesOverlap

\* A range moved to a point begins there.
LEMMA FromHere ==
    ASSUME NEW S, NEW b, \A d \in Dims : S.begin[d] \in Int /\ S.end[d] \in Int /\ b[d] \in Int
    PROVE  /\ From(S, b) = [begin |-> From(S, b).begin, end |-> From(S, b).end]
           /\ From(S, b).begin = [d \in Dims |-> From(S, b).begin[d]]
           /\ \A d \in Dims : /\ From(S, b).begin[d] = b[d]
                              /\ From(S, b).end[d] = S.end[d] + (b[d] - S.begin[d])
  <1> DEFINE by == [d \in Dims |-> b[d] - S.begin[d]]
  <1>1. From(S, b) = Shifted(S, by)
    BY DEF From
  <1>2. /\ Shifted(S, by).begin = [d \in Dims |-> S.begin[d] + by[d]]
        /\ Shifted(S, by).end = [d \in Dims |-> S.end[d] + by[d]]
        /\ Shifted(S, by) = [begin |-> Shifted(S, by).begin, end |-> Shifted(S, by).end]
    BY DEF Shifted, Box
  <1>3. \A d \in Dims : by[d] = b[d] - S.begin[d]
    OBVIOUS
  <1> HIDE DEF by
  <1>4. \A d \in Dims : From(S, b).begin[d] = b[d] /\ From(S, b).end[d] = S.end[d] + (b[d] - S.begin[d])
    BY <1>1, <1>2, <1>3
  <1>5. From(S, b).begin = [d \in Dims |-> From(S, b).begin[d]]
    BY <1>1, <1>2
  <1>6. From(S, b) = [begin |-> From(S, b).begin, end |-> From(S, b).end]
    BY <1>1, <1>2
  <1> QED
    BY <1>4, <1>5, <1>6

\* The images that RangeInRange tries are those that a shift brings into reach.
LEMMA MeetingIs ==
    ASSUME NEW C, CartOK(C), NEW L, LocalIn(C, L), NEW c \in Cells(C), NEW by \in PeriodShifts(C)
    PROVE  LET Own == From(L, MapToRange(C, C.range, L.begin))
               Other == From(CellRange(c), MapToRange(C, C.range, CellRange(c).begin))
           IN /\ RangesOverlap(Own, Shifted(Other, by)) <=> Reaches2(L, c, by)
              /\ \A d \in Dims : /\ Shifted(Other, by).begin[d] = c[d] + by[d]
                                 /\ Shifted(Other, by).end[d] = c[d] + by[d] + 2
              /\ Shifted(Other, by).begin = [d \in Dims |-> Shifted(Other, by).begin[d]]
  <1> DEFINE Own == From(L, MapToRange(C, C.range, L.begin))
             S == CellRange(c)
             Other == From(S, MapToRange(C, C.range, S.begin))
             X == Shifted(Other, by)
  <1>1. IsPoint(c) /\ HasPoint(C.range, c)
    BY CellsIn
  <1>2. S.begin = c /\ \A d \in Dims : c[d] \in Int /\ S.end[d] = c[d] + 2
    BY <1>1, CellRangeIs
  <1>3. /\ IsPoint(L.begin) /\ HasPoint(C.range, L.begin)
        /\ \A d \in Dims : L.begin[d] \in Int /\ L.end[d] \in Int /\ L.begin[d] < L.end[d]
    <2>1. \A d \in Dims : C.range.begin[d] \in Int /\ C.range.end[d] \in Int
      BY PeriodIs
    <2> QED
      BY <2>1 DEF LocalIn, HasPoint
  <1> HIDE DEF S
  <1>4. \A d \in Dims : MapToRange(C, C.range, L.begin)[d] = L.begin[d]
    BY <1>3, MapHere
  <1>5. \A d \in Dims : MapToRange(C, C.range, S.begin)[d] = c[d]
    BY <1>1, <1>2, MapHere
  <1>6. \A d \in Dims : Own.begin[d] = L.begin[d] /\ Own.end[d] = L.end[d]
    <2> DEFINE m == MapToRange(C, C.range, L.begin)
    <2>1. \A d \in Dims : m[d] = L.begin[d] /\ m[d] \in Int /\ L.begin[d] \in Int /\ L.end[d] \in Int
      BY <1>3, <1>4
    <2> HIDE DEF m
    <2>2. /\ From(L, m).begin = [d \in Dims |-> From(L, m).begin[d]]
          /\ \A d \in Dims : /\ From(L, m).begin[d] = m[d]
                             /\ From(L, m).end[d] = L.end[d] + (m[d] - L.begin[d])
      BY <2>1, FromHere
    <2>3. \A d \in Dims : From(L, m).begin[d] = L.begin[d] /\ From(L, m).end[d] = L.end[d]
      BY <2>1, <2>2
    <2> QED
      BY <2>3 DEF m
  <1>7. \A d \in Dims : Other.begin[d] = c[d] /\ Other.end[d] = c[d] + 2
    <2> DEFINE m == MapToRange(C, C.range, S.begin)
    <2>1. \A d \in Dims : m[d] = c[d] /\ m[d] \in Int /\ S.begin[d] = c[d] /\ S.begin[d] \in Int
                          /\ S.end[d] \in Int /\ S.end[d] = c[d] + 2
      BY <1>2, <1>5
    <2> HIDE DEF m
    <2>2. /\ From(S, m).begin = [d \in Dims |-> From(S, m).begin[d]]
          /\ \A d \in Dims : /\ From(S, m).begin[d] = m[d]
                             /\ From(S, m).end[d] = S.end[d] + (m[d] - S.begin[d])
      BY <2>1, FromHere
    <2>3. \A d \in Dims : From(S, m).begin[d] = c[d] /\ From(S, m).end[d] = c[d] + 2
      BY <2>1, <2>2
    <2> QED
      BY <2>3 DEF m
  <1> HIDE DEF Own, Other
  <1>8. \A d \in Dims : by[d] \in Int
    BY ShiftsAre
  <1>9. /\ X.begin = [d \in Dims |-> Other.begin[d] + by[d]] /\ X.end = [d \in Dims |-> Other.end[d] + by[d]]
    BY DEF Shifted, Box
  <1> HIDE DEF X
  <1>10. \A d \in Dims : X.begin[d] = c[d] + by[d] /\ X.end[d] = c[d] + by[d] + 2
    BY <1>2, <1>7, <1>8, <1>9
  <1>11. ~Empty(Own) /\ ~Empty(X)
    BY <1>2, <1>3, <1>6, <1>8, <1>10 DEF Empty
  <1>12. RangesOverlap(Own, X) <=> Reaches2(L, c, by)
    BY <1>6, <1>10, <1>11 DEF RangesOverlap, Reaches2
  <1>13. X.begin = [d \in Dims |-> X.begin[d]]
    BY <1>9
  <1> QED
    BY <1>10, <1>12, <1>13 DEF X, Own, Other, S

\* What MapToRange and RangeInRange make of a cell, at a rank of its grid: nothing, or an
\* image of it that meets the rank's range; and not nothing if a corner is there.
LEMMA ImageMet ==
    ASSUME NEW C, CartOK(C), NEW L, LocalIn(C, L), NEW c \in Cells(C)
    PROVE  LET X == RangeInRange(C, L, CellRange(c))
           IN /\ X # NoRange => ImageOf(C, X, c) /\ RangesOverlap(L, X)
              /\ (\E w \in Corners(C, c) : HasPoint(L, w)) => X # NoRange
  <1> DEFINE S == CellRange(c)
             lower == MapToRange(C, L, S.begin)
             Own == From(L, MapToRange(C, C.range, L.begin))
             Other == From(S, MapToRange(C, C.range, S.begin))
             Meeting == {by \in PeriodShifts(C) : RangesOverlap(Own, Shifted(Other, by))}
             Placed(by) ==
               /\ \A d \in Dims : /\ Shifted(Other, by).begin[d] = c[d] + by[d]
                                  /\ Shifted(Other, by).end[d] = c[d] + by[d] + 2
               /\ Shifted(Other, by).begin = [d \in Dims |-> Shifted(Other, by).begin[d]]
             last == CHOOSE by \in Meeting :
                       \A other \in Meeting : other[2] < by[2] \/ (other[2] = by[2] /\ other[1] <= by[1])
             X == RangeInRange(C, L, S)
  <1>1. IsPoint(c) /\ HasPoint(C.range, c)
    BY CellsIn
  <1>2. /\ S.begin = c /\ \A d \in Dims : c[d] \in Int /\ S.end[d] = c[d] + 2
        /\ 1 \in Dims /\ 2 \in Dims
    BY <1>1, CellRangeIs
  <1>3. X = IF RangesOverlap(L, S) THEN S
            ELSE IF lower # NoPoint THEN From(S, lower)
            ELSE IF Meeting = {} THEN NoRange ELSE Shifted(Other, last)
    BY DEF RangeInRange, PeriodShifts
  <1>4. ~ImageOf(C, NoRange, c)
    BY DEF ImageOf, NoRange, Box
  <1>5. CASE RangesOverlap(L, S)
    <2>1. X = S
      BY <1>3, <1>5
    <2>2. ImageOf(C, S, c)
      <3>1. SameIn(C, c, c)
        BY <1>1, SameTrans
      <3> QED
        BY <1>1, <1>2, <3>1 DEF ImageOf
    <2> QED
      BY <1>4, <1>5, <2>1, <2>2
  <1>6. CASE ~RangesOverlap(L, S) /\ lower # NoPoint
    <2>1. X = From(S, lower)
      BY <1>3, <1>6
    <2>2. IsPoint(lower) /\ HasPoint(L, lower) /\ SameIn(C, lower, c)
      BY <1>1, <1>2, <1>6, MapIs
    <2> HIDE DEF lower, S
    <2>3. \A d \in Dims : S.begin[d] \in Int /\ S.end[d] \in Int /\ lower[d] \in Int
                          /\ S.begin[d] = c[d] /\ S.end[d] = c[d] + 2 /\ c[d] \in Int
      BY <1>2, <2>2 DEF IsPoint, Dims
    <2>4. /\ From(S, lower).begin = [d \in Dims |-> From(S, lower).begin[d]]
          /\ \A d \in Dims : /\ From(S, lower).begin[d] = lower[d]
                             /\ From(S, lower).end[d] = S.end[d] + (lower[d] - S.begin[d])
      BY <2>3, FromHere
    <2> HIDE DEF X
    <2>5. \A d \in Dims : X.begin[d] = lower[d] /\ X.end[d] = lower[d] + 2
      BY <2>1, <2>3, <2>4
    <2>6. IsPoint(X.begin)
      BY <1>2, <2>1, <2>3, <2>4, PointIs
    <2>7. ImageOf(C, X, c)
      BY <1>2, <2>2, <2>5, <2>6 DEF ImageOf, SameIn
    <2>8. RangesOverlap(L, X)
      <3>1. \A d \in Dims : lower[d] + 2 > L.begin[d] /\ L.end[d] > lower[d]
        BY <2>2, <2>3 DEF LocalIn, HasPoint
      <3> QED
        BY <2>3, <2>5, <3>1, Overlapping
    <2> QED
      BY <1>4, <2>7, <2>8 DEF X, S
  <1> HIDE DEF lower
  <1>11. \A by \in PeriodShifts(C) :
           (RangesOverlap(Own, Shifted(Other, by)) <=> Reaches2(L, c, by)) /\ Placed(by)
    BY MeetingIs
  <1>7. \A by \in PeriodShifts(C) : by \in Meeting <=> Reaches2(L, c, by)
    BY <1>11
  <1>8. ASSUME NEW w \in Corners(C, c), HasPoint(L, w) PROVE Meeting # {}
    BY <1>7, <1>8, CornerReached
  <1>9. CASE ~RangesOverlap(L, S) /\ lower = NoPoint /\ Meeting = {}
    <2>1. X = NoRange
      BY <1>3, <1>9
    <2> HIDE DEF Meeting, X
    <2> QED
      BY <1>8, <1>9, <2>1 DEF X, S
  <1>10. CASE ~RangesOverlap(L, S) /\ lower = NoPoint /\ Meeting # {}
    <2> DEFINE b == X.begin
    <2>1. X = Shifted(Other, last)
      BY <1>3, <1>10
    <2>2. Meeting \in SUBSET PeriodShifts(C)
      OBVIOUS
    <2>3. last \in Meeting
      <3> HIDE DEF Meeting
      <3> QED
        BY <1>10, <2>2, LastShift
    <2>4. last \in PeriodShifts(C) /\ Reaches2(L, c, last)
      BY <1>7, <2>2, <2>3
    <2> HIDE DEF last, Meeting
    <2>5. /\ \A d \in Dims : /\ Shifted(Other, last).begin[d] = c[d] + last[d]
                             /\ Shifted(Other, last).end[d] = c[d] + last[d] + 2
          /\ Shifted(Other, last).begin = [d \in Dims |-> Shifted(Other, last).begin[d]]
      BY <1>11, <2>4
    <2>6. \A d \in Dims : last[d] \in Int
      BY <2>4, ShiftsAre
    <2> HIDE DEF X, Other
    <2>7. /\ \A d \in Dims : b[d] = c[d] + last[d] /\ b[d] \in Int /\ X.end[d] = b[d] + 2
          /\ b = [d \in Dims |-> b[d]]
      BY <1>2, <2>1, <2>5, <2>6
    <2>8. IsPoint(b)
      BY <1>2, <2>7, PointIs
    <2>9. SameIn(C, b, c)
      BY <2>4, <2>7, <2>8, ShiftedImage
    <2>10. ImageOf(C, X, c)
      BY <1>2, <2>7, <2>8, <2>9 DEF ImageOf
    <2>11. RangesOverlap(L, X)
      <3>1. \A d \in Dims : b[d] + 2 > L.begin[d] /\ L.end[d] > b[d]
        BY <2>4, <2>7 DEF Reaches2
      <3>2. \A d \in Dims : b[d] \in Int /\ X.begin[d] = b[d] /\ X.end[d] = b[d] + 2
        BY <2>7
      <3> HIDE DEF b
      <3> QED
        BY <3>1, <3>2, Overlapping
    <2> QED
      BY <1>4, <2>10, <2>11 DEF X, S
  <1> QED
    BY <1>5, <1>6, <1>9, <1>10

\* The points of a range.
LEMMA PointsOf ==
    ASSUME NEW L, \A d \in Dims : L.begin[d] \in Int /\ L.end[d] \in Int, NEW p
    PROVE  p \in Points(L) <=> IsPoint(p) /\ HasPoint(L, p)
  <1>1. 1 \in Dims /\ 2 \in Dims /\ \A d \in Dims : d = 1 \/ d = 2
    BY DEF Dims
  <1> QED
    BY <1>1 DEF Points, HasPoint, IsPoint

\* Ranges that overlap have a point in common.
LEMMA CommonPoint ==
    ASSUME NEW L, \A d \in Dims : L.begin[d] \in Int /\ L.end[d] \in Int,
           NEW X, \A d \in Dims : X.begin[d] \in Int /\ X.end[d] \in Int, RangesOverlap(L, X)
    PROVE  \E q : IsPoint(q) /\ q \in Points(L) /\ q \in Points(X)
  <1> DEFINE q == [d \in Dims |-> IF X.begin[d] >= L.begin[d] THEN X.begin[d] ELSE L.begin[d]]
  <1>1. \A d \in Dims : /\ L.begin[d] < L.end[d] /\ X.begin[d] < X.end[d]
                        /\ X.end[d] > L.begin[d] /\ L.end[d] > X.begin[d]
    BY DEF RangesOverlap, Empty
  <1>2. \A d \in Dims : q[d] = IF X.begin[d] >= L.begin[d] THEN X.begin[d] ELSE L.begin[d]
    OBVIOUS
  <1>3. q = [d \in Dims |-> q[d]]
    OBVIOUS
  <1> HIDE DEF q
  <1>4. HasPoint(L, q) /\ HasPoint(X, q) /\ \A d \in Dims : q[d] \in Int
    BY <1>1, <1>2 DEF HasPoint
  <1>5. IsPoint(q)
    BY <1>3, <1>4, PointIs DEF Dims
  <1> QED
    BY <1>4, <1>5, PointsOf

\* Each cell has an owner, the rank of the point where it begins.
LEMMA OwnerIs ==
    ASSUME NEW C, CartOK(C), NEW Local, LocalOK(C, Local), NEW c \in Cells(C)
    PROVE  /\ \E s \in DOMAIN Local : HasPoint(RangePointToCell(C, Local[s]), c)
           /\ \A s \in DOMAIN Local : HasPoint(RangePointToCell(C, Local[s]), c) => HasPoint(Local[s], c)
  <1>1. /\ c \in Points(C.range) /\ \A d \in Dims : c[d] \in Int
        /\ \A d \in Dims : ~C.periodic[d] => c[d] + 1 < C.range.end[d]
    BY CellsIn DEF IsPoint, Dims
  <1>2. C.storage = "UNIQUE" /\ \A d \in Dims : C.range.end[d] \in Int
    BY PeriodIs DEF CartOK
  <1>3. ASSUME NEW s \in DOMAIN Local
        PROVE  /\ \A d \in Dims : Local[s].begin[d] \in Int /\ Local[s].end[d] \in Int
               /\ RangePointToCell(C, Local[s]).begin = Local[s].begin
               /\ \A d \in Dims :
                    RangePointToCell(C, Local[s]).end[d] =
                      IF Local[s].end[d] # C.range.end[d] \/ C.periodic[d]
                      THEN Local[s].end[d] ELSE Local[s].end[d] - 1
    <2>1. LocalIn(C, Local[s])
      BY LocalIs
    <2> QED
      BY <1>2, <2>1 DEF LocalIn, RangePointToCell, Box
  <1>4. PICK s \in DOMAIN Local : HasPoint(Local[s], c)
    BY <1>1 DEF LocalOK
  <1>5. HasPoint(RangePointToCell(C, Local[s]), c)
    <2>1. \A d \in Dims : Local[s].begin[d] <= c[d] /\ c[d] < Local[s].end[d]
      BY <1>4 DEF HasPoint
    <2> DEFINE R == RangePointToCell(C, Local[s])
    <2>2. \A d \in Dims : R.begin[d] = Local[s].begin[d]
      BY <1>3
    <2>3. \A d \in Dims : R.end[d] = IF Local[s].end[d] # C.range.end[d] \/ C.periodic[d]
                                     THEN Local[s].end[d] ELSE Local[s].end[d] - 1
      BY <1>3
    <2> HIDE DEF R
    <2>4. \A d \in Dims : R.begin[d] <= c[d] /\ c[d] < R.end[d]
      BY <1>1, <1>2, <1>3, <2>1, <2>2, <2>3
    <2> QED
      BY <2>4 DEF HasPoint, R
  <1>6. ASSUME NEW t \in DOMAIN Local, HasPoint(RangePointToCell(C, Local[t]), c)
        PROVE  HasPoint(Local[t], c)
    <2> DEFINE R == RangePointToCell(C, Local[t])
    <2>1. \A d \in Dims : R.begin[d] <= c[d] /\ c[d] < R.end[d]
      BY <1>6 DEF HasPoint
    <2>2. \A d \in Dims : R.begin[d] = Local[t].begin[d]
      BY <1>3
    <2>3. \A d \in Dims : R.end[d] = IF Local[t].end[d] # C.range.end[d] \/ C.periodic[d]
                                     THEN Local[t].end[d] ELSE Local[t].end[d] - 1
      BY <1>3
    <2> HIDE DEF R
    <2>4. \A d \in Dims : Local[t].begin[d] <= c[d] /\ c[d] < Local[t].end[d]
      BY <1>1, <1>3, <2>1, <2>2, <2>3
    <2> QED
      BY <2>4 DEF HasPoint
  <1> QED
    BY <1>4, <1>5, <1>6

\* The owner of a cell is next to the other ranks that have a corner of it.
LEMMA NeighborHas ==
    ASSUME NEW C, CartOK(C), NEW Local, LocalOK(C, Local), NEW c \in Cells(C),
           NEW o \in DOMAIN Local, HasPoint(Local[o], c),
           NEW r \in DOMAIN Local \ {o}, NEW w \in Corners(C, c), HasPoint(Local[r], w)
    PROVE  r \in DetectNeighbors(C, Local, o)
  <1>1. IsPoint(c) /\ c[1] \in Int /\ c[2] \in Int
        /\ \A d \in Dims : ~C.periodic[d] => c[d] + 1 < C.range.end[d]
    BY CellsIn DEF IsPoint
  <1>2. PICK x \in {c[1], c[1] + 1}, y \in {c[2], c[2] + 1} : w = Wrapped(C, <<x, y>>)
    BY DEF Corners
  <1> DEFINE e == <<x, y>>
             L == Local[o]
             E == ExtendLocalRange(C, L, 1)
  <1>3. IsPoint(e) /\ e[1] = x /\ e[2] = y
    BY <1>1 DEF IsPoint
  <1>4. w = Wrapped(C, e) /\ w = PeriodicAdjust(C, e) /\ IsPoint(w)
    BY <1>2, <1>3, WrappedIs
  <1> HIDE DEF e
  <1>5. 1 \in Dims /\ 2 \in Dims /\ \A d \in Dims : d = 1 \/ d = 2
    BY DEF Dims
  <1>6. \A d \in Dims : c[d] \in Int /\ e[d] \in Int /\ (e[d] = c[d] \/ e[d] = c[d] + 1)
    BY <1>1, <1>3, <1>5
  <1>7. /\ LocalIn(C, L) /\ LocalIn(C, Local[r])
        /\ \A d \in Dims : C.range.begin[d] \in Int /\ C.range.end[d] \in Int
    BY LocalIs, PeriodIs
  <1>8. \A d \in Dims : /\ L.begin[d] \in Int /\ L.end[d] \in Int
                        /\ Local[r].begin[d] \in Int /\ Local[r].end[d] \in Int
                        /\ C.range.begin[d] <= L.begin[d] /\ L.end[d] <= C.range.end[d]
                        /\ L.begin[d] <= c[d] /\ c[d] < L.end[d]
    BY <1>7 DEF LocalIn, HasPoint
  <1>9. e \in Points(E)
    <2>1. \A d \in Dims :
            /\ E.begin[d] = IF L.begin[d] # C.range.begin[d] \/ C.periodic[d] THEN L.begin[d] - 1 ELSE L.begin[d]
            /\ E.end[d] = IF L.end[d] # C.range.end[d] \/ C.periodic[d] THEN L.end[d] + 1 ELSE L.end[d]
      BY DEF ExtendLocalRange, Box
    <2> HIDE DEF E, L
    <2>2. \A d \in Dims : E.begin[d] \in Int /\ E.end[d] \in Int
      BY <1>8, <2>1
    <2>3. ASSUME NEW d \in Dims PROVE E.begin[d] <= e[d] /\ e[d] < E.end[d]
      <3>1. E.begin[d] <= e[d]
        BY <1>6, <1>8, <2>1
      <3>2. e[d] < E.end[d]
        BY <1>1, <1>6, <1>7, <1>8, <2>1
      <3> QED
        BY <3>1, <3>2
    <2> QED
      BY <1>3, <2>2, <2>3, PointsOf DEF HasPoint
  <1>10. e \notin Points(L)
    <2> SUFFICES ASSUME e \in Points(L) PROVE FALSE
      OBVIOUS
    <2>1. HasPoint(L, e)
      BY <1>8, PointsOf
    <2>2. HasPoint(C.range, e)
      BY <1>6, <1>7, <1>8, <2>1 DEF HasPoint
    <2>3. w = e
      BY <1>4, <2>2 DEF Wrapped
    <2>4. ~RangesOverlap(L, Local[r])
      BY DEF LocalOK
    <2>5. ~Empty(L) /\ ~Empty(Local[r])
      BY DEF LocalOK
    <2>6. \A d \in Dims : Local[r].end[d] > L.begin[d] /\ L.end[d] > Local[r].begin[d]
      BY <1>6, <1>8, <2>1, <2>3 DEF HasPoint
    <2> QED
      BY <2>4, <2>5, <2>6 DEF RangesOverlap
  <1> QED
    BY <1>4, <1>9, <1>10 DEF DetectNeighbors

\* What a rank knows of a cell: one image, that meets its range, if a corner is there.
LEMMA KnownIs ==
    ASSUME NEW C, CartOK(C), NEW Local, LocalOK(C, Local), NEW r \in DOMAIN Local, NEW c \in Cells(C)
    PROVE  LET Known == KnownRanges(C, Local, r, CellRange(c))
           IN /\ \A X \in Known : ImageOf(C, X, c) /\ Points(X) \cap Points(Local[r]) # {}
              /\ Corners(C, c) \cap Points(Local[r]) = {} => Known = {}
              /\ Corners(C, c) \cap Points(Local[r]) # {} => \E X : Known = {X}
  <1> DEFINE S == CellRange(c)
             L == Local[r]
             Known == KnownRanges(C, Local, r, S)
             owner == CHOOSE s \in DOMAIN Local : HasPoint(RangePointToCell(C, Local[s]), S.begin)
             X0 == RangeInRange(C, L, S)
  <1>1. IsPoint(c) /\ \A d \in Dims : c[d] \in Int
    BY CellsIn DEF IsPoint, Dims
  <1>2. S.begin = c /\ 1 \in Dims /\ 2 \in Dims /\ \A d \in Dims : S.end[d] = c[d] + 2
    BY <1>1, CellRangeIs
  <1>3. Known = IF r = owner THEN {S}
                ELSE IF r \in DetectNeighbors(C, Local, owner) THEN {X0} \ {NoRange} ELSE {}
    BY DEF KnownRanges
  <1>4. owner \in DOMAIN Local /\ HasPoint(Local[owner], c)
    BY <1>2, OwnerIs
  <1>5. LocalIn(C, L) /\ \A d \in Dims : L.begin[d] \in Int /\ L.end[d] \in Int
    BY LocalIs DEF LocalIn
  <1>6. /\ X0 # NoRange => ImageOf(C, X0, c) /\ RangesOverlap(L, X0)
        /\ (\E w \in Corners(C, c) : HasPoint(L, w)) => X0 # NoRange
    BY <1>5, ImageMet
  <1>7. ImageOf(C, S, c)
    <2>1. SameIn(C, c, c)
      BY <1>1, SameTrans
    <2> QED
      BY <1>1, <1>2, <2>1 DEF ImageOf
  <1>8. ASSUME r = owner PROVE c \in Points(S) /\ c \in Points(L)
    <2>1. HasPoint(S, c)
      BY <1>1, <1>2 DEF HasPoint
    <2>2. c \in Points(L)
      BY <1>1, <1>4, <1>5, <1>8, PointsOf
    <2>3. \A d \in Dims : S.begin[d] \in Int /\ S.end[d] \in Int
      BY <1>1, <1>2
    <2> QED
      BY <1>1, <2>1, <2>2, <2>3, PointsOf
  <1> HIDE DEF owner, X0, Known, S
  <1>9. ASSUME NEW X \in Known PROVE ImageOf(C, X, c) /\ Points(X) \cap Points(L) # {}
    <2>1. CASE r = owner
      BY <1>3, <1>7, <1>8, <1>9, <2>1
    <2>2. CASE r # owner
      <3>1. X = X0 /\ X0 # NoRange
        BY <1>3, <1>9, <2>2
      <3>2. ImageOf(C, X, c) /\ RangesOverlap(L, X)
        BY <1>6, <3>1
      <3>3. \A d \in Dims : X.begin[d] \in Int /\ X.end[d] \in Int
        BY <3>2 DEF ImageOf, IsPoint, Dims
      <3> QED
        BY <1>5, <3>2, <3>3, CommonPoint
    <2> QED
      BY <2>1, <2>2
  <1>10. ASSUME NEW X \in Known PROVE Corners(C, c) \cap Points(L) # {}
    <2>1. PICK q \in Points(X) : q \in Points(L)
      BY <1>9
    <2>2. ImageOf(C, X, c)
      BY <1>9
    <2>3. q \in Points(C.range)
      <3>1. IsPoint(q) /\ HasPoint(L, q)
        BY <1>5, <2>1, PointsOf
      <3>2. \A d \in Dims : C.range.begin[d] \in Int /\ C.range.end[d] \in Int /\ q[d] \in Int
        BY <3>1, PeriodIs DEF IsPoint, Dims
      <3>3. HasPoint(C.range, q)
        BY <1>5, <3>1, <3>2 DEF HasPoint, LocalIn
      <3> QED
        BY <3>1, <3>3, PointsIn
    <2>4. Wrapped(C, q) = q
      BY <2>3, AdjustInRange
    <2>5. q \in Corners(C, c)
      <3>1. {Wrapped(C, a) : a \in Points(X)} = Corners(C, c)
        BY <1>1, <2>2, ImageCorners
      <3> QED
        BY <2>1, <2>4, <3>1
    <2> QED
      BY <2>1, <2>5
  <1>11. ASSUME NEW w \in Corners(C, c) \cap Points(L) PROVE \E X : Known = {X}
    <2>1. HasPoint(L, w)
      BY <1>5, PointsOf
    <2>2. CASE r = owner
      BY <1>3, <2>2
    <2>3. CASE r # owner
      <3>1. r \in DetectNeighbors(C, Local, owner)
        BY <1>4, <2>1, <2>3, NeighborHas
      <3>2. X0 # NoRange
        BY <1>6, <2>1
      <3>3. Known = {X0}
        BY <1>3, <2>3, <3>1, <3>2
      <3> QED
        BY <3>3
    <2> QED
      BY <2>2, <2>3
  <1> QED
    BY <1>9, <1>10, <1>11 DEF Known, S
-----------------------------------------------------------------------------
\* The inductive invariant of the stages of an assembly.

AllFlags == UserFlags \cup AllAssemblyFlags
IsFlags(f) == f = [x \in AllFlags |-> f[x]]
AllStages ==
    {"InitializeAssembly", "DetectOverlap", "InferBoundaries", "CutBoundaryHoles", "LocateOuterFringe",
     "DetectOccluded", "MinimizeOverlap", "GenerateConnectivityData", "done", "stray"}
StagesTypeOK ==
    /\ here \in Cases /\ turn \in 1 .. Len(here.options)
    /\ stage \in AllStages
    /\ fringe = [outer |-> fringe.outer, inner |-> fringe.inner]

\* What the user gave can be told from what assemblies made of it.
FlagsKept ==
    \A g \in Grids :
      /\ IsFlags(flags[g])
      /\ flags[g]["ACTIVE"] \cup flags[g]["BOUNDARY_HOLE"] \cup flags[g]["OVERLAP_MINIMIZED"]
           = here.flags[g]["ACTIVE"]
      /\ flags[g]["DOMAIN_BOUNDARY"] \ flags[g]["INFERRED_DOMAIN_BOUNDARY"]
           = here.flags[g]["DOMAIN_BOUNDARY"]
      /\ flags[g]["INTERNAL_BOUNDARY"] = here.flags[g]["INTERNAL_BOUNDARY"]

\* Flags that are still to be found.
Pending(f, stages) == stage \in stages => \A g \in Grids : flags[g][f] = {}
BeforeOccluded == {"DetectOverlap", "InferBoundaries", "CutBoundaryHoles", "LocateOuterFringe", "DetectOccluded"}
BeforeMinimized == BeforeOccluded \cup {"MinimizeOverlap"}
BeforeReceivers == BeforeMinimized \cup {"GenerateConnectivityData"}
FlagsPending ==
    /\ StartsFromUserFlags
    /\ Pending("INFERRED_DOMAIN_BOUNDARY", {"DetectOverlap", "InferBoundaries"})
    /\ Pending("OCCLUDED", BeforeOccluded)
    /\ Pending("OVERLAP_MINIMIZED", BeforeMinimized) /\ Pending("INNER_FRINGE", BeforeMinimized)
    /\ Pending("RECEIVER", BeforeReceivers) /\ Pending("ORPHAN", BeforeReceivers)

MasksOfFlags ==
    stage # "InitializeAssembly" => \A g \in Grids : aux[g] = Activity(Cart(g), flags[g])

OverlapsFound ==
    stage \in AllStages \ {"InitializeAssembly", "DetectOverlap", "stray"} =>
      /\ Overlaps \subseteq Pairs
      /\ \A id \in Overlaps :
           /\ DOMAIN overlap[id] \subseteq here.flags[id[2]]["ACTIVE"]
           /\ overlapMask[id] \subseteq DOMAIN overlap[id]

FringeFound ==
    stage \in {"DetectOccluded", "MinimizeOverlap"} =>
      \A g \in Grids : fringe.outer[g] = OuterFringe(g)

OccludedBy(g) == UNION {pairwise[id] : id \in {i \in Occluders : i[2] = g}}
OcclusionFound ==
    stage \in {"MinimizeOverlap", "GenerateConnectivityData", "done"} =>
      /\ \A id \in Occluders : pairwise[id] \subseteq DOMAIN overlap[id]
      /\ \A g \in Grids : occlusion[g] = OccludedBy(g) /\ flags[g]["OCCLUDED"] = occlusion[g]

\* Stencils, when it is known which points are received.
StencilsOf(g) ==
    LET C == Cart(g)
        size == Option.fringeSize[g]
        Active == flags[g]["ACTIVE"]
        Boundary == flags[g]["DOMAIN_BOUNDARY"] \cup flags[g]["INTERNAL_BOUNDARY"]
    IN \A p \in Active \ ReceiverMask(g) :
         \A q \in {Wrapped(C, <<x, y>>) : x \in p[1] - size .. p[1] + size,
                                           y \in p[2] - size .. p[2] + size} \ Active :
           /\ q \notin flags[g]["OVERLAP_MINIMIZED"]
           /\ \A a \in Active \ Boundary : q \notin {Wrapped(C, b) : b \in Neighbors(a)}

DonorsActive ==
    \A id \in Overlaps : \A p \in overlapMask[id] :
      Corners(Cart(id[1]), overlap[id][p]) \subseteq flags[id[1]]["ACTIVE"]

OverlapMinimized ==
    stage \in {"GenerateConnectivityData", "done"} =>
      /\ DonorsActive
      /\ \A g \in Grids :
           /\ flags[g]["INNER_FRINGE"] \subseteq flags[g]["OCCLUDED"]
           /\ ReceiverMask(g) \subseteq flags[g]["ACTIVE"]
           /\ StencilsOf(g)

ReceiversFound ==
    stage = "done" =>
      /\ \A g \in Grids : flags[g]["RECEIVER"] = ReceiverMask(g)
      /\ StencilsComplete /\ ReceiversServed

AssemblyInv ==
    /\ StagesTypeOK /\ FlagsKept /\ FlagsPending /\ MasksOfFlags /\ OverlapsFound /\ FringeFound
    /\ OcclusionFound /\ OverlapMinimized /\ ReceiversFound
-----------------------------------------------------------------------------
\* What each stage does to it (core/AssemblerAssembly.cpp).

\* What setting and clearing flags leaves.
LEMMA SetFlagsIs ==
    ASSUME NEW f, IsFlags(f), NEW N, NEW S
    PROVE  /\ IsFlags(SetFlags(f, N, S))
           /\ \A x \in AllFlags : /\ x \in N => SetFlags(f, N, S)[x] = f[x] \cup S
                                 /\ x \notin N => SetFlags(f, N, S)[x] = f[x]
           /\ IsFlags(ResetFlags(f, N, S))
           /\ \A x \in AllFlags : /\ x \in N => ResetFlags(f, N, S)[x] = f[x] \ S
                                 /\ x \notin N => ResetFlags(f, N, S)[x] = f[x]
  <1>1. DOMAIN f = AllFlags
    BY DEF IsFlags
  <1> QED
    BY <1>1 DEF SetFlags, ResetFlags, IsFlags

\* The flags of the user, and none of an assembly.
LEMMA StartedIs ==
    ASSUME NEW f
    PROVE  /\ IsFlags(Started(f))
           /\ \A x \in UserFlags : Started(f)[x] = f[x]
           /\ \A x \in AllAssemblyFlags : Started(f)[x] = {}
           /\ \A h : (\A x \in UserFlags : h[x] = f[x]) => Started(h) = Started(f)
  <1>1. UserFlags \cap AllAssemblyFlags = {}
    BY DEF UserFlags, AllAssemblyFlags
  <1>2. \A h : (\A x \in UserFlags : h[x] = f[x]) => Started(h) = Started(f)
    BY DEF Started
  <1> QED
    BY <1>1, <1>2 DEF Started, AllFlags, IsFlags

\* The flags by name.
LEMMA FlagNames ==
    /\ UserFlags \subseteq AllFlags /\ AllAssemblyFlags \subseteq AllFlags
    /\ UserFlags = {"ACTIVE", "DOMAIN_BOUNDARY", "INTERNAL_BOUNDARY"}
    /\ "ACTIVE" \in AllFlags /\ "DOMAIN_BOUNDARY" \in AllFlags /\ "INTERNAL_BOUNDARY" \in AllFlags
    /\ "INFERRED_DOMAIN_BOUNDARY" \in AllAssemblyFlags /\ "BOUNDARY_HOLE" \in AllAssemblyFlags
    /\ "OVERLAP_MINIMIZED" \in AllAssemblyFlags /\ "OCCLUDED" \in AllAssemblyFlags
    /\ "INNER_FRINGE" \in AllAssemblyFlags
    /\ "RECEIVER" \in AllAssemblyFlags /\ "ORPHAN" \in AllAssemblyFlags
  BY DEF AllFlags, UserFlags, AllAssemblyFlags

\* Masks are made of these flags alone.
LEMMA ActivityIs ==
    ASSUME NEW C, NEW f
    PROVE  /\ Activity(C, f).active = f["ACTIVE"]
           /\ Activity(C, f).domainBoundary = f["ACTIVE"] \cap f["DOMAIN_BOUNDARY"]
           /\ Activity(C, f).internalBoundary = f["ACTIVE"] \cap f["INTERNAL_BOUNDARY"]
           /\ \A h : /\ h["ACTIVE"] = f["ACTIVE"] /\ h["INTERNAL_BOUNDARY"] = f["INTERNAL_BOUNDARY"]
                     /\ h["ACTIVE"] \cap h["DOMAIN_BOUNDARY"] = f["ACTIVE"] \cap f["DOMAIN_BOUNDARY"]
                     => Activity(C, h) = Activity(C, f)
  BY DEF Activity

\* What is assumed of the cases, of the one that runs.
LEMMA CaseFacts ==
    ASSUME here \in Cases
    PROVE  /\ \E n \in Nat : Grids = 1 .. n /\ Cardinality(Grids) = n
           /\ Len(here.options) \in Nat /\ Len(here.options) > 0
           /\ \A g \in Grids :
                /\ CartOK(Cart(g))
                /\ \A f \in UserFlags : here.flags[g][f] \subseteq All(g)
                /\ turn \in 1 .. Len(here.options) =>
                     /\ Option.fringeSize[g] \in Nat
                     /\ \A h \in Grids \ {g} : Option.occludes[<<g, h>>] \in {"NONE", "ALL", "COARSE"}
  <1> DEFINE c == here
  <1>1. /\ IsFiniteSet(DOMAIN c.grids) /\ DOMAIN c.grids = 1 .. Cardinality(DOMAIN c.grids)
        /\ c.options \in Seq({c.options[t] : t \in DOMAIN c.options}) /\ Len(c.options) > 0
        /\ \A g \in DOMAIN c.grids :
             /\ CartOK(c.grids[g].cart)
             /\ \A f \in {"ACTIVE", "DOMAIN_BOUNDARY", "INTERNAL_BOUNDARY"} :
                  c.flags[g][f] \subseteq Points(c.grids[g].cart.range)
             /\ \A t \in DOMAIN c.options :
                  /\ c.options[t].fringeSize[g] \in Nat
                  /\ \A h \in DOMAIN c.grids \ {g} :
                       c.options[t].occludes[<<g, h>>] \in {"NONE", "ALL", "COARSE"}
    BY CasesAssumption
  <1>2. Cardinality(Grids) \in Nat /\ Grids = 1 .. Cardinality(Grids)
    BY <1>1, FS_CardinalityType DEF Grids
  <1>3. Len(c.options) \in Nat /\ DOMAIN c.options = 1 .. Len(c.options)
    BY <1>1
  <1> QED
    BY <1>1, <1>2, <1>3, FlagNames DEF Grids, Cart, All, Option

\* The invariant holds before the first assembly.
LEMMA StagesStart ==
    ASSUME StagesInit PROVE AssemblyInv
  <1>1. StagesTypeOK
    BY CaseFacts DEF StagesInit, StagesTypeOK, AllStages
  <1>2. FlagsKept
    <2>1. ASSUME NEW g \in Grids
          PROVE  /\ flags[g] = Started(here.flags[g])
                 /\ {"ACTIVE", "DOMAIN_BOUNDARY", "INTERNAL_BOUNDARY"} \subseteq UserFlags
      BY FlagNames DEF StagesInit
    <2> QED
      BY <2>1, StartedIs, FlagNames DEF FlagsKept
  <1>3. stage = "InitializeAssembly"
    BY DEF StagesInit
  <1> QED
    BY <1>1, <1>2, <1>3 DEF AssemblyInv, FlagsPending, StartsFromUserFlags, Pending, BeforeOccluded,
       BeforeMinimized, BeforeReceivers, MasksOfFlags, OverlapsFound, FringeFound, OcclusionFound,
       OverlapMinimized, ReceiversFound

\* What an assembly removed is active again, and what it inferred is gone: the flags
\* are the user's.
LEMMA InitializeKeeps ==
    ASSUME AssemblyInv, InitializeAssembly PROVE AssemblyInv'
  <1>1. /\ stage = "InitializeAssembly" /\ stage' = "DetectOverlap"
        /\ here' = here /\ turn' = turn /\ fringe' = fringe
        /\ Grids' = Grids /\ \A g : Cart(g)' = Cart(g)
    BY DEF InitializeAssembly, geometry, Grids, Cart
  <1>2. StagesTypeOK'
    BY <1>1 DEF AssemblyInv, StagesTypeOK, AllStages
  <1>3. ASSUME NEW g \in Grids
        PROVE  flags'[g] = Started(here.flags[g]) /\ aux'[g] = Activity(Cart(g), flags'[g])
    <2> DEFINE f == flags[g]
               Back == SetFlags(f, {"ACTIVE"}, f["BOUNDARY_HOLE"] \union f["OVERLAP_MINIMIZED"])
               X == ResetFlags(Back, {"DOMAIN_BOUNDARY"}, f["INFERRED_DOMAIN_BOUNDARY"])
    <2>1. flags'[g] = Started(X) /\ aux'[g] = Activity(Cart(g), flags'[g])
      BY DEF InitializeAssembly
    <2>2. IsFlags(f)
      BY DEF AssemblyInv, FlagsKept
    <2>3. /\ f["ACTIVE"] \cup f["BOUNDARY_HOLE"] \cup f["OVERLAP_MINIMIZED"] = here.flags[g]["ACTIVE"]
          /\ f["DOMAIN_BOUNDARY"] \ f["INFERRED_DOMAIN_BOUNDARY"] = here.flags[g]["DOMAIN_BOUNDARY"]
          /\ f["INTERNAL_BOUNDARY"] = here.flags[g]["INTERNAL_BOUNDARY"]
      BY DEF AssemblyInv, FlagsKept
    <2> HIDE DEF f
    <2>4. IsFlags(Back)
          /\ Back["ACTIVE"] = f["ACTIVE"] \cup (f["BOUNDARY_HOLE"] \union f["OVERLAP_MINIMIZED"])
          /\ Back["DOMAIN_BOUNDARY"] = f["DOMAIN_BOUNDARY"] /\ Back["INTERNAL_BOUNDARY"] = f["INTERNAL_BOUNDARY"]
      BY <2>2, SetFlagsIs, FlagNames DEF SetFlags, IsFlags
    <2> HIDE DEF Back
    <2>5. /\ X["ACTIVE"] = Back["ACTIVE"] /\ X["INTERNAL_BOUNDARY"] = Back["INTERNAL_BOUNDARY"]
          /\ X["DOMAIN_BOUNDARY"] = Back["DOMAIN_BOUNDARY"] \ f["INFERRED_DOMAIN_BOUNDARY"]
      BY <2>4, FlagNames DEF ResetFlags, IsFlags
    <2> HIDE DEF X
    <2>6. \A x \in UserFlags : X[x] = here.flags[g][x]
      BY <2>3, <2>4, <2>5, FlagNames
    <2> QED
      BY <2>1, <2>6, StartedIs
  <1>4. FlagsKept'
    BY <1>1, <1>3, StartedIs, FlagNames DEF FlagsKept
  <1>5. FlagsPending'
    BY <1>1, <1>3, StartedIs, FlagNames DEF FlagsPending, StartsFromUserFlags, Pending
  <1>6. MasksOfFlags'
    BY <1>1, <1>3 DEF MasksOfFlags
  <1> QED
    BY <1>1, <1>2, <1>4, <1>5, <1>6 DEF AssemblyInv, OverlapsFound, FringeFound, OcclusionFound,
       OverlapMinimized, ReceiversFound

\* Active points are overlapped.
LEMMA DetectOverlapKeeps ==
    ASSUME AssemblyInv, DetectOverlap PROVE AssemblyInv'
  <1>1. /\ stage = "DetectOverlap" /\ stage' = "InferBoundaries"
        /\ here' = here /\ turn' = turn /\ fringe' = fringe /\ aux' = aux
        /\ Grids' = Grids /\ \A g : Cart(g)' = Cart(g)
    BY DEF DetectOverlap, geometry, Grids, Cart
  <1>2. StagesTypeOK'
    BY <1>1 DEF AssemblyInv, StagesTypeOK, AllStages
  <1>3. ASSUME NEW g \in Grids
        PROVE  /\ flags[g] = Started(here.flags[g])
               /\ IsFlags(flags'[g])
               /\ \A x \in AllFlags : x # "OVERLAPPED" => flags'[g][x] = flags[g][x]
    <2>1. flags[g] = Started(here.flags[g])
      BY <1>1 DEF AssemblyInv, FlagsPending, StartsFromUserFlags
    <2>2. \E S : flags'[g] = SetFlags(flags[g], {"OVERLAPPED"}, S)
      BY DEF DetectOverlap
    <2>3. IsFlags(flags[g])
      BY DEF AssemblyInv, FlagsKept
    <2> QED
      BY <2>1, <2>2, <2>3, SetFlagsIs
  <1>4. FlagsKept'
    <2>1. ASSUME NEW g \in Grids
          PROVE  /\ flags[g]["ACTIVE"] \cup flags[g]["BOUNDARY_HOLE"] \cup flags[g]["OVERLAP_MINIMIZED"]
                      = here.flags[g]["ACTIVE"]
                 /\ flags[g]["DOMAIN_BOUNDARY"] \ flags[g]["INFERRED_DOMAIN_BOUNDARY"]
                      = here.flags[g]["DOMAIN_BOUNDARY"]
                 /\ flags[g]["INTERNAL_BOUNDARY"] = here.flags[g]["INTERNAL_BOUNDARY"]
                 /\ \A x \in {"ACTIVE", "BOUNDARY_HOLE", "OVERLAP_MINIMIZED", "DOMAIN_BOUNDARY",
                              "INFERRED_DOMAIN_BOUNDARY", "INTERNAL_BOUNDARY"} : flags'[g][x] = flags[g][x]
      BY <1>3, FlagNames DEF AssemblyInv, FlagsKept
    <2> QED
      BY <1>1, <1>3, <2>1 DEF FlagsKept
  <1>5. FlagsPending'
    BY <1>1, <1>3, StartedIs, FlagNames DEF FlagsPending, StartsFromUserFlags, Pending
  <1>6. ASSUME NEW g \in Grids PROVE aux'[g] = Activity(Cart(g), flags'[g])
    <2>1. aux[g] = Activity(Cart(g), flags[g])
      BY <1>1 DEF AssemblyInv, MasksOfFlags
    <2>2. /\ flags'[g]["ACTIVE"] = flags[g]["ACTIVE"] /\ flags'[g]["DOMAIN_BOUNDARY"] = flags[g]["DOMAIN_BOUNDARY"]
          /\ flags'[g]["INTERNAL_BOUNDARY"] = flags[g]["INTERNAL_BOUNDARY"]
      BY <1>3, FlagNames
    <2> QED
      BY <1>1, <2>1, <2>2, ActivityIs
  <1>7. MasksOfFlags'
    BY <1>1, <1>6 DEF MasksOfFlags
  <1>8. OverlapsFound'
    <2> DEFINE Exists == {id \in Pairs : Option.overlappable[id] /\ DOMAIN FoundOverlap(id[1], id[2]) # {}}
    <2>1. /\ overlap' = [id \in Exists |-> FoundOverlap(id[1], id[2])]
          /\ overlapMask' = [id \in Exists |-> DOMAIN overlap'[id]]
      BY DEF DetectOverlap
    <2>2. Exists \subseteq Pairs /\ Pairs' = Pairs /\ \A id \in Pairs : id[2] \in Grids
      BY <1>1 DEF Pairs
    <2> HIDE DEF Exists
    <2>3. ASSUME NEW id \in Exists
          PROVE  DOMAIN overlap'[id] \subseteq here.flags[id[2]]["ACTIVE"]
      <3>1. DOMAIN overlap'[id] \subseteq aux[id[2]].active
        BY <2>1 DEF FoundOverlap
      <3>2. aux[id[2]].active = here.flags[id[2]]["ACTIVE"]
        <4>1. id[2] \in Grids
          BY <2>2
        <4>2. aux[id[2]].active = flags[id[2]]["ACTIVE"]
          BY <1>1, <4>1, ActivityIs DEF AssemblyInv, MasksOfFlags
        <4> QED
          BY <1>3, <4>1, <4>2, StartedIs, FlagNames
      <3> QED
        BY <3>1, <3>2
    <2> QED
      BY <1>1, <2>1, <2>2, <2>3 DEF OverlapsFound, Overlaps
  <1> QED
    BY <1>1, <1>2, <1>4, <1>5, <1>7, <1>8 DEF AssemblyInv, FringeFound, OcclusionFound,
       OverlapMinimized, ReceiversFound

\* A step that leaves the flags of which masks are made.
MaskFlags ==
    {"ACTIVE", "BOUNDARY_HOLE", "OVERLAP_MINIMIZED", "DOMAIN_BOUNDARY", "INFERRED_DOMAIN_BOUNDARY",
     "INTERNAL_BOUNDARY"}

\* The user's flags can still be told when no step touches these flags.
LEMMA FlagsStill ==
    ASSUME FlagsKept, here' = here,
           \A g \in Grids : /\ IsFlags(flags'[g])
                            /\ \A x \in MaskFlags : flags'[g][x] = flags[g][x]
    PROVE  FlagsKept'
  <1>1. Grids' = Grids
    BY DEF Grids
  <1> QED
    BY <1>1 DEF FlagsKept, MaskFlags

\* Masks are of the flags when neither changes.
LEMMA MasksStill ==
    ASSUME MasksOfFlags, stage # "InitializeAssembly", here' = here,
           \A g \in Grids : /\ \A x \in MaskFlags : flags'[g][x] = flags[g][x]
                            /\ aux'[g] = aux[g]
    PROVE  MasksOfFlags'
  <1>1. Grids' = Grids /\ \A g : Cart(g)' = Cart(g)
    BY DEF Grids, Cart
  <1>2. ASSUME NEW g \in Grids PROVE aux'[g] = Activity(Cart(g), flags'[g])
    <2>1. aux[g] = Activity(Cart(g), flags[g])
      BY DEF MasksOfFlags
    <2>2. /\ flags'[g]["ACTIVE"] = flags[g]["ACTIVE"] /\ flags'[g]["DOMAIN_BOUNDARY"] = flags[g]["DOMAIN_BOUNDARY"]
          /\ flags'[g]["INTERNAL_BOUNDARY"] = flags[g]["INTERNAL_BOUNDARY"]
      BY DEF MaskFlags
    <2> QED
      BY <2>1, <2>2, ActivityIs
  <1> QED
    BY <1>1, <1>2 DEF MasksOfFlags

\* What is inferred is active and was no boundary, so that it can be told from the user's.
LEMMA InferredIs ==
    ASSUME AssemblyInv, stage # "InitializeAssembly", NEW g \in Grids
    PROVE  /\ Inferred(g) \subseteq flags[g]["ACTIVE"]
           /\ Inferred(g) \cap flags[g]["DOMAIN_BOUNDARY"] = {}
  <1>1. /\ aux[g].active = flags[g]["ACTIVE"]
        /\ aux[g].domainBoundary = flags[g]["ACTIVE"] \cap flags[g]["DOMAIN_BOUNDARY"]
    BY ActivityIs DEF AssemblyInv, MasksOfFlags
  <1>2. CartOK(Cart(g))
    BY CaseFacts DEF AssemblyInv, StagesTypeOK
  <1>3. \A p : p \in Inferred(g) =>
           p \in EdgeOf(Cart(g), aux[g].active, "INNER", "FALSE", FALSE) \ aux[g].domainBoundary
    BY DEF Inferred
  <1>4. \A p : p \in EdgeOf(Cart(g), aux[g].active, "INNER", "FALSE", FALSE) => p \in aux[g].active
    BY <1>2, InnerEdgeIs
  <1> QED
    BY <1>1, <1>3, <1>4

\* Inferred boundaries are taken into the masks.
LEMMA InferBoundariesKeeps ==
    ASSUME AssemblyInv, InferBoundaries PROVE AssemblyInv'
  <1>1. /\ stage = "InferBoundaries" /\ stage' = "CutBoundaryHoles"
        /\ here' = here /\ turn' = turn /\ fringe' = fringe
        /\ overlap' = overlap /\ overlapMask' = overlapMask
        /\ Grids' = Grids /\ \A g : Cart(g)' = Cart(g)
    BY DEF InferBoundaries, geometry, Grids, Cart
  <1>2. StagesTypeOK'
    BY <1>1 DEF AssemblyInv, StagesTypeOK, AllStages
  <1>3. ASSUME NEW g \in Grids
        PROVE  /\ IsFlags(flags[g]) /\ IsFlags(flags'[g])
               /\ flags[g]["INFERRED_DOMAIN_BOUNDARY"] = {}
               /\ flags'[g]["INFERRED_DOMAIN_BOUNDARY"] = Inferred(g)
               /\ flags'[g]["DOMAIN_BOUNDARY"] = flags[g]["DOMAIN_BOUNDARY"] \cup Inferred(g)
               /\ \A x \in AllFlags \ {"DOMAIN_BOUNDARY", "INFERRED_DOMAIN_BOUNDARY"} : flags'[g][x] = flags[g][x]
    <2>1. flags[g]["INFERRED_DOMAIN_BOUNDARY"] = {}
      BY <1>1 DEF AssemblyInv, FlagsPending, Pending
    <2>2. flags'[g] = SetFlags(flags[g], {"DOMAIN_BOUNDARY", "INFERRED_DOMAIN_BOUNDARY"}, Inferred(g))
      BY DEF InferBoundaries
    <2>3. IsFlags(flags[g])
      BY DEF AssemblyInv, FlagsKept
    <2> HIDE DEF IsFlags
    <2>4. IsFlags(flags'[g])
      BY <2>2, <2>3, SetFlagsIs
    <2> QED
      BY <2>1, <2>2, <2>3, <2>4, FlagNames DEF SetFlags, IsFlags
  <1>4. FlagsKept'
    <2>1. ASSUME NEW g \in Grids
          PROVE  /\ flags'[g]["ACTIVE"] \cup flags'[g]["BOUNDARY_HOLE"] \cup flags'[g]["OVERLAP_MINIMIZED"]
                      = here.flags[g]["ACTIVE"]
                 /\ flags'[g]["DOMAIN_BOUNDARY"] \ flags'[g]["INFERRED_DOMAIN_BOUNDARY"]
                      = here.flags[g]["DOMAIN_BOUNDARY"]
                 /\ flags'[g]["INTERNAL_BOUNDARY"] = here.flags[g]["INTERNAL_BOUNDARY"]
      <3>1. /\ flags[g]["ACTIVE"] \cup flags[g]["BOUNDARY_HOLE"] \cup flags[g]["OVERLAP_MINIMIZED"]
                 = here.flags[g]["ACTIVE"]
            /\ flags[g]["DOMAIN_BOUNDARY"] \ flags[g]["INFERRED_DOMAIN_BOUNDARY"]
                 = here.flags[g]["DOMAIN_BOUNDARY"]
            /\ flags[g]["INTERNAL_BOUNDARY"] = here.flags[g]["INTERNAL_BOUNDARY"]
        BY DEF AssemblyInv, FlagsKept
      <3>2. Inferred(g) \cap flags[g]["DOMAIN_BOUNDARY"] = {}
        BY <1>1, InferredIs
      <3>3. /\ flags'[g]["ACTIVE"] = flags[g]["ACTIVE"] /\ flags'[g]["BOUNDARY_HOLE"] = flags[g]["BOUNDARY_HOLE"]
            /\ flags'[g]["OVERLAP_MINIMIZED"] = flags[g]["OVERLAP_MINIMIZED"]
            /\ flags'[g]["INTERNAL_BOUNDARY"] = flags[g]["INTERNAL_BOUNDARY"]
        BY <1>3, FlagNames
      <3> QED
        BY <1>3, <3>1, <3>2, <3>3
    <2> QED
      BY <1>1, <1>3, <2>1 DEF FlagsKept
  <1>5. FlagsPending'
    <2>1. ASSUME NEW g \in Grids, NEW x \in {"OCCLUDED", "OVERLAP_MINIMIZED", "INNER_FRINGE", "RECEIVER", "ORPHAN"}
          PROVE  flags[g][x] = {} /\ x \in AllFlags \ {"DOMAIN_BOUNDARY", "INFERRED_DOMAIN_BOUNDARY"}
      BY <1>1, <2>1, FlagNames DEF AssemblyInv, FlagsPending, Pending, BeforeOccluded, BeforeMinimized, BeforeReceivers
    <2> QED
      BY <1>1, <1>3, <2>1 DEF FlagsPending, StartsFromUserFlags, Pending
  <1>6. ASSUME NEW g \in Grids PROVE aux'[g] = Activity(Cart(g), flags'[g])
    <2>1. aux[g] = Activity(Cart(g), flags[g])
      BY <1>1 DEF AssemblyInv, MasksOfFlags
    <2>2. aux'[g] = [aux[g] EXCEPT !.domainBoundary = @ \union Inferred(g)]
      BY DEF InferBoundaries
    <2>3. Inferred(g) \subseteq flags[g]["ACTIVE"]
      BY <1>1, InferredIs
    <2>4. /\ flags'[g]["ACTIVE"] = flags[g]["ACTIVE"]
          /\ flags'[g]["INTERNAL_BOUNDARY"] = flags[g]["INTERNAL_BOUNDARY"]
          /\ flags'[g]["DOMAIN_BOUNDARY"] = flags[g]["DOMAIN_BOUNDARY"] \cup Inferred(g)
      BY <1>3, FlagNames
    <2>5. flags[g]["ACTIVE"] \cap (flags[g]["DOMAIN_BOUNDARY"] \cup Inferred(g))
            = (flags[g]["ACTIVE"] \cap flags[g]["DOMAIN_BOUNDARY"]) \cup Inferred(g)
      BY <2>3
    <2> DEFINE a == flags[g]["ACTIVE"]
               c == {x \in Cells(Cart(g)) : Corners(Cart(g), x) \subseteq a}
               d == a \cap flags[g]["DOMAIN_BOUNDARY"]
               i == a \cap flags[g]["INTERNAL_BOUNDARY"]
               e == Inferred(g)
    <2>6. Activity(Cart(g), flags'[g]) =
            [active |-> a, cellActive |-> c, domainBoundary |-> d \cup e, internalBoundary |-> i]
      BY <2>4, <2>5 DEF Activity
    <2>7. aux[g] = [active |-> a, cellActive |-> c, domainBoundary |-> d, internalBoundary |-> i]
      BY <2>1 DEF Activity
    <2> HIDE DEF a, c, d, i, e
    <2>8. aux'[g] = [active |-> a, cellActive |-> c, domainBoundary |-> d \cup e, internalBoundary |-> i]
      BY <2>2, <2>7 DEF e
    <2> QED
      BY <2>6, <2>8
  <1>7. MasksOfFlags'
    BY <1>1, <1>6 DEF MasksOfFlags
  <1>8. OverlapsFound'
    BY <1>1 DEF OverlapsFound, Overlaps, AssemblyInv, AllStages, Pairs
  <1> QED
    BY <1>1, <1>2, <1>4, <1>5, <1>7, <1>8 DEF AssemblyInv, FringeFound, OcclusionFound,
       OverlapMinimized, ReceiversFound

\* Holes are of active points, and masks of grids that are cut are made again.
LEMMA CutBoundaryHolesKeeps ==
    ASSUME AssemblyInv, CutBoundaryHoles PROVE AssemblyInv'
  <1>1. /\ stage = "CutBoundaryHoles" /\ stage' = "LocateOuterFringe"
        /\ here' = here /\ turn' = turn /\ fringe' = fringe /\ overlap' = overlap
        /\ Grids' = Grids /\ \A g : Cart(g)' = Cart(g)
    BY DEF CutBoundaryHoles, geometry, Grids, Cart
  <1>2. StagesTypeOK'
    BY <1>1 DEF AssemblyInv, StagesTypeOK, AllStages
  <1>3. PICK Hole \in {BoundaryHoles(projected) :
                    projected \in {[id \in CutPairs |-> ProjectedBoundary(id[1], id[2])]}} :
          /\ flags' = [n \in Grids |->
               SetFlags(ResetFlags(flags[n], {"ACTIVE"}, Hole[n]), {"BOUNDARY_HOLE"}, Hole[n])]
          /\ aux' = [n \in Grids |-> IF Hole[n] = {} THEN aux[n] ELSE Activity(Cart(n), flags'[n])]
    BY DEF CutBoundaryHoles
  <1>4. ASSUME NEW g \in Grids
        PROVE  /\ aux[g] = Activity(Cart(g), flags[g])
               /\ Hole[g] \subseteq flags[g]["ACTIVE"]
    <2>1. aux[g] = Activity(Cart(g), flags[g])
      BY <1>1 DEF AssemblyInv, MasksOfFlags
    <2>2. PICK projected : Hole = BoundaryHoles(projected)
      BY <1>3
    <2>3. Hole[g] = {} \/ Hole[g] = BoundaryHole(g, projected)
      BY <2>2 DEF BoundaryHoles
    <2>4. BoundaryHole(g, projected) \subseteq aux[g].active
      BY DEF BoundaryHole
    <2> QED
      BY <2>1, <2>3, <2>4, ActivityIs
  <1>5. ASSUME NEW g \in Grids
        PROVE  /\ IsFlags(flags'[g])
               /\ flags'[g]["ACTIVE"] = flags[g]["ACTIVE"] \ Hole[g]
               /\ flags'[g]["BOUNDARY_HOLE"] = flags[g]["BOUNDARY_HOLE"] \cup Hole[g]
               /\ \A x \in AllFlags \ {"ACTIVE", "BOUNDARY_HOLE"} : flags'[g][x] = flags[g][x]
    <2> DEFINE f == ResetFlags(flags[g], {"ACTIVE"}, Hole[g])
    <2>1. flags'[g] = SetFlags(f, {"BOUNDARY_HOLE"}, Hole[g])
      BY <1>3
    <2>2. IsFlags(flags[g])
      BY DEF AssemblyInv, FlagsKept
    <2>3. IsFlags(f)
      BY <2>2, SetFlagsIs
    <2>4. f["ACTIVE"] = flags[g]["ACTIVE"] \ Hole[g] /\ \A x \in AllFlags \ {"ACTIVE"} : f[x] = flags[g][x]
      BY <2>2, FlagNames DEF ResetFlags, IsFlags
    <2> HIDE DEF f
    <2>5. IsFlags(flags'[g])
      BY <2>1, <2>3, SetFlagsIs
    <2>6. /\ flags'[g]["BOUNDARY_HOLE"] = f["BOUNDARY_HOLE"] \cup Hole[g]
          /\ \A x \in AllFlags \ {"BOUNDARY_HOLE"} : flags'[g][x] = f[x]
      BY <2>1, <2>3, FlagNames DEF SetFlags, IsFlags
    <2> QED
      BY <2>4, <2>5, <2>6, FlagNames
  <1>6. FlagsKept'
    <2>1. ASSUME NEW g \in Grids
          PROVE  /\ flags'[g]["ACTIVE"] \cup flags'[g]["BOUNDARY_HOLE"] \cup flags'[g]["OVERLAP_MINIMIZED"]
                      = here.flags[g]["ACTIVE"]
                 /\ flags'[g]["DOMAIN_BOUNDARY"] \ flags'[g]["INFERRED_DOMAIN_BOUNDARY"]
                      = here.flags[g]["DOMAIN_BOUNDARY"]
                 /\ flags'[g]["INTERNAL_BOUNDARY"] = here.flags[g]["INTERNAL_BOUNDARY"]
      <3>1. /\ flags[g]["ACTIVE"] \cup flags[g]["BOUNDARY_HOLE"] \cup flags[g]["OVERLAP_MINIMIZED"]
                 = here.flags[g]["ACTIVE"]
            /\ flags[g]["DOMAIN_BOUNDARY"] \ flags[g]["INFERRED_DOMAIN_BOUNDARY"]
                 = here.flags[g]["DOMAIN_BOUNDARY"]
            /\ flags[g]["INTERNAL_BOUNDARY"] = here.flags[g]["INTERNAL_BOUNDARY"]
        BY DEF AssemblyInv, FlagsKept
      <3>2. /\ flags'[g]["DOMAIN_BOUNDARY"] = flags[g]["DOMAIN_BOUNDARY"]
            /\ flags'[g]["INFERRED_DOMAIN_BOUNDARY"] = flags[g]["INFERRED_DOMAIN_BOUNDARY"]
            /\ flags'[g]["OVERLAP_MINIMIZED"] = flags[g]["OVERLAP_MINIMIZED"]
            /\ flags'[g]["INTERNAL_BOUNDARY"] = flags[g]["INTERNAL_BOUNDARY"]
        BY <1>5, FlagNames
      <3>3. (flags[g]["ACTIVE"] \ Hole[g]) \cup (flags[g]["BOUNDARY_HOLE"] \cup Hole[g])
              = flags[g]["ACTIVE"] \cup flags[g]["BOUNDARY_HOLE"]
        BY <1>4
      <3> QED
        BY <1>5, <3>1, <3>2, <3>3
    <2> QED
      BY <1>1, <1>5, <2>1 DEF FlagsKept
  <1>7. FlagsPending'
    <2>1. ASSUME NEW g \in Grids, NEW x \in {"OCCLUDED", "OVERLAP_MINIMIZED", "INNER_FRINGE", "RECEIVER", "ORPHAN"}
          PROVE  flags[g][x] = {} /\ x \in AllFlags \ {"ACTIVE", "BOUNDARY_HOLE"}
      BY <1>1, <2>1, FlagNames DEF AssemblyInv, FlagsPending, Pending, BeforeOccluded, BeforeMinimized, BeforeReceivers
    <2> QED
      BY <1>1, <1>5, <2>1 DEF FlagsPending, StartsFromUserFlags, Pending
  <1>8. ASSUME NEW g \in Grids PROVE aux'[g] = Activity(Cart(g), flags'[g])
    <2>1. aux'[g] = IF Hole[g] = {} THEN aux[g] ELSE Activity(Cart(g), flags'[g])
      BY <1>3
    <2>2. CASE Hole[g] = {}
      <3>1. /\ flags'[g]["ACTIVE"] = flags[g]["ACTIVE"]
            /\ flags'[g]["INTERNAL_BOUNDARY"] = flags[g]["INTERNAL_BOUNDARY"]
            /\ flags'[g]["DOMAIN_BOUNDARY"] = flags[g]["DOMAIN_BOUNDARY"]
        BY <1>5, <2>2, FlagNames
      <3> QED
        BY <1>4, <2>1, <2>2, <3>1, ActivityIs
    <2>3. CASE Hole[g] # {}
      BY <2>1, <2>3
    <2> QED
      BY <2>2, <2>3
  <1>9. MasksOfFlags'
    BY <1>1, <1>8 DEF MasksOfFlags
  <1>10. OverlapsFound'
    <2>1. Overlaps' = Overlaps /\ Pairs' = Pairs
      BY <1>1 DEF Overlaps, Pairs
    <2>2. \A id \in Overlaps : overlapMask'[id] \subseteq DOMAIN overlap[id]
      BY DEF CutBoundaryHoles, UpdatedOverlap
    <2>3. /\ Overlaps \subseteq Pairs
          /\ \A id \in Overlaps : DOMAIN overlap[id] \subseteq here.flags[id[2]]["ACTIVE"]
      BY <1>1 DEF AssemblyInv, OverlapsFound, AllStages
    <2> QED
      BY <1>1, <2>1, <2>2, <2>3 DEF OverlapsFound
  <1> QED
    BY <1>1, <1>2, <1>6, <1>7, <1>9, <1>10 DEF AssemblyInv, FringeFound, OcclusionFound,
       OverlapMinimized, ReceiversFound

\* The outer fringe is that of the masks, which stay until the overlap is minimized.
LEMMA LocateOuterFringeKeeps ==
    ASSUME AssemblyInv, LocateOuterFringe PROVE AssemblyInv'
  <1>1. /\ stage = "LocateOuterFringe" /\ stage' = "DetectOccluded"
        /\ here' = here /\ turn' = turn /\ aux' = aux
        /\ overlap' = overlap /\ overlapMask' = overlapMask
        /\ Grids' = Grids /\ \A g : OuterFringe(g)' = OuterFringe(g)
    BY DEF LocateOuterFringe, geometry, Grids, Cart, OuterFringe, Option
  <1>2. fringe' = [outer |-> [g \in Grids |-> OuterFringe(g)], inner |-> fringe.inner]
    BY DEF AssemblyInv, StagesTypeOK, LocateOuterFringe
  <1>3. StagesTypeOK'
    BY <1>1, <1>2 DEF AssemblyInv, StagesTypeOK, AllStages
  <1>4. ASSUME NEW g \in Grids
        PROVE  /\ IsFlags(flags'[g])
               /\ \A x \in AllFlags \ {"FRINGE", "OUTER_FRINGE"} : flags'[g][x] = flags[g][x]
    <2>1. flags'[g] = SetFlags(flags[g], {"FRINGE", "OUTER_FRINGE"}, OuterFringe(g))
      BY DEF LocateOuterFringe
    <2>2. IsFlags(flags[g])
      BY DEF AssemblyInv, FlagsKept
    <2> QED
      BY <2>1, <2>2, SetFlagsIs
  <1>5. \A g \in Grids : \A x \in MaskFlags : flags'[g][x] = flags[g][x]
    BY <1>4, FlagNames DEF MaskFlags
  <1>6. FlagsKept' /\ MasksOfFlags'
    BY <1>1, <1>4, <1>5, FlagsStill, MasksStill DEF AssemblyInv
  <1>7. FlagsPending'
    <2>1. ASSUME NEW g \in Grids, NEW x \in {"OCCLUDED", "OVERLAP_MINIMIZED", "INNER_FRINGE", "RECEIVER", "ORPHAN"}
          PROVE  flags[g][x] = {} /\ x \in AllFlags \ {"FRINGE", "OUTER_FRINGE"}
      BY <1>1, <2>1, FlagNames DEF AssemblyInv, FlagsPending, Pending, BeforeOccluded, BeforeMinimized, BeforeReceivers
    <2> QED
      BY <1>1, <1>4, <2>1 DEF FlagsPending, StartsFromUserFlags, Pending
  <1>8. OverlapsFound'
    BY <1>1 DEF OverlapsFound, Overlaps, AssemblyInv, AllStages, Pairs
  <1>9. FringeFound'
    BY <1>1, <1>2 DEF FringeFound
  <1> QED
    BY <1>1, <1>3, <1>6, <1>7, <1>8, <1>9 DEF AssemblyInv, OcclusionFound,
       OverlapMinimized, ReceiversFound

\* The masks of pairs say nothing of points that do not overlap.
WithinOverlaps(o) ==
    Overlaps \subseteq DOMAIN o /\ \A id \in Overlaps : o[id] \subseteq DOMAIN overlap[id]

\* Once names a value.
LEMMA OnceIs ==
    ASSUME NEW x PROVE Once({x}) = x
  BY DEF Once

\* Each step of DetectOccluded keeps occlusion within the overlap.
LEMMA OccludedBeforeWithin ==
    ASSUME NEW o, WithinOverlaps(o), NEW K
    PROVE  WithinOverlaps(OccludedBefore(o, K))
  <1>1. \A id \in DOMAIN o :
          OccludedBefore(o, K)[id] = o[id]
          \/ OccludedBefore(o, K)[id] = ClearOf(id, o[<<id[2], id[1]>>])
    BY DEF OccludedBefore
  <1>2. DOMAIN OccludedBefore(o, K) = DOMAIN o
    BY DEF OccludedBefore
  <1>3. \A id, S : ClearOf(id, S) \subseteq DOMAIN overlap[id]
    BY DEF ClearOf
  <1> QED
    BY <1>1, <1>2, <1>3 DEF WithinOverlaps

\* So does occlusion by resolution, of both grids of a pair.
LEMMA PairwiseOcclusionWithin ==
    ASSUME \A id \in Overlaps : overlapMask[id] \subseteq DOMAIN overlap[id],
           \A id \in Overlaps : Option.occludes[id] \in {"NONE", "ALL", "COARSE"}
    PROVE  WithinOverlaps(PairwiseOcclusion)
  <1> DEFINE First == [id \in Overlaps \union DOMAIN pairwise |->
                         IF id \in Overlaps THEN ByResolution(id) ELSE pairwise[id]]
             Second == OccludedBefore(First, {id \in Overlaps : id[1] < id[2]})
             Third == OccludedBefore(Second, {id \in Overlaps : id[1] > id[2]})
  <1>1. ASSUME NEW id \in Overlaps PROVE ByResolution(id) \subseteq overlapMask[id]
    <2>1. CASE Option.occludes[id] = "COARSE"
      BY <2>1 DEF ByResolution
    <2>2. CASE Option.occludes[id] = "ALL"
      BY <2>2 DEF ByResolution
    <2>3. CASE Option.occludes[id] = "NONE"
      BY <2>3 DEF ByResolution
    <2> QED
      BY <2>1, <2>2, <2>3
  <1>2. WithinOverlaps(First)
    BY <1>1 DEF WithinOverlaps
  <1>3. {OccludedBefore(o, {id \in Overlaps : id[1] > id[2]}) :
           o \in {OccludedBefore(f, {id \in Overlaps : id[1] < id[2]}) : f \in {First}}} = {Third}
    OBVIOUS
  <1>4. PairwiseOcclusion = Once({Third})
    BY <1>3 DEF PairwiseOcclusion
  <1> HIDE DEF First
  <1>5. WithinOverlaps(Second)
    BY <1>2, OccludedBeforeWithin
  <1> HIDE DEF Second
  <1>6. WithinOverlaps(Third)
    BY <1>5, OccludedBeforeWithin
  <1> HIDE DEF Third
  <1> QED
    BY <1>4, <1>6, OnceIs

\* Padding and smoothing only take occlusion away.
LEMMA PaddedWithin ==
    ASSUME NEW o, WithinOverlaps(o)
    PROVE  WithinOverlaps(Padded(o))
  <1>1. ASSUME NEW Padding PROVE WithinOverlaps(WithoutPadding(o, Padding))
    <2> DEFINE kept == [g \in Grids |-> Kept(g, o, Padding)]
               w(k) == [id \in DOMAIN o |-> IF id \in Occluders THEN o[id] \ (Padding[id] \ k[id[2]]) ELSE o[id]]
    <2>1. WithoutPadding(o, Padding) = Once({w(k) : k \in {kept}})
      BY DEF WithoutPadding
    <2>2. \A k : WithinOverlaps(w(k))
      BY DEF WithinOverlaps
    <2> HIDE DEF kept, w
    <2>3. {w(k) : k \in {kept}} = {w(kept)}
      OBVIOUS
    <2>4. WithoutPadding(o, Padding) = w(kept)
      BY <2>1, <2>3, OnceIs
    <2> QED
      BY <2>2, <2>4
  <1> DEFINE P == [id \in Occluders |-> o[id] \ ClearOf(id, Disallowed(id, o))]
  <1>2. Padded(o) = Once({WithoutPadding(o, Padding) : Padding \in {P}})
    BY DEF Padded
  <1> HIDE DEF P
  <1>3. {WithoutPadding(o, Padding) : Padding \in {P}} = {WithoutPadding(o, P)}
    OBVIOUS
  <1>4. Padded(o) = WithoutPadding(o, P)
    BY <1>2, <1>3, OnceIs
  <1> QED
    BY <1>1, <1>4

\* Occluded points are overlapped.
LEMMA DetectOccludedKeeps ==
    ASSUME AssemblyInv, DetectOccluded PROVE AssemblyInv'
  <1>1. /\ stage = "DetectOccluded" /\ stage' = "MinimizeOverlap"
        /\ here' = here /\ turn' = turn /\ aux' = aux /\ fringe' = fringe
        /\ overlap' = overlap /\ overlapMask' = overlapMask
        /\ Grids' = Grids /\ Occluders' = Occluders
        /\ \A g : OuterFringe(g)' = OuterFringe(g)
    BY DEF DetectOccluded, geometry, Grids, Cart, OuterFringe, Option, Occluders, Overlaps
  <1>2. StagesTypeOK'
    BY <1>1 DEF AssemblyInv, StagesTypeOK, AllStages
  <1>3. /\ Overlaps \subseteq Pairs
        /\ \A id \in Overlaps : overlapMask[id] \subseteq DOMAIN overlap[id]
    BY <1>1 DEF AssemblyInv, OverlapsFound, AllStages
  <1>4. \A id \in Overlaps : Option.occludes[id] \in {"NONE", "ALL", "COARSE"}
    <2>1. \A g, h \in Grids : g # h => Option.occludes[<<g, h>>] \in {"NONE", "ALL", "COARSE"}
      BY CaseFacts DEF AssemblyInv, StagesTypeOK
    <2>2. \A id \in Pairs : id = <<id[1], id[2]>> /\ id[1] \in Grids /\ id[2] \in Grids /\ id[1] # id[2]
      BY DEF Pairs
    <2> QED
      BY <1>3, <2>1, <2>2
  <1>5. pairwise' = Padded(PairwiseOcclusion)
    BY DEF DetectOccluded
  <1>6. \A id \in Overlaps : pairwise'[id] \subseteq DOMAIN overlap[id]
    BY <1>3, <1>4, <1>5, PairwiseOcclusionWithin, PaddedWithin DEF WithinOverlaps
  <1>7. ASSUME NEW g \in Grids
        PROVE  /\ IsFlags(flags'[g])
               /\ flags'[g]["OCCLUDED"] = occlusion'[g]
               /\ occlusion'[g] = OccludedBy(g)'
               /\ \A x \in AllFlags \ {"OCCLUDED"} : flags'[g][x] = flags[g][x]
    <2>1. flags'[g] = SetFlags(flags[g], {"OCCLUDED"}, occlusion'[g])
      BY DEF DetectOccluded
    <2>2. IsFlags(flags[g])
      BY DEF AssemblyInv, FlagsKept
    <2>3. flags[g]["OCCLUDED"] = {}
      BY <1>1 DEF AssemblyInv, FlagsPending, Pending, BeforeOccluded
    <2>4. occlusion'[g] = UNION {pairwise'[id] : id \in {i \in Occluders : i[2] = g}}
      BY DEF DetectOccluded
    <2>5. occlusion'[g] = OccludedBy(g)'
      BY <1>1, <2>4 DEF OccludedBy
    <2>6. IsFlags(flags'[g]) /\ \A x \in AllFlags \ {"OCCLUDED"} : flags'[g][x] = flags[g][x]
      BY <2>1, <2>2, SetFlagsIs
    <2>7. flags'[g]["OCCLUDED"] = flags[g]["OCCLUDED"] \cup occlusion'[g]
      BY <2>1, <2>2, FlagNames DEF SetFlags, IsFlags
    <2> QED
      BY <2>3, <2>5, <2>6, <2>7
  <1>8. \A g \in Grids : \A x \in MaskFlags : flags'[g][x] = flags[g][x]
    BY <1>7, FlagNames DEF MaskFlags
  <1>9. FlagsKept' /\ MasksOfFlags'
    BY <1>1, <1>7, <1>8, FlagsStill, MasksStill DEF AssemblyInv
  <1>10. FlagsPending'
    <2>1. ASSUME NEW g \in Grids, NEW x \in {"OVERLAP_MINIMIZED", "INNER_FRINGE", "RECEIVER", "ORPHAN"}
          PROVE  flags[g][x] = {} /\ x \in AllFlags \ {"OCCLUDED"}
      BY <1>1, <2>1, FlagNames DEF AssemblyInv, FlagsPending, Pending, BeforeOccluded, BeforeMinimized, BeforeReceivers
    <2> QED
      BY <1>1, <1>7, <2>1 DEF FlagsPending, StartsFromUserFlags, Pending, BeforeOccluded
  <1>11. OverlapsFound' /\ FringeFound'
    BY <1>1 DEF OverlapsFound, FringeFound, Overlaps, AssemblyInv, AllStages, Pairs
  <1>12. OcclusionFound'
    <2>1. \A id \in Occluders : id \in Overlaps
      BY DEF Occluders
    <2> QED
      BY <1>1, <1>6, <1>7, <2>1 DEF OcclusionFound
  <1> QED
    BY <1>1, <1>2, <1>9, <1>10, <1>11, <1>12 DEF AssemblyInv, OverlapMinimized, ReceiversFound

\* A look-up that goes astray ends the assembly.
LEMMA LookUpStrayKeeps ==
    ASSUME AssemblyInv, LookUpStray PROVE AssemblyInv'
  <1>1. /\ stage = "DetectOccluded" /\ stage' = "stray"
        /\ here' = here /\ turn' = turn /\ aux' = aux /\ fringe' = fringe /\ flags' = flags
    BY DEF LookUpStray, geometry
  <1>2. StagesTypeOK' /\ FlagsKept' /\ MasksOfFlags'
    BY <1>1 DEF AssemblyInv, StagesTypeOK, AllStages, FlagsKept, MasksOfFlags, Grids, Cart
  <1>3. FlagsPending'
    BY <1>1 DEF FlagsPending, Pending, StartsFromUserFlags, BeforeOccluded, BeforeMinimized, BeforeReceivers
  <1> QED
    BY <1>1, <1>2, <1>3 DEF AssemblyInv, OverlapsFound, FringeFound, OcclusionFound, OverlapMinimized,
       ReceiversFound

\* What is next to a mask, moved into the range, is of its edge.
LEMMA BeyondEdge ==
    ASSUME NEW C, CartOK(C), NEW S, S \subseteq Points(C.range), NEW a \in S, NEW b \in Neighbors(a),
           Wrapped(C, b) \notin S
    PROVE  Wrapped(C, b) \in EdgeOf(C, S, "OUTER", "FALSE", TRUE)
  <1> DEFINE q == Wrapped(C, b)
             E == CartIncludeExteriorPoint(C).range
  <1>1. a \in Points(C.range) /\ IsPoint(a) /\ HasPoint(C.range, a) /\ PeriodicAdjust(C, a) = a
    BY PointsIn, AdjustInRange
  <1>2. IsPoint(b) /\ a[1] - 1 <= b[1] /\ b[1] <= a[1] + 1 /\ a[2] - 1 <= b[2] /\ b[2] <= a[2] + 1
    BY <1>1, NeighborIs
  <1>3. /\ IsPoint(q) /\ SameIn(C, q, b) /\ q = PeriodicAdjust(C, b)
        /\ \A d \in Dims : C.periodic[d] => C.range.begin[d] <= q[d] /\ q[d] < C.range.end[d]
    BY <1>2, WrappedIs, AdjustIs
  <1> HIDE DEF q
  <1>4. PeriodicAdjust(C, q) = q
    BY <1>3, AdjustFixed
  <1>5. Touches(C, S, q)
    <2>1. PICK s : /\ IsPoint(s) /\ SameIn(C, s, a)
                   /\ q[1] - 1 <= s[1] /\ s[1] <= q[1] + 1
                   /\ q[2] - 1 <= s[2] /\ s[2] <= q[2] + 1
      BY <1>1, <1>2, <1>3, Moved
    <2>2. s \in Neighbors(q)
      BY <1>3, <2>1, NeighborIs
    <2>3. PeriodicAdjust(C, s) = a
      BY <1>1, <2>1, AdjustSame
    <2> QED
      BY <1>1, <2>2, <2>3 DEF Touches
  <1>6. q \in Points(E)
    <2>1. \A d \in Dims : IF C.periodic[d] THEN E.begin[d] = C.range.begin[d] /\ E.end[d] = C.range.end[d]
                          ELSE E.begin[d] = C.range.begin[d] - 1 /\ E.end[d] = C.range.end[d] + 1
      BY ExteriorOK
    <2>2. ASSUME NEW d \in Dims PROVE E.begin[d] <= q[d] /\ q[d] < E.end[d]
      <3>1. CASE C.periodic[d]
        BY <1>3, <2>1, <3>1
      <3>2. CASE ~C.periodic[d]
        <4>1. q[d] = b[d]
          BY <1>3, <3>2 DEF SameIn
        <4>2. C.range.begin[d] \in Int /\ C.range.end[d] \in Int
          BY PeriodIs
        <4>3. C.range.begin[d] <= a[d] /\ a[d] < C.range.end[d]
          BY <1>1 DEF HasPoint
        <4>4. a[d] \in Int /\ b[d] \in Int /\ a[d] - 1 <= b[d] /\ b[d] <= a[d] + 1
          BY <1>1, <1>2 DEF IsPoint, Dims
        <4>5. E.begin[d] = C.range.begin[d] - 1 /\ E.end[d] = C.range.end[d] + 1
          BY <2>1, <3>2
        <4> HIDE DEF E
        <4> QED
          BY <4>1, <4>2, <4>3, <4>4, <4>5
      <3> QED
        BY <3>1, <3>2
    <2>3. HasPoint(E, q)
      BY <2>2 DEF HasPoint
    <2> QED
      BY <1>3, <2>3, ExteriorOK, PointsIn
  <1>7. q \in EdgeOf(C, S, "OUTER", "FALSE", TRUE)
    BY <1>3, <1>4, <1>5, <1>6, ExteriorEdgeIs DEF q
  <1> QED
    BY <1>7 DEF q

\* Active points near the edge of the active part that is no boundary.
LEMMA OuterFringeHas ==
    ASSUME NEW g, CartOK(Cart(g)), aux[g].active \subseteq All(g),
           Option.fringeSize[g] \in Nat, Option.fringeSize[g] # 0,
           NEW p \in aux[g].active, NEW s, IsPoint(s), Within(p, s, Option.fringeSize[g]),
           NEW q, SameIn(Cart(g), q, s),
           q \in EdgeOf(Cart(g), aux[g].active, "OUTER", "FALSE", TRUE),
           q \in EdgeOf(Cart(g), aux[g].active \ (aux[g].domainBoundary \union aux[g].internalBoundary),
                        "OUTER", "FALSE", TRUE)
    PROVE  p \in OuterFringe(g)
  <1> DEFINE C == Cart(g)
             E == CartIncludeExteriorPoint(C)
             Outer(S) == EdgeOf(C, S, "OUTER", "FALSE", TRUE)
             Boundary == aux[g].domainBoundary \union aux[g].internalBoundary
             Cover == {r \in Outer(aux[g].active) : r \in Outer(aux[g].active \ Boundary) \/ r \notin Outer(Boundary)}
  <1>1. OuterFringe(g) = aux[g].active \intersect Dilate(E, Cover, Option.fringeSize[g], "FALSE")
    BY DEF OuterFringe
  <1>2. q \in Cover
    OBVIOUS
  <1>3. CartOK(E) /\ Points(C.range) \subseteq Points(E.range) /\ (SameIn(E, q, s) <=> SameIn(C, q, s))
    BY ExteriorOK
  <1>4. p \in Points(E.range)
    BY <1>3 DEF All
  <1>5. q \in Points(E.range)
    BY ExteriorEdgeIs
  <1> HIDE DEF Cover, E
  <1>6. p \in Dilate(E, Cover, Option.fringeSize[g], "FALSE")
    BY <1>2, <1>3, <1>4, <1>5, Reached
  <1> QED
    BY <1>1, <1>6

\* The outer fringe is active.
LEMMA OuterFringeIn ==
    ASSUME NEW g PROVE OuterFringe(g) \subseteq aux[g].active
  BY DEF OuterFringe

\* Active points near what is removed.
LEMMA InnerFringeHas ==
    ASSUME NEW g, CartOK(Cart(g)), aux[g].active \subseteq All(g), Minimized(g) \subseteq All(g),
           Option.fringeSize[g] \in Nat, Option.fringeSize[g] # 0,
           NEW p \in aux[g].active \ Minimized(g), NEW s, IsPoint(s), Within(p, s, Option.fringeSize[g]),
           NEW q \in Minimized(g), SameIn(Cart(g), q, s)
    PROVE  p \in InnerFringe(g)
  <1>1. p \in Points(Cart(g).range) /\ q \in Points(Cart(g).range) \cap Minimized(g)
    BY DEF All
  <1>2. p \in Dilate(Cart(g), Minimized(g), Option.fringeSize[g], "FALSE")
    BY <1>1, Reached
  <1> QED
    BY <1>2 DEF InnerFringe

\* The inner fringe is active and, by Opening, occluded: layers around what is removed
\* are within what was eroded by as many.
LEMMA InnerFringeIn ==
    ASSUME NEW g, CartOK(Cart(g)), occlusion[g] \subseteq All(g), Option.fringeSize[g] \in Nat
    PROVE  /\ InnerFringe(g) \subseteq aux[g].active \ Minimized(g)
           /\ InnerFringe(g) \subseteq occlusion[g]
  <1> DEFINE C == Cart(g)
             k == Option.fringeSize[g]
             S == occlusion[g] \union (All(g) \ aux[g].active)
  <1>1. CASE k = 0
    BY <1>1 DEF InnerFringe
  <1>2. CASE k # 0
    <2>1. InnerFringe(g) = (Dilate(C, Minimized(g), k, "FALSE") \intersect aux[g].active) \ Minimized(g)
      BY <1>2 DEF InnerFringe
    <2>2. Minimized(g) \subseteq Erode(C, S, k, "TRUE")
      BY <1>2 DEF Minimized
    <2>3. S \subseteq Points(C.range)
      BY DEF All
    <2> HIDE DEF S
    <2>4. Dilate(C, Minimized(g), k, "FALSE") \subseteq S
      BY <2>2, <2>3, Opening
    <2> QED
      BY <2>1, <2>4 DEF S
  <1> QED
    BY <1>1, <1>2

\* What the stages before the last but one leave for a grid.
LEMMA BeforeMinimizing ==
    ASSUME AssemblyInv, stage = "MinimizeOverlap", NEW g \in Grids
    PROVE  /\ CartOK(Cart(g)) /\ Option.fringeSize[g] \in Nat
           /\ IsFlags(flags[g]) /\ aux[g] = Activity(Cart(g), flags[g])
           /\ aux[g].active = flags[g]["ACTIVE"]
           /\ aux[g].domainBoundary = flags[g]["ACTIVE"] \cap flags[g]["DOMAIN_BOUNDARY"]
           /\ aux[g].internalBoundary = flags[g]["ACTIVE"] \cap flags[g]["INTERNAL_BOUNDARY"]
           /\ here.flags[g]["ACTIVE"] \subseteq All(g)
           /\ flags[g]["ACTIVE"] \subseteq here.flags[g]["ACTIVE"]
           /\ occlusion[g] \subseteq here.flags[g]["ACTIVE"] /\ flags[g]["OCCLUDED"] = occlusion[g]
           /\ Minimized(g) \subseteq here.flags[g]["ACTIVE"]
           /\ fringe.outer[g] = OuterFringe(g)
           /\ flags[g]["OVERLAP_MINIMIZED"] = {} /\ flags[g]["INNER_FRINGE"] = {}
           /\ flags[g]["RECEIVER"] = {} /\ flags[g]["ORPHAN"] = {}
  <1>1. CartOK(Cart(g)) /\ Option.fringeSize[g] \in Nat /\ here.flags[g]["ACTIVE"] \subseteq All(g)
    BY CaseFacts, FlagNames DEF AssemblyInv, StagesTypeOK
  <1>2. IsFlags(flags[g]) /\ aux[g] = Activity(Cart(g), flags[g])
    BY DEF AssemblyInv, FlagsKept, MasksOfFlags
  <1>3. flags[g]["ACTIVE"] \subseteq here.flags[g]["ACTIVE"]
    BY DEF AssemblyInv, FlagsKept
  <1>4. OccludedBy(g) \subseteq here.flags[g]["ACTIVE"]
    <2>1. \A id \in Occluders : pairwise[id] \subseteq DOMAIN overlap[id] /\ id \in Overlaps
      BY DEF AssemblyInv, OcclusionFound, Occluders
    <2>2. \A id \in Overlaps : DOMAIN overlap[id] \subseteq here.flags[id[2]]["ACTIVE"]
      BY DEF AssemblyInv, OverlapsFound, AllStages
    <2> QED
      BY <2>1, <2>2 DEF OccludedBy
  <1>5. occlusion[g] = OccludedBy(g) /\ flags[g]["OCCLUDED"] = occlusion[g]
    BY DEF AssemblyInv, OcclusionFound
  <1>6. Minimized(g) \subseteq OccludedBy(g)
    BY DEF Minimized, OccludedBy
  <1>7. /\ flags[g]["OVERLAP_MINIMIZED"] = {} /\ flags[g]["INNER_FRINGE"] = {}
        /\ flags[g]["RECEIVER"] = {} /\ flags[g]["ORPHAN"] = {}
    BY DEF AssemblyInv, FlagsPending, Pending, BeforeMinimized, BeforeReceivers
  <1>8. fringe.outer[g] = OuterFringe(g)
    BY DEF AssemblyInv, FringeFound
  <1> QED
    BY <1>1, <1>2, <1>3, <1>4, <1>5, <1>6, <1>7, <1>8, ActivityIs

\* What a step of minimization makes of a grid.
LEMMA MinimizedGrid ==
    ASSUME AssemblyInv, MinimizeOverlap, NEW g \in Grids
    PROVE  /\ IsFlags(flags'[g])
           /\ flags'[g]["ACTIVE"] = flags[g]["ACTIVE"] \ Minimized(g)
           /\ flags'[g]["OVERLAP_MINIMIZED"] = Minimized(g)
           /\ flags'[g]["INNER_FRINGE"] = InnerFringe(g)
           /\ \A x \in AllFlags \ {"ACTIVE", "OUTER_FRINGE", "OVERLAP_MINIMIZED", "FRINGE", "INNER_FRINGE"} :
                flags'[g][x] = flags[g][x]
           /\ aux'[g] = Activity(Cart(g), flags'[g])
           /\ fringe'.outer[g] = OuterFringe(g) \cap flags'[g]["ACTIVE"]
           /\ fringe'.inner[g] = InnerFringe(g)
           /\ ReceiverMask(g)' = (OuterFringe(g) \cap flags'[g]["ACTIVE"]) \cup InnerFringe(g)
                                   \cup (occlusion[g] \cap flags'[g]["ACTIVE"])
           /\ ReceiverMask(g)' \subseteq flags'[g]["ACTIVE"]
  <1> DEFINE M == Minimized(g)
             f == flags[g]
             cleared == ResetFlags(f, {"ACTIVE", "OUTER_FRINGE"}, M)
             removed == SetFlags(cleared, {"OVERLAP_MINIMIZED"}, M)
  <1>1. stage = "MinimizeOverlap" /\ here' = here /\ turn' = turn /\ occlusion' = occlusion
    BY DEF MinimizeOverlap, geometry
  <1>2. flags'[g] = SetFlags(removed, {"FRINGE", "INNER_FRINGE"}, InnerFringe(g))
    BY DEF MinimizeOverlap
  <1>3. IsFlags(f)
    BY <1>1, BeforeMinimizing
  <1>4. f["OVERLAP_MINIMIZED"] = {} /\ f["INNER_FRINGE"] = {}
    BY <1>1, BeforeMinimizing
  <1> HIDE DEF f
  <1>5. /\ IsFlags(cleared) /\ cleared["ACTIVE"] = f["ACTIVE"] \ M
        /\ \A x \in AllFlags \ {"ACTIVE", "OUTER_FRINGE"} : cleared[x] = f[x]
    BY <1>3, SetFlagsIs, FlagNames DEF ResetFlags, IsFlags
  <1> HIDE DEF cleared
  <1>6. /\ IsFlags(removed) /\ removed["OVERLAP_MINIMIZED"] = cleared["OVERLAP_MINIMIZED"] \cup M
        /\ \A x \in AllFlags \ {"OVERLAP_MINIMIZED"} : removed[x] = cleared[x]
    BY <1>5, SetFlagsIs, FlagNames DEF SetFlags, IsFlags
  <1> HIDE DEF removed
  <1>7. /\ IsFlags(flags'[g]) /\ flags'[g]["INNER_FRINGE"] = removed["INNER_FRINGE"] \cup InnerFringe(g)
        /\ \A x \in AllFlags \ {"FRINGE", "INNER_FRINGE"} : flags'[g][x] = removed[x]
    BY <1>2, <1>6, SetFlagsIs, FlagNames DEF SetFlags, IsFlags
  <1>8. /\ flags'[g]["ACTIVE"] = f["ACTIVE"] \ M
        /\ flags'[g]["OVERLAP_MINIMIZED"] = M
        /\ flags'[g]["INNER_FRINGE"] = InnerFringe(g)
        /\ \A x \in AllFlags \ {"ACTIVE", "OUTER_FRINGE", "OVERLAP_MINIMIZED", "FRINGE", "INNER_FRINGE"} :
             flags'[g][x] = f[x]
    <2>1. /\ "ACTIVE" \in AllFlags \ {"FRINGE", "INNER_FRINGE"} /\ "ACTIVE" \in AllFlags \ {"OVERLAP_MINIMIZED"}
          /\ "OVERLAP_MINIMIZED" \in AllFlags \ {"FRINGE", "INNER_FRINGE"}
          /\ "OVERLAP_MINIMIZED" \in AllFlags \ {"ACTIVE", "OUTER_FRINGE"}
          /\ "INNER_FRINGE" \in AllFlags \ {"OVERLAP_MINIMIZED"}
          /\ "INNER_FRINGE" \in AllFlags \ {"ACTIVE", "OUTER_FRINGE"}
      BY FlagNames
    <2> QED
      BY <1>4, <1>5, <1>6, <1>7, <2>1
  <1>9. /\ flags'[g]["DOMAIN_BOUNDARY"] = f["DOMAIN_BOUNDARY"]
        /\ flags'[g]["INTERNAL_BOUNDARY"] = f["INTERNAL_BOUNDARY"]
    BY <1>8, FlagNames
  <1>10. aux'[g] = Activity(Cart(g), flags'[g])
    <2>1. aux'[g] = IF M = {} THEN aux[g] ELSE Activity(Cart(g), flags'[g])
      BY DEF MinimizeOverlap
    <2>2. aux[g] = Activity(Cart(g), f)
      BY <1>1, BeforeMinimizing DEF f
    <2>3. M = {} => Activity(Cart(g), flags'[g]) = Activity(Cart(g), f)
      <3>1. M = {} => flags'[g]["ACTIVE"] = f["ACTIVE"]
        BY <1>8
      <3> QED
        BY <1>9, <3>1, ActivityIs
    <2> QED
      BY <2>1, <2>2, <2>3
  <1>11. fringe'.outer[g] = OuterFringe(g) \cap flags'[g]["ACTIVE"] /\ fringe'.inner[g] = InnerFringe(g)
    <2>1. /\ fringe'.outer[g] = IF M = {} THEN fringe.outer[g] ELSE fringe.outer[g] \intersect flags'[g]["ACTIVE"]
          /\ fringe'.inner[g] = InnerFringe(g)
      BY DEF MinimizeOverlap
    <2>2. fringe.outer[g] = OuterFringe(g) /\ OuterFringe(g) \subseteq f["ACTIVE"]
      BY <1>1, BeforeMinimizing, OuterFringeIn DEF f
    <2> QED
      BY <1>8, <2>1, <2>2
  <1>12. ReceiverMask(g)' = (OuterFringe(g) \cap flags'[g]["ACTIVE"]) \cup InnerFringe(g)
                                   \cup (occlusion[g] \cap flags'[g]["ACTIVE"])
    BY <1>1, <1>10, <1>11, ActivityIs DEF ReceiverMask
  <1>13. InnerFringe(g) \subseteq flags'[g]["ACTIVE"]
    <2>1. InnerFringe(g) \subseteq aux[g].active \ Minimized(g) /\ aux[g].active = f["ACTIVE"]
      BY <1>1, BeforeMinimizing, InnerFringeIn DEF f
    <2> QED
      BY <1>8, <2>1
  <1> QED
    BY <1>7, <1>8, <1>10, <1>11, <1>12, <1>13 DEF f

\* Stencils are complete once their points are known to be received or not.
LEMMA MinimizedStencils ==
    ASSUME AssemblyInv, MinimizeOverlap, NEW g \in Grids
    PROVE  StencilsOf(g)'
  <1> DEFINE C == Cart(g)
             size == Option.fringeSize[g]
             M == Minimized(g)
             A == flags[g]["ACTIVE"]
             New == flags'[g]["ACTIVE"]
             Walls == flags'[g]["DOMAIN_BOUNDARY"] \cup flags'[g]["INTERNAL_BOUNDARY"]
             Mask == ReceiverMask(g)'
  <1>1. stage = "MinimizeOverlap" /\ Cart(g)' = C /\ Option' = Option
    BY DEF MinimizeOverlap, geometry, Cart, Option
  <1>2. /\ CartOK(C) /\ size \in Nat /\ aux[g].active = A /\ A \subseteq All(g) /\ M \subseteq All(g)
        /\ aux[g].domainBoundary = A \cap flags[g]["DOMAIN_BOUNDARY"]
        /\ aux[g].internalBoundary = A \cap flags[g]["INTERNAL_BOUNDARY"]
    BY <1>1, BeforeMinimizing
  <1>3. /\ New = A \ M /\ flags'[g]["OVERLAP_MINIMIZED"] = M
        /\ OuterFringe(g) \cap New \subseteq Mask /\ InnerFringe(g) \subseteq Mask
    BY MinimizedGrid
  <1>4. Walls = flags[g]["DOMAIN_BOUNDARY"] \cup flags[g]["INTERNAL_BOUNDARY"]
    BY MinimizedGrid, FlagNames
  <1> DEFINE Reach(p) == {Wrapped(C, <<x, y>>) : x \in p[1] - size .. p[1] + size,
                                                 y \in p[2] - size .. p[2] + size}
             Complete(q) == /\ q \notin flags'[g]["OVERLAP_MINIMIZED"]
                            /\ \A a \in New \ Walls : q \notin {Wrapped(C, b) : b \in Neighbors(a)}
  <1>5. StencilsOf(g)' = (\A p \in New \ Mask : \A q \in Reach(p) \ New : Complete(q))
    BY <1>1 DEF StencilsOf
  <1>6. SUFFICES ASSUME NEW p \in New \ Mask, NEW x \in p[1] - size .. p[1] + size,
                        NEW y \in p[2] - size .. p[2] + size, Wrapped(C, <<x, y>>) \notin New
                 PROVE  /\ Wrapped(C, <<x, y>>) \notin M
                        /\ \A a \in New \ Walls : \A b \in Neighbors(a) : Wrapped(C, <<x, y>>) # Wrapped(C, b)
    <2>1. SUFFICES ASSUME NEW p \in New \ Mask, NEW q \in Reach(p) \ New PROVE Complete(q)
      BY <1>5
    <2>2. PICK x \in p[1] - size .. p[1] + size, y \in p[2] - size .. p[2] + size : q = Wrapped(C, <<x, y>>)
      OBVIOUS
    <2> QED
      BY <1>3, <2>2
  <1> DEFINE s == <<x, y>>
             q == Wrapped(C, s)
  <1>7. p \in A \ M /\ p \in Points(C.range) /\ IsPoint(p) /\ Wrapped(C, p) = p
    BY <1>2, <1>3, PointsIn, AdjustInRange DEF All
  <1>8. p[1] \in Int /\ p[2] \in Int
    BY <1>7 DEF IsPoint
  <1>9. IsPoint(s) /\ Within(p, s, size)
    BY <1>2, <1>8 DEF IsPoint, Within
  <1>10. size # 0
    <2>1. size = 0 => x = p[1] /\ y = p[2]
      BY <1>8
    <2>2. size = 0 => s = p
      BY <1>7, <2>1 DEF IsPoint
    <2> QED
      BY <1>6, <1>7, <2>2
  <1>11. IsPoint(q) /\ SameIn(C, q, s)
    BY <1>2, <1>9, WrappedIs
  <1>12. q \notin New
    BY <1>6
  <1> HIDE DEF q, s, size
  <1>13. q \notin M
    <2>1. q \in M => p \in InnerFringe(g)
      BY <1>2, <1>7, <1>9, <1>10, <1>11, InnerFringeHas DEF size
    <2> QED
      BY <1>3, <1>6, <2>1
  <1>14. ASSUME NEW a \in New \ Walls, NEW b \in Neighbors(a), q = Wrapped(C, b)
         PROVE  FALSE
    <2> DEFINE S == A \ (aux[g].domainBoundary \union aux[g].internalBoundary)
    <2>1. q \notin A
      BY <1>3, <1>12, <1>13
    <2>2. a \in A /\ a \in S
      BY <1>2, <1>3, <1>4, <1>14
    <2>3. A \subseteq Points(C.range) /\ S \subseteq A
      BY <1>2 DEF All
    <2> HIDE DEF S
    <2>4. q \in EdgeOf(C, A, "OUTER", "FALSE", TRUE)
      BY <1>2, <1>14, <2>1, <2>2, <2>3, BeyondEdge
    <2>5. q \in EdgeOf(C, S, "OUTER", "FALSE", TRUE)
      BY <1>2, <1>14, <2>1, <2>2, <2>3, BeyondEdge
    <2>6. p \in OuterFringe(g)
      BY <1>2, <1>7, <1>9, <1>10, <1>11, <2>4, <2>5, OuterFringeHas DEF S, size
    <2> QED
      BY <1>3, <1>6, <2>6
  <1> QED
    BY <1>13, <1>14 DEF q, s

\* Stencils of what stays and is not received are whole, and donors are active.
LEMMA MinimizeOverlapKeeps ==
    ASSUME AssemblyInv, MinimizeOverlap PROVE AssemblyInv'
  <1>1. /\ stage = "MinimizeOverlap" /\ stage' = "GenerateConnectivityData"
        /\ here' = here /\ turn' = turn /\ pairwise' = pairwise /\ occlusion' = occlusion
        /\ overlap' = overlap
        /\ Grids' = Grids /\ Overlaps' = Overlaps /\ Pairs' = Pairs /\ Occluders' = Occluders
        /\ \A g : Cart(g)' = Cart(g)
    BY DEF MinimizeOverlap, geometry, Grids, Cart, Option, Occluders, Overlaps, Pairs
  <1>2. fringe' = [outer |-> fringe'.outer, inner |-> fringe'.inner]
    BY DEF MinimizeOverlap
  <1>3. StagesTypeOK'
    BY <1>1, <1>2 DEF AssemblyInv, StagesTypeOK, AllStages
  <1>4. FlagsKept'
    <2>1. ASSUME NEW g \in Grids
          PROVE  /\ flags'[g]["ACTIVE"] \cup flags'[g]["BOUNDARY_HOLE"] \cup flags'[g]["OVERLAP_MINIMIZED"]
                      = here.flags[g]["ACTIVE"]
                 /\ flags'[g]["DOMAIN_BOUNDARY"] \ flags'[g]["INFERRED_DOMAIN_BOUNDARY"]
                      = here.flags[g]["DOMAIN_BOUNDARY"]
                 /\ flags'[g]["INTERNAL_BOUNDARY"] = here.flags[g]["INTERNAL_BOUNDARY"]
                 /\ IsFlags(flags'[g])
      <3>1. /\ flags[g]["ACTIVE"] \cup flags[g]["BOUNDARY_HOLE"] \cup flags[g]["OVERLAP_MINIMIZED"]
                 = here.flags[g]["ACTIVE"]
            /\ flags[g]["DOMAIN_BOUNDARY"] \ flags[g]["INFERRED_DOMAIN_BOUNDARY"]
                 = here.flags[g]["DOMAIN_BOUNDARY"]
            /\ flags[g]["INTERNAL_BOUNDARY"] = here.flags[g]["INTERNAL_BOUNDARY"]
        BY DEF AssemblyInv, FlagsKept
      <3>2. /\ flags'[g]["DOMAIN_BOUNDARY"] = flags[g]["DOMAIN_BOUNDARY"]
            /\ flags'[g]["INFERRED_DOMAIN_BOUNDARY"] = flags[g]["INFERRED_DOMAIN_BOUNDARY"]
            /\ flags'[g]["BOUNDARY_HOLE"] = flags[g]["BOUNDARY_HOLE"]
            /\ flags'[g]["INTERNAL_BOUNDARY"] = flags[g]["INTERNAL_BOUNDARY"]
        BY MinimizedGrid, FlagNames
      <3>3. /\ flags'[g]["ACTIVE"] = flags[g]["ACTIVE"] \ Minimized(g)
            /\ flags'[g]["OVERLAP_MINIMIZED"] = Minimized(g) /\ IsFlags(flags'[g])
        BY MinimizedGrid
      <3>4. Minimized(g) \subseteq here.flags[g]["ACTIVE"] /\ flags[g]["OVERLAP_MINIMIZED"] = {}
        BY <1>1, BeforeMinimizing
      <3> QED
        BY <3>1, <3>2, <3>3, <3>4
    <2> QED
      BY <1>1, <2>1 DEF FlagsKept
  <1>5. FlagsPending'
    <2>1. ASSUME NEW g \in Grids PROVE flags'[g]["RECEIVER"] = {} /\ flags'[g]["ORPHAN"] = {}
      BY <1>1, BeforeMinimizing, MinimizedGrid, FlagNames
    <2> QED
      BY <1>1, <2>1 DEF FlagsPending, StartsFromUserFlags, Pending, BeforeOccluded, BeforeMinimized
  <1>6. MasksOfFlags'
    BY <1>1, MinimizedGrid DEF MasksOfFlags
  <1>7. overlapMask' = UpdatedOverlap(aux')
    BY DEF MinimizeOverlap
  <1>8. /\ Overlaps \subseteq Pairs
        /\ \A id \in Overlaps : DOMAIN overlap[id] \subseteq here.flags[id[2]]["ACTIVE"]
    BY <1>1 DEF AssemblyInv, OverlapsFound, AllStages
  <1>9. OverlapsFound'
    <2>1. \A id \in Overlaps : overlapMask'[id] \subseteq DOMAIN overlap[id]
      BY <1>7 DEF UpdatedOverlap
    <2> QED
      BY <1>1, <1>8, <2>1 DEF OverlapsFound
  <1>10. OcclusionFound'
    <2>1. /\ \A id \in Occluders : pairwise[id] \subseteq DOMAIN overlap[id]
          /\ \A g \in Grids : occlusion[g] = OccludedBy(g) /\ flags[g]["OCCLUDED"] = occlusion[g]
      BY <1>1 DEF AssemblyInv, OcclusionFound
    <2>2. \A g \in Grids : flags'[g]["OCCLUDED"] = flags[g]["OCCLUDED"]
      BY MinimizedGrid, FlagNames
    <2>3. \A g : OccludedBy(g)' = OccludedBy(g)
      BY <1>1 DEF OccludedBy
    <2> QED
      BY <1>1, <2>1, <2>2, <2>3 DEF OcclusionFound
  <1>11. OverlapMinimized'
    <2>1. DonorsActive'
      <3>1. ASSUME NEW id \in Overlaps, NEW p \in overlapMask'[id]
            PROVE  Corners(Cart(id[1]), overlap[id][p]) \subseteq flags'[id[1]]["ACTIVE"]
        <4>1. id[1] \in Grids
          BY <1>8 DEF Pairs
        <4>2. Corners(Cart(id[1]), overlap[id][p]) \subseteq aux'[id[1]].active
          BY <1>7 DEF UpdatedOverlap
        <4> QED
          BY <4>1, <4>2, MinimizedGrid, ActivityIs
      <3> QED
        BY <1>1, <3>1 DEF DonorsActive
    <2>2. ASSUME NEW g \in Grids
          PROVE  flags'[g]["INNER_FRINGE"] \subseteq flags'[g]["OCCLUDED"]
      <3>1. /\ CartOK(Cart(g)) /\ Option.fringeSize[g] \in Nat /\ occlusion[g] \subseteq All(g)
            /\ flags[g]["OCCLUDED"] = occlusion[g]
        BY <1>1, BeforeMinimizing
      <3>2. InnerFringe(g) \subseteq occlusion[g]
        BY <3>1, InnerFringeIn
      <3>3. flags'[g]["OCCLUDED"] = flags[g]["OCCLUDED"] /\ flags'[g]["INNER_FRINGE"] = InnerFringe(g)
        BY MinimizedGrid, FlagNames
      <3> QED
        BY <3>1, <3>2, <3>3
    <2>3. \A g \in Grids : ReceiverMask(g)' \subseteq flags'[g]["ACTIVE"] /\ StencilsOf(g)'
      BY MinimizedGrid, MinimizedStencils
    <2> QED
      BY <1>1, <2>1, <2>2, <2>3 DEF OverlapMinimized
  <1> QED
    BY <1>1, <1>3, <1>4, <1>5, <1>6, <1>9, <1>10, <1>11 DEF AssemblyInv, FringeFound, ReceiversFound

\* A donor is of a grid that may serve the point.
MayServe(m, n, p) ==
    /\ <<m, n>> \in Overlaps /\ Option.connectionType[<<m, n>>] # "NONE"
    /\ p \in overlapMask[<<m, n>>]

\* The loop over the grids ends with one that may serve the point, or with none.
LEMMA DonorIs ==
    ASSUME NEW N \in Nat, Cardinality(Grids) = N, NEW n, NEW p, NEW distances
    PROVE  \/ Donor(n, p, distances) = 0
           \/ Donor(n, p, distances) \in 1 .. N /\ MayServe(Donor(n, p, distances), n, p)
  <1> DEFINE Sought(m) == [grid |-> m, far |-> Fraction(distances[<<m, n>>][p], <<m, n>>)]
             Taken(m, old) ==
               /\ MayServe(m, n, p)
               /\ old = NoDonor \/ BetterDonor(Sought(m), old)
               /\ MayDonate(<<m, n>>, Sought(m).far)
             Later(m, old) == IF Taken(m, old) THEN Sought(m) ELSE old
             Ok(b) == b = [m \in 0 .. N |-> IF m = 0 THEN NoDonor ELSE Later(m, b[m - 1])]
             S == {NoDonor} \cup {Sought(m) : m \in 1 .. N}
             next == [ms \in (1 .. N) \X S |-> Later(ms[1], ms[2])]
  <1>1. Donor(n, p, distances) = (CHOOSE b : Ok(b))[N].grid
    BY DEF Donor, MayServe
  <1>2. \A m, old : Later(m, old) = old \/ (MayServe(m, n, p) /\ Later(m, old) = Sought(m))
    OBVIOUS
  <1>3. \A m : Sought(m).grid = m
    OBVIOUS
  <1> HIDE DEF Sought, Later
  <1>4. next \in [(1 .. N) \X S -> S] /\ NoDonor \in S
    BY <1>2
  <1>5. \A m \in 1 .. N, old \in S : next[<<m, old>>] = Later(m, old)
    OBVIOUS
  <1> HIDE DEF S, next
  <1>6. PICK f : Stepwise(f, N, S, NoDonor, next)
    BY <1>4, Steps
  <1>7. /\ f \in [0 .. N -> S] /\ f[0] = NoDonor
        /\ \A m \in 1 .. N : f[m] = Later(m, f[m - 1])
    <2>1. /\ f \in [0 .. N -> S] /\ f[0] = NoDonor
          /\ \A m \in 1 .. N : f[m] = next[<<m, f[m - 1]>>]
      BY <1>6 DEF Stepwise
    <2>2. \A m \in 1 .. N : m - 1 \in 0 .. N
      OBVIOUS
    <2> QED
      BY <1>5, <2>1, <2>2
  <1>8. Ok(f)
    <2>1. \A m \in 0 .. N : f[m] = IF m = 0 THEN NoDonor ELSE Later(m, f[m - 1])
      BY <1>7
    <2> QED
      BY <1>7, <2>1
  <1> DEFINE best == CHOOSE b : Ok(b)
  <1>9. Ok(best)
    BY <1>8
  <1> HIDE DEF best
  <1>10. best[0] = NoDonor /\ \A m \in 1 .. N : best[m] = Later(m, best[m - 1])
    <2>1. \A m \in 0 .. N : best[m] = IF m = 0 THEN NoDonor ELSE Later(m, best[m - 1])
      BY <1>9
    <2> QED
      BY <2>1
  <1> DEFINE Good(d) == d.grid = 0 \/ (d.grid \in 1 .. N /\ MayServe(d.grid, n, p))
             P == {m \in 0 .. N : Good(best[m])}
  <1>11. 0 \in P
    BY <1>10 DEF NoDonor
  <1>12. ASSUME NEW i \in 1 .. N, i - 1 \in P PROVE i \in P
    BY <1>2, <1>3, <1>10, <1>12
  <1> HIDE DEF P
  <1>13. N \in P
    BY <1>11, <1>12, UpTo
  <1> QED
    BY <1>1, <1>13 DEF P, best

\* A receiver is served by the pair of its donor alone.
LEMMA GenerateKeeps ==
    ASSUME AssemblyInv, GenerateConnectivityData PROVE AssemblyInv'
  <1>1. /\ stage = "GenerateConnectivityData" /\ stage' = "done"
        /\ here' = here /\ turn' = turn /\ aux' = aux /\ fringe' = fringe
        /\ pairwise' = pairwise /\ occlusion' = occlusion
        /\ overlap' = overlap /\ overlapMask' = overlapMask
        /\ Grids' = Grids /\ Overlaps' = Overlaps /\ Pairs' = Pairs /\ Occluders' = Occluders
        /\ Option' = Option
        /\ \A g : Cart(g)' = Cart(g) /\ ReceiverMask(g)' = ReceiverMask(g) /\ OccludedBy(g)' = OccludedBy(g)
    BY DEF GenerateConnectivityData, geometry, Grids, Cart, Option, Occluders, Overlaps, Pairs,
       ReceiverMask, OccludedBy
  <1>2. StagesTypeOK'
    BY <1>1 DEF AssemblyInv, StagesTypeOK, AllStages
  <1>3. PICK donor \in {ChosenDonors(distances) : distances \in {OverlapDistances}} :
          /\ flags' = [g \in Grids |->
               SetFlags(SetFlags(flags[g], {"RECEIVER"}, ReceiverMask(g)), {"ORPHAN"}, Orphans(donor[g]))]
          /\ receivers' = [id \in Connected(donor) |-> Receivers(donor, id)]
    BY DEF GenerateConnectivityData
  <1>4. donor = ChosenDonors(OverlapDistances)
    BY <1>3
  <1>5. ASSUME NEW g \in Grids
        PROVE  /\ IsFlags(flags'[g])
               /\ flags'[g]["RECEIVER"] = ReceiverMask(g) /\ flags'[g]["ORPHAN"] = Orphans(donor[g])
               /\ \A x \in AllFlags \ {"RECEIVER", "ORPHAN"} : flags'[g][x] = flags[g][x]
    <2> DEFINE marked == SetFlags(flags[g], {"RECEIVER"}, ReceiverMask(g))
    <2>1. flags'[g] = SetFlags(marked, {"ORPHAN"}, Orphans(donor[g]))
      BY <1>3
    <2>2. IsFlags(flags[g])
      BY DEF AssemblyInv, FlagsKept
    <2>3. flags[g]["RECEIVER"] = {} /\ flags[g]["ORPHAN"] = {}
      BY <1>1 DEF AssemblyInv, FlagsPending, Pending, BeforeReceivers
    <2>4. /\ IsFlags(marked) /\ marked["RECEIVER"] = flags[g]["RECEIVER"] \cup ReceiverMask(g)
          /\ \A x \in AllFlags \ {"RECEIVER"} : marked[x] = flags[g][x]
      BY <2>2, SetFlagsIs, FlagNames DEF SetFlags, IsFlags
    <2> HIDE DEF marked
    <2>5. /\ IsFlags(flags'[g]) /\ flags'[g]["ORPHAN"] = marked["ORPHAN"] \cup Orphans(donor[g])
          /\ \A x \in AllFlags \ {"ORPHAN"} : flags'[g][x] = marked[x]
      BY <2>1, <2>4, SetFlagsIs, FlagNames DEF SetFlags, IsFlags
    <2>6. "RECEIVER" \in AllFlags \ {"ORPHAN"} /\ "ORPHAN" \in AllFlags \ {"RECEIVER"}
      BY FlagNames
    <2> QED
      BY <2>3, <2>4, <2>5, <2>6
  <1>6. ASSUME NEW g \in Grids
        PROVE  /\ \A x \in MaskFlags : flags'[g][x] = flags[g][x]
               /\ flags'[g]["OCCLUDED"] = flags[g]["OCCLUDED"] /\ flags'[g]["INNER_FRINGE"] = flags[g]["INNER_FRINGE"]
    BY <1>5, FlagNames DEF MaskFlags
  <1>7. FlagsKept' /\ MasksOfFlags'
    BY <1>1, <1>5, <1>6, FlagsStill, MasksStill DEF AssemblyInv
  <1>8. FlagsPending'
    BY <1>1 DEF FlagsPending, StartsFromUserFlags, Pending, BeforeOccluded, BeforeMinimized, BeforeReceivers
  <1>9. OverlapsFound'
    BY <1>1 DEF OverlapsFound, AssemblyInv, AllStages
  <1>10. OcclusionFound'
    BY <1>1, <1>6 DEF OcclusionFound, AssemblyInv
  <1>11. /\ DonorsActive
         /\ \A g \in Grids :
              /\ flags[g]["INNER_FRINGE"] \subseteq flags[g]["OCCLUDED"]
              /\ ReceiverMask(g) \subseteq flags[g]["ACTIVE"] /\ StencilsOf(g)
    BY <1>1 DEF AssemblyInv, OverlapMinimized
  <1>12. \A g \in Grids : /\ flags'[g]["ACTIVE"] = flags[g]["ACTIVE"]
                          /\ flags'[g]["DOMAIN_BOUNDARY"] = flags[g]["DOMAIN_BOUNDARY"]
                          /\ flags'[g]["INTERNAL_BOUNDARY"] = flags[g]["INTERNAL_BOUNDARY"]
                          /\ flags'[g]["OVERLAP_MINIMIZED"] = flags[g]["OVERLAP_MINIMIZED"]
    BY <1>6 DEF MaskFlags
  <1>13. \A id \in Overlaps : id = <<id[1], id[2]>> /\ id[1] \in Grids /\ id[2] \in Grids
    BY <1>1 DEF AssemblyInv, OverlapsFound, AllStages, Pairs
  <1>14. OverlapMinimized'
    <2>1. DonorsActive'
      BY <1>1, <1>11, <1>12, <1>13 DEF DonorsActive
    <2>2. \A g \in Grids : StencilsOf(g)'
      BY <1>1, <1>11, <1>12 DEF StencilsOf
    <2> QED
      BY <1>1, <1>6, <1>11, <1>12, <2>1, <2>2 DEF OverlapMinimized
  <1>15. StencilsComplete'
    <2>1. ASSUME NEW g \in Grids PROVE StencilsOf(g)' /\ flags'[g]["RECEIVER"] = ReceiverMask(g)'
      BY <1>1, <1>5, <1>14 DEF OverlapMinimized
    <2> QED
      BY <1>1, <2>1 DEF StencilsComplete, StencilsOf
  <1>16. PICK N \in Nat : Grids = 1 .. N /\ Cardinality(Grids) = N
    BY CaseFacts DEF AssemblyInv, StagesTypeOK
  <1>17. ASSUME NEW n \in Grids
         PROVE  /\ DOMAIN donor[n] = ReceiverMask(n)
                /\ \A p \in ReceiverMask(n) : \/ donor[n][p] = 0
                                              \/ donor[n][p] \in Grids /\ MayServe(donor[n][p], n, p)
    <2>1. donor[n] = [p \in ReceiverMask(n) |-> Donor(n, p, OverlapDistances)]
      BY <1>4 DEF ChosenDonors
    <2>2. \A p : \/ Donor(n, p, OverlapDistances) = 0
                 \/ Donor(n, p, OverlapDistances) \in Grids /\ MayServe(Donor(n, p, OverlapDistances), n, p)
      BY <1>16, DonorIs
    <2> QED
      BY <2>1, <2>2
  <1>18. ASSUME NEW id \in DOMAIN receivers'
         PROVE  /\ id \in Overlaps /\ Option.connectionType[id] # "NONE"
                /\ \A p \in DOMAIN receivers'[id] :
                     /\ p \in ReceiverMask(id[2]) /\ donor[id[2]][p] = id[1]
                     /\ receivers'[id][p] = overlap[id][p]
    <2>1. id \in Connected(donor) /\ receivers'[id] = Receivers(donor, id)
      BY <1>3
    <2>2. id \in Overlaps /\ Option.connectionType[id] # "NONE"
      BY <2>1 DEF Connected
    <2>3. DOMAIN donor[id[2]] = ReceiverMask(id[2])
      BY <1>13, <1>17, <2>2
    <2> QED
      BY <2>1, <2>2, <2>3 DEF Receivers, Served
  <1>19. ASSUME NEW id \in DOMAIN receivers', NEW p \in DOMAIN receivers'[id]
         PROVE  /\ Corners(Cart(id[1]), receivers'[id][p]) \subseteq flags'[id[1]]["ACTIVE"]
                /\ p \in flags'[id[2]]["ACTIVE"] \intersect flags'[id[2]]["RECEIVER"]
    <2>1. /\ id \in Overlaps /\ p \in ReceiverMask(id[2]) /\ donor[id[2]][p] = id[1]
          /\ receivers'[id][p] = overlap[id][p]
      BY <1>18
    <2>2. id = <<id[1], id[2]>> /\ id[1] \in Grids /\ id[2] \in Grids /\ id[1] # 0
      BY <1>13, <1>16, <2>1
    <2>3. p \in overlapMask[id]
      BY <1>17, <2>1, <2>2 DEF MayServe
    <2>4. Corners(Cart(id[1]), overlap[id][p]) \subseteq flags[id[1]]["ACTIVE"]
      BY <1>11, <2>1, <2>3 DEF DonorsActive
    <2> QED
      BY <1>5, <1>11, <1>12, <2>1, <2>2, <2>4
  <1>20. ASSUME NEW n \in Grids, NEW p \in flags'[n]["RECEIVER"]
         PROVE  Cardinality({id \in DOMAIN receivers' : id[2] = n /\ p \in DOMAIN receivers'[id]})
                  = IF p \in flags'[n]["ORPHAN"] THEN 0 ELSE 1
    <2> DEFINE X == {id \in DOMAIN receivers' : id[2] = n /\ p \in DOMAIN receivers'[id]}
               d == donor[n][p]
    <2>1. p \in ReceiverMask(n) /\ (p \in flags'[n]["ORPHAN"] <=> d = 0)
      BY <1>5, <1>17 DEF Orphans, NoDonor
    <2>2. \A id \in X : id = <<d, n>> /\ d # 0
      <3>1. ASSUME NEW id \in X PROVE id = <<d, n>> /\ d # 0
        <4>1. id \in Overlaps /\ id[2] = n /\ donor[n][p] = id[1]
          BY <1>18
        <4>2. id = <<id[1], id[2]>> /\ id[1] # 0
          BY <1>13, <1>16, <4>1
        <4> QED
          BY <4>1, <4>2
      <3> QED
        BY <3>1
    <2>3. CASE d = 0
      <3>1. X = {}
        BY <2>2, <2>3
      <3> QED
        BY <2>1, <2>3, <3>1, FS_EmptySet
    <2>4. CASE d # 0
      <3>1. d \in Grids /\ MayServe(d, n, p)
        BY <1>17, <2>1, <2>4
      <3>2. <<d, n>> \in Connected(donor) /\ p \in DOMAIN Receivers(donor, <<d, n>>)
        BY <1>17, <2>1, <3>1 DEF MayServe, Connected, Served, Receivers
      <3>3. <<d, n>> \in X
        BY <1>3, <3>2
      <3>4. X = {<<d, n>>}
        BY <2>2, <3>3
      <3> QED
        BY <2>1, <2>4, <3>4, FS_Singleton
    <2> QED
      BY <2>3, <2>4
  <1>21. ReceiversServed'
    BY <1>1, <1>19, <1>20 DEF ReceiversServed
  <1>22. ReceiversFound'
    BY <1>1, <1>5, <1>15, <1>21 DEF ReceiversFound
  <1> QED
    BY <1>1, <1>2, <1>7, <1>8, <1>9, <1>10, <1>14, <1>22 DEF AssemblyInv, FringeFound

\* The next assembly finds what the last one left.
LEMMA AssembleAgainKeeps ==
    ASSUME AssemblyInv, AssembleAgain PROVE AssemblyInv'
  <1>1. /\ stage = "done" /\ turn < Len(here.options) /\ stage' = "InitializeAssembly" /\ turn' = turn + 1
        /\ here' = here /\ flags' = flags /\ fringe' = fringe
    BY DEF AssembleAgain
  <1>2. StagesTypeOK'
    <2>1. Len(here.options) \in Nat
      BY CaseFacts DEF AssemblyInv, StagesTypeOK
    <2> QED
      BY <1>1, <2>1 DEF AssemblyInv, StagesTypeOK, AllStages
  <1>3. FlagsKept'
    BY <1>1 DEF AssemblyInv, FlagsKept, Grids
  <1> QED
    BY <1>1, <1>2, <1>3 DEF AssemblyInv, FlagsPending, StartsFromUserFlags, Pending, BeforeOccluded,
       BeforeMinimized, BeforeReceivers, MasksOfFlags, OverlapsFound, FringeFound, OcclusionFound,
       OverlapMinimized, ReceiversFound

\* Nothing changes where nothing of the assembly does.
LEMMA StagesStill ==
    ASSUME AssemblyInv, UNCHANGED stageVars PROVE AssemblyInv'
  <1>1. /\ here' = here /\ turn' = turn /\ stage' = stage /\ flags' = flags /\ aux' = aux
        /\ overlap' = overlap /\ overlapMask' = overlapMask /\ pairwise' = pairwise
        /\ fringe' = fringe /\ occlusion' = occlusion /\ receivers' = receivers
    BY DEF stageVars
  <1>2. /\ Grids' = Grids /\ Overlaps' = Overlaps /\ Pairs' = Pairs /\ Occluders' = Occluders
        /\ Option' = Option
        /\ \A g : Cart(g)' = Cart(g) /\ ReceiverMask(g)' = ReceiverMask(g) /\ OccludedBy(g)' = OccludedBy(g)
    BY <1>1 DEF Grids, Cart, Option, Occluders, Overlaps, Pairs, ReceiverMask, OccludedBy
  <1>3. StagesTypeOK' /\ FlagsKept' /\ MasksOfFlags'
    BY <1>1, <1>2 DEF AssemblyInv, StagesTypeOK, FlagsKept, MasksOfFlags
  <1>4. FlagsPending'
    BY <1>1, <1>2 DEF AssemblyInv, FlagsPending, StartsFromUserFlags, Pending
  <1>5. OverlapsFound' /\ OcclusionFound'
    BY <1>1, <1>2 DEF AssemblyInv, OverlapsFound, OcclusionFound
  <1>6. FringeFound'
    <2>1. \A g : OuterFringe(g)' = OuterFringe(g)
      BY <1>1, <1>2 DEF OuterFringe
    <2> QED
      BY <1>1, <1>2, <2>1 DEF AssemblyInv, FringeFound
  <1>7. \A g : StencilsOf(g)' <=> StencilsOf(g)
    BY <1>1, <1>2 DEF StencilsOf
  <1>8. DonorsActive' <=> DonorsActive
    BY <1>1, <1>2 DEF DonorsActive
  <1>9. OverlapMinimized'
    BY <1>1, <1>2, <1>7, <1>8 DEF AssemblyInv, OverlapMinimized
  <1>10. ReceiversServed' <=> ReceiversServed
    <2> DEFINE Whole == \A id \in DOMAIN receivers : \A p \in DOMAIN receivers[id] :
                          /\ Corners(Cart(id[1]), receivers[id][p]) \subseteq flags[id[1]]["ACTIVE"]
                          /\ p \in flags[id[2]]["ACTIVE"] \intersect flags[id[2]]["RECEIVER"]
               ByOne == \A n \in Grids : \A p \in flags[n]["RECEIVER"] :
                          Cardinality({id \in DOMAIN receivers : id[2] = n /\ p \in DOMAIN receivers[id]})
                            = IF p \in flags[n]["ORPHAN"] THEN 0 ELSE 1
    <2>1. Whole' <=> Whole
      BY <1>1, <1>2
    <2>2. ByOne' <=> ByOne
      BY <1>1 DEF Grids
    <2>3. ReceiversServed <=> (stage = "done" => Whole /\ ByOne)
      BY DEF ReceiversServed
    <2>4. ReceiversServed' <=> (stage' = "done" => Whole' /\ ByOne')
      BY DEF ReceiversServed
    <2> QED
      BY <1>1, <2>1, <2>2, <2>3, <2>4
  <1>11. StencilsComplete' <=> StencilsComplete
    BY <1>1, <1>2 DEF StencilsComplete
  <1>12. ReceiversFound'
    BY <1>1, <1>2, <1>10, <1>11 DEF AssemblyInv, ReceiversFound
  <1> QED
    BY <1>3, <1>4, <1>5, <1>6, <1>9, <1>12 DEF AssemblyInv

\* The inductive invariant of the stages: it holds whenever one has ended, of every
\* assembly that follows others (assembler::Assemble, core/AssemblerAssembly.cpp).
THEOREM AssemblyInvariance == StagesSpec => []AssemblyInv
  <1>1. StagesInit => AssemblyInv
    BY StagesStart
  <1>2. AssemblyInv /\ [StagesNext]_stageVars => AssemblyInv'
    <2> SUFFICES ASSUME AssemblyInv, [StagesNext]_stageVars PROVE AssemblyInv'
      OBVIOUS
    <2>1. CASE InitializeAssembly
      BY <2>1, InitializeKeeps
    <2>2. CASE DetectOverlap
      BY <2>2, DetectOverlapKeeps
    <2>3. CASE InferBoundaries
      BY <2>3, InferBoundariesKeeps
    <2>4. CASE CutBoundaryHoles
      BY <2>4, CutBoundaryHolesKeeps
    <2>5. CASE LocateOuterFringe
      BY <2>5, LocateOuterFringeKeeps
    <2>6. CASE DetectOccluded
      BY <2>6, DetectOccludedKeeps
    <2>7. CASE LookUpStray
      BY <2>7, LookUpStrayKeeps
    <2>8. CASE MinimizeOverlap
      BY <2>8, MinimizeOverlapKeeps
    <2>9. CASE GenerateConnectivityData
      BY <2>9, GenerateKeeps
    <2>10. CASE AssembleAgain
      BY <2>10, AssembleAgainKeeps
    <2>11. CASE Finished \/ UNCHANGED stageVars
      BY <2>11, StagesStill DEF Finished
    <2> QED
      BY <2>1, <2>2, <2>3, <2>4, <2>5, <2>6, <2>7, <2>8, <2>9, <2>10, <2>11 DEF StagesNext
  <1> QED
    BY <1>1, <1>2, PTL DEF StagesSpec

\* An assembly that follows another starts from the flags that the user gave, for any
\* grids, flags and options (assembler::InitializeAssembly).
THEOREM StartsFromUserFlagsHolds == StagesSpec => []StartsFromUserFlags
  <1>1. AssemblyInv => StartsFromUserFlags
    BY DEF AssemblyInv, FlagsPending
  <1> QED
    BY <1>1, AssemblyInvariance, PTL

\* A point that is computed and not received has its whole stencil, but for points
\* beyond a boundary, whatever the grids, their periods and the fringe sizes
\* (assembler::LocateOuterFringe, MinimizeOverlap).
THEOREM StencilsCompleteHolds == StagesSpec => []StencilsComplete
  <1>1. AssemblyInv => StencilsComplete
    BY DEF AssemblyInv, ReceiversFound, StencilsComplete
  <1> QED
    BY <1>1, AssemblyInvariance, PTL

\* What minimization makes receivers is occluded, so that the grid that removed points
\* around them can serve them (assembler::MinimizeOverlap).
THEOREM InnerFringeOccludedHolds == StagesSpec => []InnerFringeOccluded
  <1>1. AssemblyInv => InnerFringeOccluded
    BY DEF AssemblyInv, OverlapMinimized, InnerFringeOccluded
  <1> QED
    BY <1>1, AssemblyInvariance, PTL

\* A donor is a cell of active points, its receiver is active and marked so, and each
\* receiver has one donor over all grids or is an orphan: the half of ConnectionsWhole
\* that is not about ranks (assembler::GenerateConnectivityData).
THEOREM ReceiversServedHolds == StagesSpec => []ReceiversServed
  <1>1. AssemblyInv => ReceiversServed
    BY DEF AssemblyInv, ReceiversFound, ReceiversServed
  <1> QED
    BY <1>1, AssemblyInvariance, PTL

-----------------------------------------------------------------------------
\* Donors.  An overlap is of cells, and the ranks of the donor grid know what they own of
\* them.

LEMMA LocalFacts ==
    ASSUME here \in Cases
    PROVE  \A g \in Grids : LocalOK(Cart(g), here.grids[g].local)
  BY CasesAssumption DEF Grids, Cart

\* The donors that one rank has of a pair are those that it owns points of.
OfOwner(C, Local, cell, D) ==
    /\ \A p \in DOMAIN cell :
         Cardinality({d \in D : d.to = p}) = IF Corners(C, cell[p]) \intersect Local = {} THEN 0 ELSE 1
    /\ \A d \in D :
         /\ d.to \in DOMAIN cell
         /\ {Wrapped(C, q) : q \in Points(d.from)} = Corners(C, cell[d.to])
         /\ Points(d.from) \intersect Local # {}

DonorsOfOwners ==
    stage = "done" =>
      \A id \in DOMAIN donors : \A r \in DOMAIN donors[id] :
        OfOwner(Cart(id[1]), Points(here.grids[id[1]].local[r]), receivers[id], donors[id][r])

\* What a rank knows of the donors of a pair (KnownDonors).
LEMMA KnownDonorsAre ==
    ASSUME here \in Cases, NEW m \in Grids, NEW r \in DOMAIN here.grids[m].local,
           NEW cell, \A p \in DOMAIN cell : cell[p] \in Cells(Cart(m))
    PROVE  OfOwner(Cart(m), Points(here.grids[m].local[r]), cell, KnownDonors(m, r, cell))
  <1> DEFINE C == Cart(m)
             Local == Points(here.grids[m].local[r])
             D == KnownDonors(m, r, cell)
             Known(p) == KnownRanges(C, here.grids[m].local, r, CellRange(cell[p]))
  <1>1. CartOK(C) /\ LocalOK(C, here.grids[m].local)
    BY CaseFacts, LocalFacts
  <1>2. ASSUME NEW p \in DOMAIN cell
        PROVE  /\ IsPoint(cell[p])
               /\ \A X \in Known(p) : ImageOf(C, X, cell[p]) /\ Points(X) \cap Local # {}
               /\ Corners(C, cell[p]) \cap Local = {} => Known(p) = {}
               /\ Corners(C, cell[p]) \cap Local # {} => \E X : Known(p) = {X}
    BY <1>1, KnownIs, CellsIn
  <1> HIDE DEF Known
  <1>3. D = UNION {{[to |-> p, from |-> R] : R \in Known(p)} : p \in DOMAIN cell}
    BY DEF KnownDonors, Known
  <1> HIDE DEF D
  <1>4. \A d : d \in D <=> \E p \in DOMAIN cell : \E R \in Known(p) : d = [to |-> p, from |-> R]
    BY <1>3
  <1>5. ASSUME NEW p \in DOMAIN cell
        PROVE  Cardinality({d \in D : d.to = p})
                 = IF Corners(C, cell[p]) \intersect Local = {} THEN 0 ELSE 1
    <2> DEFINE Of == {d \in D : d.to = p}
    <2>1. \A d : d \in Of <=> \E R \in Known(p) : d = [to |-> p, from |-> R]
      BY <1>4
    <2> HIDE DEF Of
    <2>2. CASE Corners(C, cell[p]) \intersect Local = {}
      <3>1. Of = {}
        BY <1>2, <2>1, <2>2
      <3> QED
        BY <2>2, <3>1, FS_EmptySet DEF Of
    <2>3. CASE Corners(C, cell[p]) \intersect Local # {}
      <3>1. PICK X : Known(p) = {X}
        BY <1>2, <2>3
      <3>2. Of = {[to |-> p, from |-> X]}
        BY <2>1, <3>1
      <3> QED
        BY <2>3, <3>2, FS_Singleton DEF Of
    <2> QED
      BY <2>2, <2>3
  <1>6. ASSUME NEW d \in D
        PROVE  /\ d.to \in DOMAIN cell
               /\ {Wrapped(C, q) : q \in Points(d.from)} = Corners(C, cell[d.to])
               /\ Points(d.from) \intersect Local # {}
    <2>1. PICK p \in DOMAIN cell : \E R \in Known(p) : d = [to |-> p, from |-> R]
      BY <1>4
    <2>2. d.to = p /\ d.from \in Known(p)
      BY <2>1
    <2>3. IsPoint(cell[p]) /\ ImageOf(C, d.from, cell[p]) /\ Points(d.from) \cap Local # {}
      BY <1>2, <2>2
    <2> QED
      BY <1>1, <2>2, <2>3, ImageCorners
  <1> QED
    BY <1>5, <1>6 DEF D, OfOwner

\* Overlaps are of cells of the grid that overlaps.
InCells(cell, id) == \A p \in DOMAIN cell : cell[p] \in Cells(Cart(id[1]))
OverlapsInCells ==
    stage \in AllStages \ {"InitializeAssembly", "DetectOverlap", "stray"} =>
      \A id \in Overlaps : InCells(overlap[id], id)
DonorsInv == OverlapsInCells /\ DonorsOfOwners

LEMMA DonorsStart ==
    ASSUME StagesInit PROVE DonorsInv
  BY DEF StagesInit, DonorsInv, OverlapsInCells, DonorsOfOwners

LEMMA OverlapsAreInCells ==
    ASSUME AssemblyInv, DetectOverlap PROVE OverlapsInCells'
  <1> DEFINE Exists == {id \in Pairs : Option.overlappable[id] /\ DOMAIN FoundOverlap(id[1], id[2]) # {}}
  <1>1. overlap' = [id \in Exists |-> FoundOverlap(id[1], id[2])] /\ Exists \subseteq Pairs
    BY DEF DetectOverlap
  <1>2. stage = "DetectOverlap" /\ \A g : Cart(g)' = Cart(g)
    BY DEF DetectOverlap, geometry, Cart
  <1> HIDE DEF Exists
  <1>3. ASSUME NEW id \in Exists PROVE InCells(overlap'[id], id)
    <2>1. id[1] \in Grids
      BY <1>1 DEF Pairs
    <2>2. aux[id[1]].cellActive \subseteq Cells(Cart(id[1]))
      <3>1. aux[id[1]] = Activity(Cart(id[1]), flags[id[1]])
        BY <1>2, <2>1 DEF AssemblyInv, MasksOfFlags
      <3> QED
        BY <3>1 DEF Activity
    <2>3. overlap'[id] = FoundOverlap(id[1], id[2])
      BY <1>1
    <2>4. \A p \in DOMAIN FoundOverlap(id[1], id[2]) :
            FoundOverlap(id[1], id[2])[p] \in aux[id[1]].cellActive
      BY DEF FoundOverlap
    <2> QED
      BY <2>2, <2>3, <2>4 DEF InCells
  <1> QED
    BY <1>1, <1>2, <1>3 DEF OverlapsInCells, Overlaps, InCells

\* Generating connectivity tells the donors to the ranks that own parts of them.
LEMMA DonorsAreTold ==
    ASSUME AssemblyInv, DonorsInv, GenerateConnectivityData PROVE DonorsOfOwners'
  <1>1. /\ stage = "GenerateConnectivityData" /\ here' = here /\ here \in Cases
        /\ \A g : Cart(g)' = Cart(g)
    BY DEF GenerateConnectivityData, geometry, Cart, AssemblyInv, StagesTypeOK
  <1>2. PICK donor \in {ChosenDonors(distances) : distances \in {OverlapDistances}} :
          /\ receivers' = [id \in Connected(donor) |-> Receivers(donor, id)]
          /\ donors' = [id \in Connected(donor) |-> DonorsOfRanks(donor, id)]
    BY DEF GenerateConnectivityData
  <1>3. ASSUME NEW id \in DOMAIN donors', NEW r \in DOMAIN donors'[id]
        PROVE  OfOwner(Cart(id[1]), Points(here.grids[id[1]].local[r]), receivers'[id], donors'[id][r])
    <2> DEFINE cell == Receivers(donor, id)
    <2>1. /\ id \in Connected(donor) /\ receivers'[id] = cell
          /\ donors'[id] = DonorsOfRanks(donor, id)
      BY <1>2
    <2>2. /\ r \in DOMAIN here.grids[id[1]].local
          /\ donors'[id][r] = KnownDonors(id[1], r, cell)
      BY <2>1 DEF DonorsOfRanks
    <2>3. id \in Overlaps
      BY <2>1 DEF Connected
    <2>4. id[1] \in Grids
      BY <1>1, <2>3 DEF AssemblyInv, OverlapsFound, AllStages, Pairs
    <2>5. PICK S : cell = [p \in S |-> overlap[id][p]] /\ \A p \in S : p \in DOMAIN overlap[id]
      <3>1. cell = [p \in Served(donor, id) |-> overlap[id][p]]
        BY DEF Receivers
      <3>2. \A p \in Served(donor, id) : p \in DOMAIN overlap[id]
        <4> SUFFICES ASSUME NEW p \in Served(donor, id) PROVE p \in DOMAIN overlap[id]
          OBVIOUS
        <4>1. id = <<id[1], id[2]>> /\ id[2] \in Grids
          BY <1>1, <2>3 DEF AssemblyInv, OverlapsFound, AllStages, Pairs
        <4>2. PICK N \in Nat : Grids = 1 .. N /\ Cardinality(Grids) = N
          BY <1>1, CaseFacts
        <4>3. donor[id[2]] = [q \in ReceiverMask(id[2]) |-> Donor(id[2], q, OverlapDistances)]
          BY <1>2, <4>1 DEF ChosenDonors
        <4>4. p \in DOMAIN donor[id[2]] /\ donor[id[2]][p] = id[1]
          BY DEF Served
        <4>5. Donor(id[2], p, OverlapDistances) = id[1] /\ id[1] # 0
          BY <2>4, <4>2, <4>3, <4>4
        <4>6. MayServe(id[1], id[2], p)
          BY <4>2, <4>5, DonorIs
        <4>7. p \in overlapMask[id]
          BY <4>1, <4>6 DEF MayServe
        <4> QED
          BY <1>1, <2>3, <4>7 DEF AssemblyInv, OverlapsFound, AllStages
      <3> QED
        BY <3>1, <3>2
    <2>6. \A p \in DOMAIN cell : cell[p] \in Cells(Cart(id[1]))
      <3>1. \A p \in DOMAIN overlap[id] : overlap[id][p] \in Cells(Cart(id[1]))
        BY <1>1, <2>3 DEF DonorsInv, OverlapsInCells, InCells, AllStages
      <3> HIDE DEF cell
      <3> QED
        BY <2>5, <3>1
    <2> HIDE DEF cell
    <2> QED
      BY <1>1, <2>1, <2>2, <2>4, <2>6, KnownDonorsAre
  <1> QED
    BY <1>1, <1>3 DEF DonorsOfOwners

\* The other steps change neither.
LEMMA DonorsKept ==
    ASSUME AssemblyInv, DonorsInv, [StagesNext]_stageVars,
           ~DetectOverlap, ~GenerateConnectivityData
    PROVE  DonorsInv'
  <1>1. CASE InitializeAssembly \/ AssembleAgain \/ LookUpStray
    <2>1. stage' \in {"DetectOverlap", "InitializeAssembly", "stray"}
      BY <1>1 DEF InitializeAssembly, AssembleAgain, LookUpStray
    <2> QED
      BY <2>1 DEF DonorsInv, OverlapsInCells, DonorsOfOwners
  <1>2. CASE InferBoundaries \/ CutBoundaryHoles \/ LocateOuterFringe \/ DetectOccluded \/ MinimizeOverlap
    <2>1. /\ stage \in AllStages \ {"InitializeAssembly", "DetectOverlap", "stray"} /\ stage' # "done"
          /\ overlap' = overlap /\ here' = here
      BY <1>2 DEF InferBoundaries, CutBoundaryHoles, LocateOuterFringe, DetectOccluded, MinimizeOverlap,
         geometry, AllStages
    <2>2. Overlaps' = Overlaps /\ \A g : Cart(g)' = Cart(g)
      BY <2>1 DEF Overlaps, Cart
    <2>3. OverlapsInCells'
      BY <2>1, <2>2 DEF DonorsInv, OverlapsInCells, InCells
    <2> QED
      BY <2>1, <2>3 DEF DonorsInv, DonorsOfOwners
  <1>3. CASE Finished \/ UNCHANGED stageVars
    <2>1. stage' = stage /\ overlap' = overlap /\ here' = here /\ donors' = donors /\ receivers' = receivers
      BY <1>3 DEF Finished, stageVars
    <2>2. Overlaps' = Overlaps /\ \A g : Cart(g)' = Cart(g)
      BY <2>1 DEF Overlaps, Cart
    <2>3. OverlapsInCells'
      BY <2>1, <2>2 DEF DonorsInv, OverlapsInCells, InCells
    <2>4. DonorsOfOwners' <=> DonorsOfOwners
      BY <2>1, <2>2 DEF DonorsOfOwners
    <2> QED
      BY <2>3, <2>4 DEF DonorsInv
  <1> QED
    BY <1>1, <1>2, <1>3 DEF StagesNext

\* A rank of the donor grid has the record of a donor exactly if it owns a part of it, and
\* each receiver has one donor or is an orphan: an interpolation is summed once.
THEOREM ConnectionsWholeHolds == StagesSpec => []ConnectionsWhole
  <1>1. StagesInit => DonorsInv
    BY DonorsStart
  <1>2. AssemblyInv /\ DonorsInv /\ [StagesNext]_stageVars => DonorsInv'
    <2> SUFFICES ASSUME AssemblyInv, DonorsInv, [StagesNext]_stageVars PROVE DonorsInv'
      OBVIOUS
    <2>1. CASE DetectOverlap
      <3>1. stage' # "done"
        BY <2>1 DEF DetectOverlap
      <3> QED
        BY <2>1, <3>1, OverlapsAreInCells DEF DonorsInv, DonorsOfOwners
    <2>2. CASE GenerateConnectivityData
      <3>1. /\ stage \in AllStages \ {"InitializeAssembly", "DetectOverlap", "stray"}
            /\ overlap' = overlap /\ here' = here
        BY <2>2 DEF GenerateConnectivityData, geometry, AllStages
      <3>2. Overlaps' = Overlaps /\ \A g : Cart(g)' = Cart(g)
        BY <3>1 DEF Overlaps, Cart
      <3>3. OverlapsInCells'
        BY <3>1, <3>2 DEF DonorsInv, OverlapsInCells, InCells
      <3> QED
        BY <2>2, <3>3, DonorsAreTold DEF DonorsInv
    <2>3. CASE ~DetectOverlap /\ ~GenerateConnectivityData
      BY <2>3, DonorsKept
    <2> QED
      BY <2>1, <2>2, <2>3
  <1>3. AssemblyInv /\ DonorsInv => ConnectionsWhole
    <2>1. AssemblyInv => ReceiversServed
      BY DEF AssemblyInv, ReceiversFound, ReceiversServed
    <2>2. DonorsInv => DonorsKnownToOwners
      BY DEF DonorsInv, DonorsOfOwners, OfOwner, DonorsKnownToOwners
    <2> QED
      BY <2>1, <2>2 DEF ConnectionsWhole
  <1> QED
    BY <1>1, <1>2, <1>3, AssemblyInvariance, PTL DEF StagesSpec
=============================================================================
