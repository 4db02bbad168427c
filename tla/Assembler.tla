----------------------------- MODULE Assembler ------------------------------
(***************************************************************************)
(* What an assembler keeps about the domain it is bound to: options for    *)
(* grids and pairs of grids (Options_), and what the next assembly has to  *)
(* do (AssemblyManifest_).  It listens to the grid events of the domain    *)
(* and to the events of the components; the domain and its state component *)
(* are module GridComponent.  A component listens to grid events as well,  *)
(* and answers some of them by destroying objects, of which it tells the   *)
(* assembler in its turn: what comes of one step depends on whose grid     *)
(* listener has the lower ID and is called first.  IDs of listeners that   *)
(* are gone are used again, so an assembler that is bound gets one before  *)
(* or after the component's, by the history of the domain (hearsFirst).    *)
(*                                                                         *)
(* Options are collective and all ranks hear the same events (LogsAgree),  *)
(* so that the assembler's state is the same on all ranks and is kept once.*)
(* The program gives each grid a state before it destroys the grid, and    *)
(* ends an edit of the options while the assembler is bound, though maybe  *)
(* to another domain than when it began: the code looks at neither.        *)
(*                                                                         *)
(* A pair has one option here: the seven that default to nothing and that  *)
(* OnOptionsEndEdit_ takes from self pairs are treated alike.  That which  *)
(* defaults to true, DisjointConnections, is left out.                     *)
(***************************************************************************)
EXTENDS GridComponent

VARIABLES
    bound,      \* Domain_ is set
    editing,    \* OptionsEditor_ is active: somebody has a handle of Options_
    options,    \* Options_: GridIDs_, and the keys of its grid and pair options
    hearsFirst, \* GridEventListener_ has a lower ID than the component's
    manifest,   \* AssemblyManifest_: the grids and the pairs it holds
    behind      \* grids whose state has changed, while bound, since the last assembly

asmVars == <<bound, hearsFirst, editing, options, manifest, behind>>
vars == <<gridVars, asmVars>>

NoOptions == [ids |-> {}, grids |-> {}, pairs |-> {}]
NoWork == [grids |-> {}, pairs |-> {}]

Init ==
    /\ GridInit
    /\ bound = FALSE
    /\ hearsFirst = FALSE
    /\ editing = FALSE
    /\ options = NoOptions
    /\ manifest = NoWork
    /\ behind = {}
-----------------------------------------------------------------------------
\* options::AddGrids.
AddGrids(o, G) == [o EXCEPT !.ids = @ \cup G]

\* options::RemoveGrids: an option goes if any of its grids does.
RemovesByM(o, G) ==             \* matches the M grid of a pair only
    [o EXCEPT !.ids = @ \ G, !.grids = @ \ G, !.pairs = {p \in @ : p[1] \notin G}]

RemoveGrids(o, G) ==
    [o EXCEPT !.ids = @ \ G, !.grids = @ \ G,
              !.pairs = {p \in @ : p[1] \notin G /\ p[2] \notin G}]

\* A value that is not the default, for each of the grids, or pairs of grids,
\* that the IDs given stand for (ALL_GRIDS for all there are); or back to it.
SetForGrids(o, G) == [o EXCEPT !.grids = @ \cup G]
ResetForGrids(o, G) == [o EXCEPT !.grids = @ \ G]
SetForPairs(o, G, H) == [o EXCEPT !.pairs = @ \cup (G \X H)]
ResetForPairs(o, G, H) == [o EXCEPT !.pairs = @ \ (G \X H)]

WithoutSelfPairs(o, D) == [o EXCEPT !.pairs = @ \ {<<g, g>> : g \in D}]

\* All there is to do in a domain of the grids D.
AllWork(D) == [grids |-> D, pairs |-> {p \in D \X D : p[1] # p[2]}]

\* RemoveAssemblyManifestEntries_.
KeepsEntries(w, G) == w
RemoveEntries(w, G) ==
    [grids |-> w.grids \ G, pairs |-> {p \in w.pairs : p[1] \notin G /\ p[2] \notin G}]

\* OnStateEvent_, for the events of a step that happens while the grids are D.
IgnoresEdits(events, D, w) ==   \* acts on CREATE and DESTROY only
    IF \E i \in 1 .. Len(events) : events[i].flags \cap Edits = {} THEN AllWork(D) ELSE w

OnStateEvents(events, D, w) == IF events # <<>> THEN AllWork(D) ELSE w

Events == log'[CHOOSE r \in Ranks : TRUE]
StatesTold == {Events[i].id : i \in 1 .. Len(Events)}

\* A step of the component alone.
HearStates ==
    /\ manifest' = IF bound THEN OnStateEvents(Events, DomainGrids, manifest) ELSE manifest
    /\ behind' = IF bound THEN behind \cup StatesTold ELSE behind
    /\ UNCHANGED <<bound, hearsFirst, editing, options>>

\* domain::CreateGrids: the new grids are there when the events are triggered.
HearCreated(G) ==
    /\ options' = IF bound THEN AddGrids(options, G) ELSE options
    /\ manifest' = IF bound THEN OnStateEvents(Events, DomainGrids', manifest) ELSE manifest
    /\ behind' = IF bound THEN behind \cup StatesTold ELSE behind
    /\ UNCHANGED <<bound, hearsFirst, editing>>

\* domain::DestroyGrids: the dying grids are still there.  With the last of them
\* Update_ drops them, and the component, before or after, tells of their states.
HearDying(G) ==
    /\ options' = IF bound THEN RemoveGrids(options, G) ELSE options
    /\ manifest' = CASE ~bound -> manifest
                     [] bound /\ hearsFirst ->
                            OnStateEvents(Events, DomainGrids, RemoveEntries(manifest, G))
                     [] bound /\ ~hearsFirst ->
                            RemoveEntries(OnStateEvents(Events, DomainGrids, manifest), G)
    /\ behind' = IF bound THEN (behind \cup StatesTold) \ G ELSE behind
    /\ UNCHANGED <<bound, hearsFirst, editing>>
-----------------------------------------------------------------------------
\* Bind: an option entry for each grid, and the lowest listener ID that is free.
Bind ==
    /\ ~bound
    /\ bound' = TRUE
    /\ hearsFirst' \in BOOLEAN
    /\ options' = AddGrids(options, DomainGrids)
    /\ UNCHANGED <<gridVars, editing, manifest, behind>>

\* Unbind, also when the domain destroys one of the components.  The options
\* are reset; the assembly manifest stays, and so does an edit of the options.
Unbind ==
    /\ bound
    /\ bound' = FALSE
    /\ hearsFirst' = FALSE
    /\ options' = NoOptions
    /\ behind' = {}
    /\ UNCHANGED <<gridVars, editing, manifest>>

EditOptions ==
    /\ bound /\ ~editing
    /\ editing' = TRUE
    /\ UNCHANGED <<gridVars, bound, hearsFirst, options, manifest, behind>>

\* The Set and Reset functions, by way of a handle; each asserts its grids.
ChangeOptions ==
    /\ editing
    /\ \E G, H \in {{g} : g \in options.ids} \cup {options.ids} :
          \/ options' = SetForGrids(options, G)
          \/ options' = ResetForGrids(options, G)
          \/ options' = SetForPairs(options, G, H)
          \/ options' = ResetForPairs(options, G, H)
    /\ UNCHANGED <<gridVars, bound, hearsFirst, editing, manifest, behind>>

\* The last handle goes: OnOptionsEndEdit_, which asks the domain for its grids.
EndEditOptions ==
    /\ bound /\ editing
    /\ editing' = FALSE
    /\ options' = WithoutSelfPairs(options, DomainGrids)
    /\ manifest' = AllWork(DomainGrids)
    /\ UNCHANGED <<gridVars, bound, hearsFirst, behind>>

\* Assemble, as far as this state goes: it asserts that every grid has a state,
\* edits the flags of all of them in most of its stages, and clears the manifest
\* at the end.  When first run on a component it hears of the edits of its first
\* two stages; the edit of the component that the later stages and later runs
\* make stays open (edit_handle::Restore, see module Editor), and their flags are
\* set.
ToldOfEdits(r) == Batch(SortedInts(Records[r]), [g \in Records[r] |-> Edits], Present(r))

Assemble ==
    /\ bound
    /\ HaveStates(DomainGrids)
    /\ \/ log' = [r \in Ranks |-> ToldOfEdits(r)]
       \/ log' = [r \in Ranks |-> <<>>]
    /\ EventFlags' = [r \in Ranks |-> Locals[r] \X Edits]
    /\ unheard' = [r \in Ranks |-> DomainGrids \X Edits]
    /\ manifest' = NoWork
    /\ behind' = {}
    /\ UNCHANGED <<place, Records, Locals, bound, hearsFirst, editing, options>>

ComponentStep ==
    \/ (EndEdit \/ Clear) /\ HearStates
    \/ \E g \in GridIDs : (CreateOne(g) \/ DestroyOne(g)) /\ HearStates
    \/ \E G \in GridSets : (Create(G) \/ Destroy(G)) /\ HearStates
    \/ \E g \in GridIDs, f \in Edits : Edit(g, f) /\ UNCHANGED asmVars
    \/ \E G \in GridSets : \E P \in [G -> Placements] : CreateGrids(P) /\ HearCreated(G)

OptionsStep == EditOptions \/ ChangeOptions \/ EndEditOptions

Next ==
    \/ ComponentStep \/ OptionsStep \/ Assemble
    \/ \E G \in GridSets : HaveStates(G) /\ DestroyGrids(G) /\ HearDying(G)
    \/ Bind \/ Unbind

Spec == Init /\ [][Next]_vars
-----------------------------------------------------------------------------
\* The options know exactly the grids of the domain ("Invalid grid ID." asserts
\* it wherever one is read), and mention no grid that is gone: a new grid under
\* an old ID starts from the defaults, as does an assembler that is bound anew.
\* "No self-intersections": once nobody edits the options, ALL_GRIDS has never
\* made a grid overlap, cut or occlude itself.
OptionsFollowGrids ==
    /\ IF bound THEN /\ options.ids = DomainGrids
                     /\ options.grids \subseteq DomainGrids
                     /\ options.pairs \subseteq DomainGrids \X DomainGrids
       ELSE options = NoOptions
    /\ ~editing => \A g \in GridIDs : <<g, g>> \notin options.pairs

\* While the assembler hears of dying grids after the component, no step, however
\* late the component tells of a grid's state, leaves work for a grid that is gone,
\* or for a pair of one: what is stale was so when the assembler was bound (Unbind
\* keeps the manifest).  One that hears of them before the component (hearsFirst)
\* is told of their states once it has dropped them, and may well be left with it.
Stale(w, D) == [grids |-> w.grids \ D, pairs |-> w.pairs \ (D \X D)]

LeavesNoWork ==
    LET was == Stale(manifest, DomainGrids)
        is == Stale(manifest', DomainGrids')
    IN  is.grids \subseteq was.grids /\ is.pairs \subseteq was.pairs

NoWorkForTheGone == [][bound /\ bound' /\ ~hearsFirst => LeavesNoWork]_vars

\* A change of state that the assembler heard of is not lost before the next
\* assembly: the grid is to be done again, with every grid it may be paired with.
ChangesNoted ==
    bound => \A g \in behind :
        /\ g \in manifest.grids
        /\ \A h \in behind \ {g} : <<g, h>> \in manifest.pairs
=============================================================================
