# Overkit in TLA+

Overkit assembles overset grids and exchanges values between them on
distributed memory. Its ranks run one program over MPI; nothing in a rank runs
concurrently. What is hard about it lies in four places:

* protocols between ranks that do not know who talks to whom
  (`core/CommunicationOps`, the look-up of ranks in `core/Exchanger.cpp`, the
  search for overlap, the rendezvous in `extras/XINTOUT.cpp`);
* data in pieces on many ranks, with halos and periods, that must come out as
  if it were in one place (`core/Halo`, `core/Collect*`,
  `core/DistributedFieldOps.cpp`, `core/Geometry.cpp`);
* data replicated on all ranks that must stay the same although every rank
  edits only its part, and objects that bring derived data up to date after
  chains of events (`core/*Component.cpp`, `core/Exchanger.cpp`,
  `core/Assembler.cpp`);
* the stages of an assembly, each of which rests on what the ones before left
  (`core/AssemblerAssembly.cpp`).

The modules in this directory model those. Paths below are relative to
`src/src/`; README line numbers are those of `src/README.md`.

## Inventory

| Component | State it keeps | Operations | What makes it correct |
|---|---|---|---|
| `signal` (`core/CommunicationOps`) | a pending `MPI_Ibarrier`, or three requests and two counters | `Start`, `Check` | set only after all have started; set on all in the end; usable again |
| `DynamicHandshake` | list of targets, send requests, the ranks matched so far | one collective call | the result is the transpose of the lists |
| `overlap_component`, `connectivity_component` | records on all ranks, M and N sides, event flags | Create, Destroy, Clear, Edit, Resize, StartEdit/EndEdit, answers to grid events | ranks agree; edits are told once; listeners find what they are told of |
| `geometry_component`, `state_component` | records on all ranks, local objects, event flags | the same | the same |
| `editor`, `edit_handle` | reference count, active flag | Edit, copy, move, destroy, Release, Restore | active exactly while held; changes announced |
| `event`, `event_listener_handle` | map of listeners | AddListener, Reset, Trigger | who is missed, and stays bound, when others leave |
| `domain` | grids, components, their editors and events | Create/Destroy grid and component, Edit/RestoreComponent | who edits has something to edit; who is bound hears of the end |
| `exchanger` | entries per pair, source and destination ranks, maps, exchanges, `UpdateManifest_` | Bind, Unbind, listeners, `Update_`, CreateSend ..., Send, Receive | derived data follow edits; partners find each other; values arrive |
| `request`, `WaitAll`, `WaitAny`, `send`, `recv` | MPI requests of composite requests, buffers, tags | Send, Receive, Wait | messages meet the receives they are for, whichever complete first |
| `assembler` | options, `AssemblyManifest_` | Bind, Unbind, EditOptions, listeners, Assemble | options and work follow the grids |
| assembly stages | flags, masks, overlap, occlusion, receivers | the stages of `Assemble` | stencils, donors and receivers fit together, and again in the next assembly |
| overlap search, region hashes | fragments, bins, slots of buffers | `DetectOverlap_` | every point finds its best cell; both sides agree |
| `cart`, decomposition, `halo`, `collect`, distributed fields | ranges, maps, buffers | exchange, collect, edge, dilate, erode, flood | as in one place |
| `geometry`, `state` of a grid | coordinates, volumes, flags, with halos | edits | as in one place |
| XINTOUT import | chunks of records, bins, local donors and receivers | `ImportXINTOUT` | imported as written, or thrown out everywhere |
| contexts, logger, profiler, C bindings, interpolation | handles, floating-point data | wrappers, I/O, arithmetic | thin, or out of reach |

Who calls whom: the *domain* triggers grid events; *components* answer them and
trigger events of their own; *exchangers* and *assemblers* listen to the
domain's component events (to unbind in time), to its grid events and to their
components' events. Exchangers, the overlap search and the import find ranks by
*DynamicHandshake*, which ends by *signal*; exchangers transfer values by
*send* and *recv*. The *assembler* runs the overlap search and the stages, which
are made of operations on distributed fields, collects and disperses; it edits
components, so its work comes back to it as events.

Operations of domain, components, exchanger and assembler are collective and
lie between barriers: in `PairComponent`, `GridComponent`, `Exchanger`,
`Assembler` and `Domain` each is one step, of which every rank does its part
from what it alone knows. In `SignalFallback`, `Handshake`, `Transfer`,
`Fields`, `OverlapSearch` and `XINTOUT` ranks really overtake one another, and
there every message and every poll is a step. `Assembly` is on top of these:
its masks are in one place, and one stage is one step.

## Modules

**Handshake and signal** (`core/CommunicationOps.cpp`)

* `Signal` - the promise of `signal`: what `MPI_Ibarrier` does, use after use.
* `SignalFallback` - the version without `MPI_Ibarrier`. Each poll of `Check`
  that does something is a step: the other ranks' test of their second message,
  the root's count of first messages from any source, its receives of the
  second ones, its end with the reset.
* `RankExchange` - the promise of `DynamicHandshake`: a call's result is the
  set of ranks that named the caller.
* `Handshake` - the call itself: `Enter` (local match, synchronous sends),
  `Receive` and `ProbeNothing` (the `MPI_Iprobe` loop), `TestSends`
  (`MPI_Testall`, start of the signal), `CheckSignal` (end of the call), and the
  network's `Deliver` and `Acknowledge`. A message carries the call it belongs
  to, which stands for the duplicated communicator.
* `Handshake_proofs` - theorems about the call and about the fallback of the signal.

**Components, domain, editor** (`core/*Component.cpp`, `core/Domain.cpp`,
`core/Editor.inl`, `core/Event.inl`)

* `KeyOrder` - the order in which sets and maps are walked. `Events` - a batch
  of events, in key order, of which the last says so. `Events_proofs` - lemmas
  about both, which the theorems on components, domain and exchanger share.
* `PairComponent` - overlap and connectivity components. `Records[r]`,
  `LocalMs[r]`, `LocalNs[r]` and `EventFlags[r]` are the members on rank r;
  `SyncEvents` and `ReducedFlags` are `SyncEdits_`, which every collective
  operation begins with. `unheard` (edits the listeners have not been told of)
  and `log` (events of the last operation, with what a look-up would have found
  at that moment) are there for the properties.
* `GridComponent` - geometry and state components, in the same form.
* `ComponentEvents` - listeners of a component's events, who take themselves
  out of the map while `Trigger` walks it. The listener behind one that leaves
  slides into its place and is missed, and the walk goes on to where the map ended
  at first: what it finds there is an entry that was moved from and destroyed
  (`Astray`), and calling it ends the program (`CallNobody`).
* `Editor` - reference counting by handles, `Release` and the owner's `Restore`
  without a handle, and the C bindings' release at once.
* `Domain` - extends both: components that come, are edited and go. The end of
  an edit runs `Trigger`, and the handle comes back when all have been called.
  `Domain_proofs` - its theorems and those of the editor.

**Exchanger** (`core/Exchanger.cpp`, `Send.cpp`, `Recv.cpp`, `Request.cpp`)

* `Exchanger` - extends `PairComponent`; each component step is followed,
  within the step, by the exchanger's answers to the events (`Listen`). A
  derived datum (source and destination ranks, maps, exchanges) is represented
  by the edits it is behind. `Exchanger_proofs` - theorems about it and the
  component under it.
* `RankLookup` - `UpdateSourceDestRanks_` message by message. Each rank is in
  a stage (`stage[r]`): `Gather` (local donors and receivers), `StartCounts`
  (after the two handshakes, used by their promise), and the three
  `MPI_Waitall`s: `WaitCounts`, `WaitIndices`, `WaitRanks`.
* `Requests` - send and receive maps, orders, tags, MPI's matching of messages
  with posted receives, and `Wait`, `WaitAll`, `WaitAny` over composite requests.
* `Transfer` - puts them together: look-up, then rounds of sends, receives and
  disperses on several exchanges, as a program for each rank. `Transfer_proofs` -
  theorems about the look-up and about what arrives.

**Distributed fields** (`core/Cart.inl`, `Decomp.cpp`, `Halo.*`, `Collect*`,
`DistributedFieldOps.cpp`, `UnionFind.hpp`, `Geometry.cpp`, `State.cpp`)

* `Decomp` - ranges, carts, neighbours, halo maps and collect maps as pure
  operators, in two dimensions.
* `Masks` - what the operations on masks promise, in one place.
* `UnionFind` - union by rank and `Relabel`.
* `Fields` - each rank runs a program of operations (edge, dilate, erode,
  collect, flood) on its part. An exchange posts, copies, and takes messages as
  they come; `MPI_Scan`, `MPI_Allgatherv` and `MPI_Allreduce` wait for those who
  contribute.
* `GridData` - adds edits of coordinates and flags, periodic lengths and
  volumes.

**Assembler** (`core/Assembler.cpp`, `AssemblerOptions.cpp`,
`AssemblerAssembly.cpp`, `OverlapAccel.cpp`, `RegionHash.inl`,
`DistributedRegionHash.inl`)

* `Assembler` - extends `GridComponent`: options, their edit, the manifest, and
  the answers to grid and state events in the order in which listeners are
  called. Listener IDs are used again (`core/ID.hpp:12`), so that by the history of
  bindings the assembler hears of dying grids before or after the component
  (`hearsFirst`, chosen by `Bind`). `Unbind` leaves the manifest to the next binding.
* `RegionHash` - the distributed hash of regions, with exact fractions.
* `OverlapSearch` - `DetectOverlap_` on all ranks: fragments, hash, who connects
  to whom, the loop of slots, signals and transfers, the search tree, and the
  filling of the overlaps. `OverlapSearch_proofs` - theorems about the loop.
* `Assembly` - the stages: `InitializeAssembly`, `DetectOverlap` (the overlap is
  given, its masks are made), `InferBoundaries`, `CutBoundaryHoles`,
  `LocateOuterFringe`, `DetectOccluded`, `MinimizeOverlap`,
  `GenerateConnectivityData` with the donors' records by rank, and
  `AssembleAgain` with other options. `LookUpStray` is where the stages leave the path:
  a mask is looked up that was never made.
* `Assembler_proofs` - theorems about `Assembler` and the component under it, and
  about `Assembly`.

**XINTOUT** (`extras/XINTOUT.cpp`)

* `Chunks` - who reads how much. `DecompHash` - who holds a point
  (`core::decomp_hash`).
* `XINTOUT` - a rank's program of operations from the headers to the
  connectivities, with errors that make it skip some; records meet in bins and
  go to the ranks that hold their points. `XINTOUT_proofs` - theorems about who
  throws and that nobody is left waiting.

`MCExchanger`, `MCTransfer`, `MCFields`, `MCOverlapSearch`, `MCAssembly` and
`MCXINTOUT` only define values of constants.

## What the runs check

| Run | Instance | What it shows |
|---|---|---|
| `signal_fallback` | 4 ranks, 3 uses; 317 states | `ImplementsSignal`: the two messages per rank do what a barrier does; `EveryUseCompletes` |
| `handshake` | 2 ranks, 2 calls; 16,257 states | `ResultIsTranspose`, `ImplementsExchange`, `EveryCallReturns`, for all target lists, a rank itself among them |
| `exchanger` | 3 grids on 2 ranks, 2 pairs that share a grid; 86,456 states | component: `RecordsAgree`, `NoEditForgotten`, `ListenersFindTheirWay`; exchanger: `EntriesInOrder`, `DerivedFollowsEdits` |
| `transfer` | 3 ranks, 4 points; 240,394 states | `StagesMatch`, `PartnersFound` (look-up); `MessagesMatch`, `ValuesArrive` (send, receive, wait, disperse) |
| `domain` | 3 users, 2 components, 3 handles; 59,277 states | `IInv` (the editor is in good order), `OnlySlidAreMissed`, `OnlySlidStayBound` |
| `assembler` | 2 grids, 2 ranks; 144,236 states | `OptionsFollowGrids`, `NoWorkForTheGone`, `ChangesNoted`; of the component: `RecordsAgree`, `NoEditForgotten` |
| `fields` | 2 to 4 ranks, line, ring, doubled ring, tube, torus; 41,268 states | `MasksAsInOnePlace`, `EdgesAsInOnePlace`, `LabelsAsInOnePlace`, `CollectsAsInOnePlace`, `GeometryAsInOnePlace` |
| `overlap_search` | 3 pairs of grids on 2 and 3 ranks; 71,752 states | `SlotsHoldTheirFragment`, `FragmentsSearchedOnce`, `OverlapAsInOnePlace`, `SidesAgree`, `LoopsEnd` |
| `assembly` | box in box, ring around a body, speck on a plate, nested boxes, with options in combination, two assemblies each; 1,202 states | `StartsFromUserFlags`, `StencilsComplete`, `ConnectionsWhole`, `DonorsAreNoReceivers`, `InnerFringeOccluded` |
| `xintout` | 3 ranks, files of one and two grids, good and faulty; 17,013 states | `ImportedAsWritten`, `AllThrowOrNone`, `SomebodyGoesOn` |
| `pair_clear` | violation | `NoneAlreadyExists`, see Findings |
| `overlap_masked` | violation | `CollectsMatch`, see Findings |

Each property of a passing run has a mutant of a mapped definition, in
`PROJECT.json`, which the same run finds out.

### Bounds, and why they are enough

* `signal_fallback`: `NumProcs = 4` gives three others, so that the root's first
  receives (from any source) and second ones (in order of rank) differ; three
  uses (`MaxUses`) let messages of three consecutive uses be told apart.
* `handshake`: the hazard is the boundary between two consecutive calls
  (`NumCalls = 2`) and a fast rank against a slow one. More ranks or calls are
  left to the theorems.
* `exchanger`: `Chain` is two pairs that share a grid as the M side of one and
  the N side of the other. `EditsMade`, `Resized` and `ExchangesMade` name one
  edit, one side and one exchange of each kind: all of one pair are handled by
  the same code. `MaxCleared = 2` is the number of records up to which clearing
  works; `pair_clear` has 3.
* `transfer`: four points over three ranks: the linear partition is rounded up
  (two points to a rank) and the last rank owns none. Only the first and the
  last point are used. `Layouts` lists who has which corner and receiver, which
  ranks are known beforehand, the exchanges, the order of the calls of each rank,
  the number of rounds (one or two), the way of waiting and whether sends are
  buffered.
* `domain`: with three users a listener has one before it and one after it, each of
  which may leave in the same walk: the one behind it slides, and the walk runs past the
  last entry if the one that leaves is not that. `MaxReleased` bounds the references
  released and not yet restored.
* `assembler`: two grids make the pairs of both kinds (with itself and with
  another); a grid lies on the first rank or on both. Bindings follow each other in
  either order of listeners, with a manifest that is clear or not.
* `fields`: halos are two points deep below a rank and three above it (two cells
  either way). Most ranks are three points wide, so that the halo of one reaches no third.
  `FloodsOnNarrow` has three ranks of two points: the halo of the first reaches the
  third, which is no neighbour and sends it nothing, and -1 is read as a label. Collects
  and geometry are on ranks of three points, as are those of the edges that are
  compared. `InQuarters` has ranks that meet in a corner, and `Tube` a rank that is its
  own neighbour.
* `overlap_search`: `MinCells`, `MaxCells`, `NumCellsLeaf` and `MaxTransfers`
  stand for the constants in the code (fragments of cells, cells in a leaf of the
  tree, slots); with two of each there are more fragments than slots and trees
  with more than one leaf. `Parts` is the number of messages of a fragment. Where
  there are two signals of a rank at a time, `Testsome` lists them in either order.
* `assembly`: grids of 8 to 13 points a side: fringes of two, paddings of one
  and smoothings of one do not fill them, and the ring is periodic. Nested boxes
  are assembled with their overlap minimized and without: without, receivers lie
  deeper than distances are measured.
* `xintout`: chunks are divided among one to three readers. A bin has room for as
  many connections as there are points to a rank: most files have few, and all of
  them meet in one bin. Those of `SeveralBins` have seven in bins of three and eight in
  bins of six, so that a reader's records go to several bins, in turns, and answers
  come back from several. Faults are in the global header, the header of a grid, the size of a side or the data of a side,
  also in both grids at once; a file of one connection and three readers has a
  chunk that begins behind the records.

### Fairness and deadlock

Fairness is assumed in three runs, and only of what the code does in a loop that
it does not leave before it has succeeded, or of the MPI library:

* `SignalFallback`: every rank polls `Check` until it returns true, as
  `DynamicHandshake` and the overlap search do; each poll's branches are weakly
  fair. Nothing makes a rank *start*: `EveryUseCompletes` has that as premise.
* `Handshake`: a rank within the call turns its loop (`Step`), and the library
  delivers messages and acknowledges matched synchronous sends (`Network`).
* `OverlapSearch`: some rank in the transfer loop goes on, and the library
  delivers; no rank in particular is favoured. `LoopsEnd` is about loops in which
  signals are listed in order (see below).

Deadlock is checked in all passing runs but `domain`: `Finished` (`Done`) is the only step of
a program that is through, and is enabled in no other state. In `Exchanger` and
`Assembler` programs do not end. `Domain` is not checked for it, because there the
program may end in the middle of a walk (`CallNobody`). The two violation runs look for
one state only and do not check for deadlock.

### What the models assume of the program

* A grid is given a state and a geometry before it is destroyed: every dying
  grid is handed to `DestroyStates`, which asserts that it has one
  (`core/StateComponent.cpp:97`).
* An edit of an assembler's options ends while the assembler is bound, be it to
  another domain than when it began: its end asks the domain for its grids
  (`core/Assembler.cpp:261`). An assembler may be unbound in the meantime.
* A component is destroyed only when nobody edits it (`core/Domain.cpp:388` does
  not ask).
* `edit_handle::Restore` is not called.
* In the look-up there is one connectivity, each point is received once, and
  ranks are known on both sides of a point or on neither. `LayoutsAssumption`
  says so: a used point has a donor, stored on one rank or two, of which one has
  the lower corner of its cell, and a receiver on one rank.
* In a transfer, exchanges on the same connectivity have tags that differ, and a
  rank's program makes each of its requests once a round, among them those its
  donors and receivers are for. `ExchangesAssumption` says so.
* `CasesAssumption`: grids are numbered from 1, their carts are not empty and of
  unique storage (`CartOK`; `grid::params::SetCart` asserts it, `core/Grid.cpp:236`),
  fringe sizes are not negative (`core/AssemblerOptions.cpp:303`), flags are of
  points of their grid, and there is at least one assembly. The local ranges of a
  grid are not empty (`grid::params::SetLocalRange`, `core/Grid.cpp:275`), within its
  range, and each point is in one of them (`LocalOK`): the code does not check that,
  but asks for the rank of a point and takes the first it finds
  (`core/Decomp.cpp:91`).
* `OverlapSearchAssumption`: there are finitely many grids, ranks and grids have
  numbers, bounds of local ranges are integers, and there is at least one slot and
  one message of a fragment.
* Collects are not done on carts of duplicated storage.
* What the overlap search promises rests on the MPI library: a rank answers signals
  in the order in which `MPI_Testsome` lists them (`core/AssemblerAssembly.cpp:1485`),
  which MPI leaves open, and the receives of the fragments are posted in the order in
  which the signals were sent. Messages of a fragment say nothing else, so they meet their
  receives if signals are listed in that order, as libraries do that go through the
  array of requests by index. The model lists them in any order (`Listings`) and notes
  if it was another one (`inOrder`). `SlotsHoldTheirFragment`, `OverlapAsInOnePlace`,
  `SidesAgree` and `LoopsEnd` are about searches in which it was not;
  `FragmentsSearchedOnce` is about all.
* No cell that is inactive touches the border between two ranks in the passing
  run of the overlap search (see Findings).
* Files of the import are well formed apart from the faults that are named.
  `FilesAssumption` says what that is: every connection's number leads to a bin
  there is, a chunk that does not begin behind the records is a part of them, and
  opening a file fails for all who open it together. `SomebodyGoesOn` is about files
  whose unreadable parts are of the grid that each of its ranks reads last
  (`UnreadableLast`), as those of the run are; with others the code does not come
  to an end (see below). Files are two-dimensional in the run.

And the data are abstracted so: coordinates are integers and grids uniform or
rectilinear, divisions in hashes exact fractions; the three exchanges of
coordinates are one message; the flag of a resize is not told apart from that
of an edit of extents or points; a value sent is the set of what has gone into
it.

## What is proved

`tlapm` checks the eight `_proofs` modules. None assumes more of the constants
than the named `ASSUME`s of the modules they extend.

* `Handshake_proofs`, for any set of ranks, any lists and any number of calls.
  The invariant `IInv` says that the messages posted are those that the lists ask
  for, that those matched are the ranks heard of, that nothing of a call exists
  before a rank enters it, that a rank starts the signal after all of its sends
  are matched, and that it returns after all have started. It is needed because
  `ResultIsTranspose` is about ranks that have returned, and says nothing of how
  they came to know. One lemma per action (`EnterInv` ... `AcknowledgeInv`) keeps
  it; `HandshakeCorrect`, `HandshakeClean` and `TypeCorrectness` follow.
  `HandshakeImplements` shows that each step is one of `RankExchange` or none
  (`EnterRefines`, `InsideRefines`, `LeaveRefines`).

  Then the fallback of the signal, for any number of processes and uses. `SignalInv`
  accounts for the mail: a rank is in one use at most, its first message is in the
  mail or counted, its second is in the mail or received, and `NumCompleted_` is the
  number of those counted in this use (`MailAccountedFor`, `RootInOrder`;
  `SignalInvariance`). Thus when the root has counted all, all have started
  (`AllCounted`), and a rank that starts again finds the mail empty
  (`StartsWithEmptyMail`). `FallbackImplements`: every step is one of `Signal` or none.
* `Domain_proofs`, of the editor, for any finite set of handles: `Invariance` (the count is that
  of the references, the editor active while there are any, changes announced when
  there are none), `EditsEnd`, `EditsAnnounced`. `DecrementInv` and
  `IncrementInv` are the two lemmas; the rest is counting (`HolderCount`).
* `Events_proofs` has no theorem of its own to show. A set sorted by a strict
  order is a sequence of just its elements, each once (`SortedInOrder`); so a
  batch ends with its last event and no other, depends on the set alone, and of
  two batches the events stay in order when they are joined (`BatchIsWhole`,
  `BatchesHeardAlike`, `JoinedInOrder`), and an element comes after as many as are
  before it in the order (`SortedAt`). `UpTo` is induction over a walk: what
  holds at first and after each step holds to the end.
* `Domain_proofs`, of the domain, for any components and any finite set of users.
  `DomainImplementsEditor`: what the domain does to an editor is what editors do;
  `DomainInvariance` is thus the editor's theorem. `ComponentOutlivesEdits`:
  whoever holds a handle has a component to edit, through all walks of `Trigger`.
  `EventsInvariance`, whoever leaves during a walk (`WalkOK`): each listener that has
  left has moved those behind it by one place (`Slid`), those that are ahead of the walk
  are where they were less that many places (`Ahead`), and those it has passed have been
  called unless they are right behind one that left (`Passed`); whoever was called for
  the end of a component is no longer bound to it (`CalledLetGo`). From it follow
  `NoOthersAreMissed` and `NoOthersStayBound`. That nobody is missed at all and no walk
  goes astray is not so in the code. It is so in programs that destroy a component only
  when the last of the listeners alone has to unbind (`LetsGoLast`, `KeptWhole`);
  `UsersHaveComponents` has that as its hypothesis.
* `Assembler_proofs`, of the assembler, for any grids on any ranks and any edits, in two parts. In
  every state the records of the component are the same on all ranks and the
  objects are where the grids are (`RecordsFollowGrids`), the options mention the
  grids of the domain and no others (`OptionsAreOfGrids`). The invariant `IInv` is
  these two with types. `WorkIsOnGrids` is about steps: an assembler that hears of
  dying grids after the component is left with no work on them, and with no more stale
  work than it was bound with. For these, events are left
  unexpanded: whatever they say, the answer is either all work on the present grids
  or what there was. The second part is about what they say. `TellsOK`: flags are
  on objects that exist, an edit that is unheard of is flagged somewhere, and the
  events of a step are in order on all ranks; `WorkOK`: what a bound assembler was
  told of is in its manifest. From these follow `RanksHearAlike`,
  `EditsRemembered` and `ChangesStayNoted`.
* `Assembler_proofs`, of the stages of an assembly, for any two-dimensional grids
  and periods, any flags, overlap and options, and any number of assemblies one
  after another. The invariant `AssemblyInv` (`AssemblyInvariance`) says what each
  stage can rest on. `FlagsKept`: what is active now, was cut as a hole or removed
  by minimization is together what the user called active, and domain boundaries
  that are not inferred are the user's; from it an assembly can go back
  (`StartsFromUserFlagsHolds`), however the last one ended. It is needed because the
  property is about one stage, and what is undone there was done many stages
  before. `FlagsPending`: which flags are not set yet. `MasksOfFlags`: masks that
  stages update by hand are those of the flags. `OverlapsFound`, `OcclusionFound`:
  overlap is of points that were active, occlusion of overlapped ones. `FringeFound`
  and `OverlapMinimized`: fringes are of masks that are still so, and stencils
  (`StencilsOf`) and donors (`DonorsActive`) are whole once the overlap is minimized.
  There is a lemma for each stage (`InitializeKeeps` ... `GenerateKeeps`). Two facts
  about masks carry the rest. `Reached`: so many layers of dilation cover all points
  of a square of that many to a side, across periodic sides too; a point that is not
  received is thus nowhere near the end of the active part (`BeyondEdge`,
  `OuterFringeHas`) or what was removed (`InnerFringeHas`), and
  `StencilsCompleteHolds` follows. `Opening`: what layers of dilation around points
  cover was there before that many layers were eroded; the inner fringe is thus of
  occluded points (`InnerFringeIn`), and `InnerFringeOccludedHolds` follows. Under
  both is the arithmetic of periods: points that are periods apart are moved to one
  point (`AdjustSame`), and neighbours of theirs are again periods apart (`Moved`).
  `Dilate`, `Erode` and `Donor` count to a number; `Steps` gives such a function a
  step at a time, and `DilateIs`, `ErodeIs` and `DonorIs` say what it is.
  `ReceiversServedHolds` follows from `DonorIs`: a receiver has the pair of the donor
  that was chosen and no other. That the ranks of a donor's points know of it, and
  no others, is the rest of `ConnectionsWholeHolds`, for any decomposition. Its
  invariant, `DonorsInv`, adds to `AssemblyInv` that overlaps are of cells of the
  grid (`OverlapsInCells`). The rest is about one cell (`KnownIs`): it has an owner
  (`OwnerIs`), to whom any other rank with a corner of it is a neighbour, across a
  periodic side too (`NeighborHas`); and the range that such a rank makes of the
  cell (`RangeInRange`) is an image of its corners that meets its own range, whichever
  of the three ways it is found, and is there whenever one of the corners is
  (`ImageMet`, with `MapIs`, `CornerReached` and `ShiftedImage`).
* `Exchanger_proofs`, for any grids, ranks, pairs and edits, in three parts.
  `PairOK` (`PairInvariance`) holds however many records are cleared: sides are
  those of records, records are of grids that exist and the same on all ranks,
  flags are on sides, an edit that is unheard of is flagged on a rank that made it,
  and every step's events are in order (`EditsRemembered`). `SidesOK`
  (`SidesInvariance`) says besides that the sides are just those that the records
  call for and that listeners find them. It holds only if no more than two
  records are ever cleared at once: the hypothesis `MaxCleared <= 2` of these
  theorems is where finding 1 begins (`TwoAreErased` is the lemma that fails for
  three). `RanksHaveTheirSides` and `ListenersServed` follow. `ExchangerOK`
  (`ExchangerInvariance`) is about the exchanger: bound, its entries are the sides
  of the component; nothing is left noted and no look-up failed (`Orderly`); and
  it is behind only by edits still flagged (`Follows`). Its proof follows an
  answer through a log: what a batch notes is the union of what its events say
  (`AllNoted`), `Update` brings the exchanger from the sides before to those after
  and takes account of all that was noted (`UpdateKeeps`), and the three batches
  there are (of edits, of beginnings, of ends) note what they should
  (`SyncAnswered`, `BeginningAnswered`, `EndAnswered`). `EntriesStayInOrder` and
  `DerivedDataFollows` follow.
* `Transfer_proofs`, for any number of ranks and points, any layout and however
  ranks overtake each other. The invariant `LookupOK` (`LookupInvariance`) says
  that all of the look-up's state follows from the layout and from how far each
  rank is: which points a rank registers (`RegistersOK`), what is on its way
  from one rank to another (`ChannelOK`: of the three messages meant, those the
  sender has posted and the receiver not taken, in that order), what an owner
  knows (`RecvsOK`) and which ranks are found (`RanksOK`). No rank takes what
  was not sent (`TakenWasSent`), and none is past the handshakes before all have
  entered them (`NobodyAhead`), so that what is registered no longer changes once
  somebody is told of it. `ChannelMoves` is what the posting and taking of a rank
  does to all lines at once, and there is a lemma for each stage. An owner can
  answer because a point is registered by one rank a side (`OneRegisters`) and
  has one owner (`OwnerExists`), who then knows both (`OwnerKnows`).
  `ExchangesStayInStep`, `DonorsFindReceivers` and `OwnersKeepToTheirPart` follow.

  Then the transfers, for any exchanges, rounds and programs of the ranks.
  The invariant is `TransferOK` (`TransferInvariance`). Between two ranks all
  follows from how often the one has called each of its sends and the other each
  of its receives (`MailOK`, with `Mail`): a message is on the wire when it is
  sent and its receive not called, a receive waits when it is called and its
  message not sent, and a buffer holds the message of the receive called last if
  that is sent. A send or a receive takes one such state to the next
  (`MailQueued`, `MailHandedOver`, `MailExpected`, `MailTaken`), because tags tell
  exchanges apart (`TagsDiffer`), because both ends put the points they share in
  one order (`EndsAgree`), and because nobody is in a round before those who send
  to it have sent all of the last (`InStep`): a receive that waits is the only one
  of its exchange, and finds its buffer empty. `TakenOK` says that what is no longer
  waited for has come, so that a completed receive has the values of its round
  (`ValuesOK`) and a disperse brings them into the grid (`FieldOK`).
  `MessagesMeetTheirReceives` and `ValuesReachTheirReceivers` follow.
* `OverlapSearch_proofs`, for any grids on any ranks, whatever the bins lead to, any
  number of slots and of messages of a fragment, and however ranks, signals and
  messages overtake each other. No message says which fragment it is of, and a
  receive of a slot names a rank only. The invariant `SearchInv` (`SearchInvHolds`)
  is about the transfer loop: it says in which place each message and receive is.
  What a rank asks of another are the fragments from there, in order; the nth of
  them has the places `Parts * (n - 1) + 1` to `Parts * n` (`Place`). `WorkOK`: the
  two ranks have the same fragments in the same order, although each has them from
  a different list and one sorts them by the rank they go to, the other by the rank
  they come from (`SentIs`: as many come before one here as there). `PairOK`,
  between two ranks, and as long as signals are listed in the order in which they were
  sent: every fragment asked for is signalled and under way,
  signalled and not yet seen, or answered; the messages on the wire are in places
  one after another (`LineOK`), and so are the receives posted, beginning where the
  messages that have come end (`PostOK`). A part that is not there has its
  receive still posted, one that is there has the fragment of its slot. `RankOK`,
  in whatever order signals are listed: slots hold different fragments, of those asked for; none is free while there are
  fragments left; searched are those asked for and no longer in a slot. There is a
  lemma for each thing that moves: a signal (`PairSignalled`), an answer
  (`PairAnswered`), a message that finds a receive (`PairMeets`, `PairReceives`),
  a slot that is emptied (`PairFrees`, `RankFrees`) and filled again (`PairRefills`,
  `RankRefills`). `SlotsHoldTheirFragmentHolds` and `FragmentsSearchedOnceHolds`
  follow. The invariant is needed because the first property is about buffers
  only, and a message in the wrong place would be found in no buffer yet.
* `XINTOUT_proofs`, for any number of ranks, any grids on any of them, however the
  reading is divided and whatever cannot be read by whom. The invariant `ImportInv`
  (`ImportInvHolds`) says what the file decides: which operations a rank comes to
  (`Reaches`), and with an error in which (`Erring`). `InProgram`: a rank has come to
  all of them up to the one it is at, in the order of the program, which is by phase,
  by grid and by part of a grid (`Earlier`). `Told`: the error it has come with to
  each is there exactly if the file says so. It is needed because
  what a rank is told in an operation, is what the others had when they came to it,
  perhaps long ago. `Members` of an operation come to it together or not at all where
  their errors are shared: an error that one of them meets is all of theirs
  (`SharedError`, `SizeError`, `ReadError`, together `ErrorMeans`), and an error that
  is all of theirs leads each of them to the same place (`SplitLeads` ...
  `CreateLeads`, together `OpsLead`). `RecordsLead`: the records a rank has read lead
  to bins there are, so that it waits for nobody who does not take part
  (`AwaitedTakePart`). From the invariant, `AllThrowOrNoneHolds`: what a rank has at
  the end is an error exactly if there is something that cannot be read
  (`FaultsFail`), among which is a chunk that begins behind its records (`Behind`),
  although nothing is wrong with its file. And `SomebodyGoesOnHolds`: of the operations that ranks are at, one
  is the earliest (`SomebodyIsLast`), and all who take part in that have come to it
  (`ReachedByAll`, where `UnreadableLast` is needed). What is read and made of it is
  not followed: of the records only that they lead somewhere.

### Only model-checked

* Liveness: `EveryUseCompletes`, `EveryCallReturns`, `LoopsEnd`. The
  prover does not handle fairness or `ENABLED`.
* What is computed over data: the distributed fields, geometry, the cells that the
  overlap search finds (`OverlapAsInOnePlace`, `SidesAgree`), the records of the
  import (`ImportedAsWritten`). These are folds and recursive definitions
  (labels, fills, searches, trees), whose results for every input would take
  induction over data, which is out of the prover's reach.
* Of the stages: which points holes, occlusion and distances are made of is left
  unexpanded. `DonorsAreNoReceivers` is about distances and is left to the run. It
  says what the code does: with `DisjointConnections`, no corner of a donor is a
  receiver, or all of them lie deeper among receivers than distances are measured
  (`DeepReceivers`; see below).
* `RanksHaveTheirSides`, `ListenersServed` and what rests on them are proved for
  at most two records cleared at once; for three the run `pair_clear` shows that
  they fail.

## Findings

1. `ClearOverlaps` and `ClearConnectivities` pass a view of the key set that the
   callee erases from. With three records one survives, and the next
   `CreateOverlaps` of that pair meets "Overlap (%i,%i) already exists."
   (`core/OverlapComponent.cpp:289`). Run `pair_clear`.
2. A rank whose own cells are all inactive drops its range of cells
   (`core/AssemblerAssembly.cpp:353`), is asked for no fragments, and is not told
   of donor cells that it shares with a neighbour; in a collect over the overlap
   the neighbour waits for what it does not send. Run `overlap_masked`.

### What the code does otherwise

Read while modelling; no run is about these, and where a model would be wrong
because of one it says so above.

* `core/Exchanger.cpp:212`: an edit of extents does not refresh source and
  destination ranks, an edit of points or destinations does.
* `core/Editor.inl:126`: `edit_handle::Restore` gives its reference back and
  leaves it in the handle, whose destructor gives it back again
  (called at `core/AssemblerAssembly.cpp:2592`).
* `core/Event.inl:19`: when a listener that is not the last takes itself out
  during `Trigger`, the next is skipped: it stays bound to a component that is going.
  The walk goes on to where the last entry has been, and calls a listener that is no
  more (`core/Map.hpp:92`). Two users that are bound to one component, listed next to
  each other, are enough. The run `domain` has these walks.
* `core/ID.hpp:12`: an assembler that is bound when an ID below the component's is free
  hears of dying grids first, drops them, is then told by the component that their
  states go, and notes all work on them again (`core/Assembler.cpp:392`). `Unbind` keeps
  the manifest for the next domain. Nothing reads the manifest at present:
  `Assemble` only clears it (`core/AssemblerAssembly.cpp:101`).
* `core/AssemblerAssembly.cpp:1485`: fragments are sent in the order in which
  `MPI_Testsome` lists signals, which MPI leaves open; in another one slots get fragments
  of each other.
* `core-c/ConnectivityN.cpp:268`, `core-c/OverlapN.cpp:272` define
  `ovkRelease...NSourceRanks` where the headers declare `ovkRestore...`.
* A collect on a cart with duplicated storage waits for messages that nobody
  sends; `README.md:320` offers that storage.
* `extras/XINTOUT.cpp`: a rank that fails in its first grid does not take part in
  the collective calls for its second (line 422), and the others wait for it; the
  last of many readers may have a chunk that begins behind the records, whose
  negative size is reported as too big, so that a readable file is thrown out (1018,
  1024; `Behind` in `XINTOUT`); an error when the X file is opened names the other file (725).
* `core/Exchanger.cpp:1118`: the tags of two ranks agree only if the exchanges
  were created when both saw the same number of connectivities.
* `core/Request.hpp:45`: assignment drops a request that is outstanding;
  `core/Exchanger.cpp:795` drops exchanges likewise.
* `core/Request.cpp:212`: `WaitAny` starts the wait timers of all requests, and
  where one has nothing left to wait for returns without stopping the others'.
* `README.md:802` documents a `WaitSome` that the code has not.
* `core/Geometry.cpp:122`: after `SetPeriodicLength` halo points stay where the
  old length put them until the next edit of coordinates, although the event of
  an edit is triggered; at the end of an edit it is triggered before volumes are
  computed.
* `core/Map.hpp:450`: looking up a key that is not there returns the next entry,
  or memory beyond the last. `DetectOccluded` does look up masks that were not
  made when a pair occludes and its reverse does not overlap
  (`LookUpStray` in `Assembly`, reached by the speck on a plate).
* `core/AssemblerAssembly.cpp:4355`: the distance of a point from the edge of the
  receivers is measured over 1 + EdgePadding layers, and a receiver that lies deeper
  is left with the largest distance, as if no receiver were near. Where receivers
  lie that deep (nested boxes whose overlap is not minimized) a donor's vertices may
  be receivers even with `DisjointConnections`, which `README.md:619` describes as
  "disallow donors whose vertices contain receiver points". The run `assembly` has such
  boxes; `DonorsAreNoReceivers` excepts donors all of whose corners lie that deep.
* `core/AssemblerAssembly.cpp:2993`: a cover that is empty never grows, and the
  loop that waits for it to cover an edge does not end.
* `core/DistributedFieldOps.cpp:452`: on ranks less than three points wide a point of the
  halo may be left without a label, and -1 is used as an index. What is read there
  may be any label (`LookedUp`). Points next to the rank's own have labels, so masks
  are as in one place until they are flooded, and wrong in the halo afterwards:
  `MasksAsInOnePlace`, `EdgesAsInOnePlace` and `LabelsAsInOnePlace` say from which width
  on, and for which points, they hold. The run `fields` has ranks that are narrower.
* `Partition.cpp`'s order of carts is not a strict weak order, and `union_find`'s
  `Relabel` does not number labels the way its comment says.

## Not modelled

* `hang_detector`: a time-out by the wall clock that ends the process.
* `BroadcastAnySource`: one message, then `MPI_Bcast`.
* Interpolation, Newton iterations on curvilinear cells, and all of floating
  point beyond comparisons: no values TLC could enumerate.
* Three dimensions: the code treats dimensions alike, one after another.
* The threaded variants of collects, the partition pool, array storage and the
  elementwise operations: they compute, and keep no state between calls.
* Requests dropped or assigned to while outstanding: what follows is up to MPI.
* Contexts, communicators, logger, profiler, error classes, C bindings: wrappers;
  the import uses errors as they are synchronised between ranks.
* Examples, tests, file layout and byte order.

## Plan: done, and left

Done, in this order: handshake and signal; pair components and exchanger; domain,
editor and events; grid components and assembler; look-up, requests and transfer;
distributed fields and grid data; overlap search and hashes; stages of the
assembly; import; proofs of handshake, signal, editor, domain and its events,
assembler, pair components and exchanger, look-up and transfer, the transfer
loop of the overlap search, stages of the assembly, errors and progress of the import.

Left: several connectivities in one look-up and points that are received twice;
requests dropped while outstanding; collects on duplicated storage; three
dimensions; the partition pool.
