------------------------------- MODULE Editor -------------------------------
(***************************************************************************)
(* editor and edit_handle (Editor.hpp, Editor.inl): everything that can be *)
(* edited - components, their objects, the objects' fields, the options of *)
(* an assembler - is edited through counted handles.  The first handle     *)
(* activates the editor, and the last one to go deactivates it, which runs *)
(* DeactivateFunc_: that is what tells the listeners of the edit.          *)
(*                                                                         *)
(* A handle's reference is given back by its destructor, or, if the handle *)
(* was released, by the owner's Restore function (RestoreExtents and so    *)
(* on), which the C bindings do.  edit_handle::Restore gives it back too,  *)
(* and yet leaves it in the handle, whose destructor gives it back again:  *)
(* Next is what every program does that does not call it.                  *)
(***************************************************************************)
EXTENDS Integers, FiniteSets

CONSTANTS
    Handles,        \* handles there may be at a time
    MaxReleased     \* bound on the references released and not yet restored

ASSUME HandlesAssumption == IsFiniteSet(Handles)
ASSUME MaxReleasedAssumption == MaxReleased \in Nat

VARIABLES
    holders,    \* handles whose Editor_ is set
    released,   \* number of references released and not yet restored
    RefCount,   \* RefCount_
    active,     \* DeactivateFunc_ is set: Active()
    edited,     \* the target has been changed, and no listener told of it
    faulted     \* a DeactivateFunc_ was called that is not set

vars == <<holders, released, RefCount, active, edited, faulted>>

Init ==
    /\ holders = {}
    /\ released = 0
    /\ RefCount = 0
    /\ active = FALSE
    /\ edited = FALSE
    /\ faulted = FALSE

Increment == RefCount' = RefCount + 1

DecrementLeavesActive ==                \* without DeactivateFunc_.reset()
    /\ RefCount' = RefCount - 1
    /\ edited' = (edited /\ RefCount' # 0)
    /\ UNCHANGED <<active, faulted>>

\* Decrement_: the last one calls DeactivateFunc_ and then resets it.
Decrement ==
    /\ RefCount' = RefCount - 1
    /\ active' = (active /\ RefCount' # 0)
    /\ edited' = (edited /\ RefCount' # 0)
    /\ faulted' = (faulted \/ (RefCount' = 0 /\ ~active))

\* An owner's Edit function: activates the editor if need be, makes a handle.
Edit(h) ==
    /\ h \notin holders
    /\ holders' = holders \cup {h}
    /\ Increment
    /\ active' = TRUE
    /\ UNCHANGED <<released, edited, faulted>>

\* The target is changed by way of a handle, or of the pointer one released.
Change ==
    /\ holders # {} \/ released > 0
    /\ edited' = TRUE
    /\ UNCHANGED <<holders, released, RefCount, active, faulted>>

\* Copy constructor.
Copy(h, g) ==
    /\ h \in holders /\ g \notin holders
    /\ holders' = holders \cup {g}
    /\ Increment
    /\ UNCHANGED <<released, active, edited, faulted>>

\* Move constructor: the reference changes hands and is counted once.
Move(h, g) ==
    /\ h \in holders /\ g \notin holders
    /\ holders' = (holders \ {h}) \cup {g}
    /\ UNCHANGED <<released, RefCount, active, edited, faulted>>

\* Assignment from a temporary, which swaps and takes the old reference along.
AssignMoved(h, g) ==
    /\ h \in holders /\ g \in holders /\ h # g
    /\ holders' = holders \ {h}
    /\ Decrement
    /\ UNCHANGED released

\* Destructor.
Destroy(h) ==
    /\ h \in holders
    /\ holders' = holders \ {h}
    /\ Decrement
    /\ UNCHANGED released

\* edit_handle::Release: the reference is now the owner's to restore.
Release(h) ==
    /\ h \in holders
    /\ released < MaxReleased
    /\ holders' = holders \ {h}
    /\ released' = released + 1
    /\ UNCHANGED <<RefCount, active, edited, faulted>>

\* An Edit function of the C bindings, one for each array and each dimension of it: makes
\* a handle and releases it at once, so that each call is one more reference to restore.
EditReleased ==
    /\ released < MaxReleased
    /\ released' = released + 1
    /\ Increment
    /\ active' = TRUE
    /\ UNCHANGED <<holders, edited, faulted>>

\* The owner's Restore function, for a reference that was released.
Restore ==
    /\ released > 0
    /\ released' = released - 1
    /\ Decrement
    /\ UNCHANGED holders

Next ==
    \/ Change
    \/ Restore \/ EditReleased
    \/ \E h \in Handles : Edit(h) \/ Destroy(h) \/ Release(h)
    \/ \E h, g \in Handles : Copy(h, g) \/ Move(h, g) \/ AssignMoved(h, g)

Spec == Init /\ [][Next]_vars
-----------------------------------------------------------------------------
\* No DeactivateFunc_ is called that is not there.
TypeOK ==
    /\ holders \subseteq Handles
    /\ released \in 0 .. MaxReleased
    /\ RefCount \in 0 .. Cardinality(Handles) + MaxReleased
    /\ active \in BOOLEAN
    /\ edited \in BOOLEAN
    /\ faulted = FALSE

\* The count is that of the references there are to give back.
CountsReferences == RefCount = Cardinality(holders) + released

\* "not currently being edited": the editor is active exactly while somebody
\* holds a reference, so an edit ends when its last handle goes.
ActiveWhileHeld == active <=> (holders # {} \/ released > 0)

\* A change is announced as soon as nobody is left who could change more.
ChangesAnnounced == edited => holders # {} \/ released > 0

\* The editor is in good order: every step keeps all of this together.
IInv == TypeOK /\ CountsReferences /\ ActiveWhileHeld /\ ChangesAnnounced
=============================================================================
