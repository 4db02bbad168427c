------------------------------- MODULE Domain --------------------------------
(***************************************************************************)
(* domain: components come, are edited and go.  EditComponent activates    *)
(* the component's editor; the end of the edit runs DeactivateFunc_, which *)
(* triggers the component event while the editor is still active.          *)
(* One of the components is edited, by counted handles (module Editor).    *)
(*                                                                         *)
(* The edited component is let go only when nobody edits it.               *)
(***************************************************************************)
EXTENDS Editor, ComponentEvents

CONSTANT Edited     \* the component that is edited

ASSUME EditedAssumption == Edited \in Components

domainVars == <<vars, eventVars>>

DomainInit == Init /\ EventsInit

\* The handle that ends the edit comes back from its destructor, or from RestoreComponent,
\* when every listener has been called.
TellOfEdit == IF active /\ ~active' THEN Trigger(Edited, "EDIT") ELSE UNCHANGED walk

EditorStep ==
    /\ walk = Idle
    /\ Edited \in components
    /\ Next
    /\ TellOfEdit
    /\ UNCHANGED <<components, bound, handle, Listeners>>

\* DestroyComponent does not ask whether the component is being edited.
NotEdited(c) == c = Edited => holders = {} /\ released = 0

EventStep == (Use \/ Walk) /\ UNCHANGED vars
DestroyStep(c) ==
    /\ NotEdited(c)
    /\ DestroyComponent(c)
    /\ UNCHANGED vars

DomainNext ==
    \/ EditorStep
    \/ EventStep
    \/ \E c \in Components : DestroyStep(c)

DomainSpec == DomainInit /\ [][DomainNext]_domainVars
=============================================================================
