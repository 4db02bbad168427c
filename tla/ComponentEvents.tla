--------------------------- MODULE ComponentEvents ---------------------------
(***************************************************************************)
(* Who hears of the creation, the edits and the end of a component.        *)
(* domain::DestroyComponent triggers an event before it erases the         *)
(* component, and each assembler and exchanger that is bound to it answers *)
(* by unbinding, which takes its own listener out of the event (event,     *)
(* event_listener_handle in Event.inl).                                    *)
(* Listeners_ is a map that keeps its entries, sorted by listener ID, in a  *)
(* vector; Trigger walks it from its first entry to where its end was at   *)
(* first.                                                                  *)
(*                                                                         *)
(* The entry that follows one that is erased during the walk slides into   *)
(* its place and is not called, and the walk goes on to where the last     *)
(* entry has been.  What it finds there is what vector::erase moved from   *)
(* and destroyed: an entry whose value is a null unique_ptr (value_wrapper *)
(* of Map.hpp).  To call it ends the program.                              *)
(***************************************************************************)
EXTENDS KeyOrder

CONSTANTS
    Users,      \* assemblers and exchangers
    Components, \* component IDs
    None        \* no user, no component

ASSUME UsersAssumption == IsFiniteSet(Users)
ASSUME NoneAssumption == None \notin Users \cup Components

IDs == 0 .. Cardinality(Users) - 1
When(condition, c) == IF condition THEN {c} ELSE {}

VARIABLES
    components, \* keys of Components_
    bound,      \* bound[u]: the components u is bound to, {} if it is not bound
    handle,     \* handle[u]: ID_ of u's ComponentEventListener_, or -1
    Listeners,  \* Listeners_ of ComponentEvent_: the user of each ID, or None
    walk        \* the Trigger under way: the component and what of it, where the walk is,
                \* where it ends, whom it began with, in order, and whom it has called

eventVars == <<components, bound, handle, Listeners, walk>>

Idle == [component |-> None, flag |-> "NONE", at |-> 1, end |-> 0, began |-> <<>>, called |-> {}]
Dead == [Idle EXCEPT !.flag = "DEAD"]       \* the program has ended in the middle of a walk
UnderWay == walk # Idle /\ walk # Dead

EventsInit ==
    /\ components = {}
    /\ bound = [u \in Users |-> {}]
    /\ handle = [u \in Users |-> -1]
    /\ Listeners = [i \in IDs |-> None]
    /\ walk = Idle

\* The entries of Listeners_ in the order of their IDs.
Entries == SortedInts({i \in IDs : Listeners[i] # None})

\* The lowest ID that is not taken.
NextAvailableID(taken) == CHOOSE i \in 0 .. Cardinality(Users) :
    i \notin taken /\ \A j \in 0 .. i-1 : j \in taken

\* assembler::Bind, exchanger::Bind; AddListener.
Bind(u, C) ==
    LET id == NextAvailableID({i \in IDs : Listeners[i] # None}) IN
    /\ walk = Idle
    /\ bound[u] = {} /\ C # {} /\ C \subseteq components
    /\ bound' = [bound EXCEPT ![u] = C]
    /\ handle' = [handle EXCEPT ![u] = id]
    /\ Listeners' = [Listeners EXCEPT ![id] = u]
    /\ UNCHANGED <<components, walk>>

\* assembler::Unbind, exchanger::Unbind; event_listener_handle::Reset.
DoUnbind(u) ==
    /\ bound' = [bound EXCEPT ![u] = {}]
    /\ handle' = [handle EXCEPT ![u] = -1]
    /\ Listeners' = [Listeners EXCEPT ![handle[u]] = None]

Unbind(u) ==
    /\ walk = Idle
    /\ bound[u] # {}
    /\ DoUnbind(u)
    /\ UNCHANGED <<components, walk>>

\* Trigger is to call the first n of the listeners there are.
TriggerFirst(c, flag, n) ==
    walk' = [component |-> c, flag |-> flag, at |-> 1, end |-> n, called |-> {},
             began |-> [k \in 1 .. Len(Entries) |-> Listeners[Entries[k]]]]
TriggerShort(c, flag) == TriggerFirst(c, flag, Len(Entries) - 1)   \* takes the last entry for the end
Trigger(c, flag) == TriggerFirst(c, flag, Len(Entries))

\* domain::CreateComponent ends with a Trigger, DestroyComponent begins with one.
CreateComponent(c) ==
    /\ walk = Idle
    /\ c \notin components
    /\ components' = components \cup {c}
    /\ Trigger(c, "CREATE")
    /\ UNCHANGED <<bound, handle, Listeners>>

DestroyComponent(c) ==
    /\ walk = Idle
    /\ c \in components
    /\ Trigger(c, "DESTROY")
    /\ UNCHANGED <<components, bound, handle, Listeners>>

\* One turn of Trigger: OnComponentEvent_ of the listener it is at.
DeafListener(u) == FALSE
MustUnbind(u) == walk.flag = "DESTROY" /\ walk.component \in bound[u]

CallListener ==
    /\ UnderWay
    /\ walk.at <= walk.end /\ walk.at <= Len(Entries)
    /\ LET u == Listeners[Entries[walk.at]] IN
       /\ walk' = [walk EXCEPT !.at = @ + 1, !.called = @ \cup {u}]
       /\ IF MustUnbind(u) THEN DoUnbind(u) ELSE UNCHANGED <<bound, handle, Listeners>>
    /\ UNCHANGED components

\* The walk has come to where there is no entry any more, and takes it for one.
Astray == UnderWay /\ walk.at <= walk.end /\ walk.at > Len(Entries)

CallNobody ==
    /\ Astray
    /\ walk' = Dead
    /\ UNCHANGED <<components, bound, handle, Listeners>>

\* The walk is over: the component, if it is to go, is erased.
EndTrigger ==
    /\ UnderWay
    /\ walk.at > walk.end
    /\ components' = components \ When(walk.flag = "DESTROY", walk.component)
    /\ walk' = Idle
    /\ UNCHANGED <<bound, handle, Listeners>>

Use ==
    \/ \E c \in Components : CreateComponent(c)
    \/ \E u \in Users : Unbind(u) \/ \E C \in SUBSET components : Bind(u, C)
Walk == CallListener \/ CallNobody \/ EndTrigger
-----------------------------------------------------------------------------
\* No more listeners will be called.
Through == UnderWay /\ (walk.at > walk.end \/ Astray)

\* The k-th of those the walk began with was listed right behind one that has
\* left: it has slid into that one's place.
BehindLeaver(k) == k > 1 /\ handle[walk.began[k-1]] = -1

\* Trigger misses only those who slide: when it calls nobody any more, each
\* listener has been called that was there at the beginning, but for those listed
\* right behind one that left during the walk.
OnlySlidAreMissed ==
    Through => \A k \in 1 .. Len(walk.began) :
        walk.began[k] \in walk.called \/ BehindLeaver(k)

\* Whoever is then still bound to what is going is one of these: of two users of
\* a component that are listed next to each other the second stays bound
\* ("Component %i does not exist" is what it would run into).
OnlySlidStayBound ==
    Through /\ walk.flag = "DESTROY" =>
        \A u \in Users : walk.component \in bound[u] =>
            \E k \in 1 .. Len(walk.began) : walk.began[k] = u /\ BehindLeaver(k)
=============================================================================
