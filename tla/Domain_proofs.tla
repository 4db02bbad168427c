---------------------------- MODULE Domain_proofs ----------------------------
(***************************************************************************)
(* Counted editing is in good order, for any number of handles and of      *)
(* released references, as long as edit_handle::Restore is not used.  The  *)
(* editor of a component does what editors do, although the end of an edit *)
(* calls listeners and components come and go meanwhile.  A walk of        *)
(* Trigger misses those that slide into the place of one that leaves, and  *)
(* nobody else.                                                            *)
(***************************************************************************)
EXTENDS Domain, Events_proofs

\* The number of handles that hold a reference, as handles come and go.
LEMMA HolderCount ==
    ASSUME holders \subseteq Handles
    PROVE  /\ IsFiniteSet(holders) /\ Cardinality(holders) \in Nat
           /\ Cardinality(Handles) \in Nat
           /\ Cardinality(holders) <= Cardinality(Handles)
           /\ Cardinality(holders) = 0 <=> holders = {}
           /\ \A h \in Handles \ holders :
                  Cardinality(holders \cup {h}) = Cardinality(holders) + 1
           /\ \A h \in holders : Cardinality(holders \ {h}) = Cardinality(holders) - 1
  <1>1. IsFiniteSet(holders)
    BY HandlesAssumption, FS_Subset
  <1> QED
    BY <1>1, HandlesAssumption, FS_CardinalityType, FS_Subset, FS_EmptySet, FS_AddElement,
       FS_RemoveElement

\* A step that gives one counted reference back keeps the editor in order.
LEMMA DecrementInv ==
    ASSUME IInv, Decrement,
           holders' \subseteq Handles, released' \in 0 .. MaxReleased,
           Cardinality(holders') + released' = Cardinality(holders) + released - 1
    PROVE  IInv'
  <1> USE DEF IInv, CountsReferences, ActiveWhileHeld, ChangesAnnounced
  <1>1. /\ Cardinality(holders) \in Nat /\ Cardinality(holders) <= Cardinality(Handles)
        /\ Cardinality(Handles) \in Nat
        /\ Cardinality(holders) = 0 <=> holders = {}
    BY HolderCount DEF TypeOK
  <1>2. /\ Cardinality(holders') \in Nat
        /\ Cardinality(holders') <= Cardinality(Handles)
        /\ Cardinality(holders') = 0 <=> holders' = {}
    <2>1. IsFiniteSet(holders')
      BY HandlesAssumption, FS_Subset
    <2> QED
      BY <2>1, HandlesAssumption, FS_CardinalityType, FS_Subset, FS_EmptySet
  <1>3. /\ released \in Nat /\ released' \in Nat /\ released' <= MaxReleased
        /\ MaxReleased \in Nat
    BY MaxReleasedAssumption DEF TypeOK
  <1>4. /\ RefCount' = Cardinality(holders') + released'
        /\ RefCount' = RefCount - 1 /\ RefCount \in Nat
    BY <1>1, <1>3 DEF Decrement, TypeOK
  <1>5. /\ RefCount > 0
        /\ RefCount' = 0 <=> holders' = {} /\ released' = 0
    BY <1>2, <1>3, <1>4
  <1>6. active = TRUE
    <2>1. holders # {} \/ released > 0
      BY <1>1, <1>3, <1>5
    <2> QED
      BY <2>1 DEF TypeOK
  <1>7. active' = (RefCount' # 0) /\ (edited' => RefCount' # 0) /\ faulted' = FALSE
    BY <1>6 DEF Decrement, TypeOK
  <1>8. TypeOK'
    <2>1. RefCount' \in 0 .. Cardinality(Handles) + MaxReleased
      BY <1>1, <1>2, <1>3, <1>4
    <2>2. active' \in BOOLEAN /\ edited' \in BOOLEAN
      BY <1>7 DEF Decrement
    <2> QED
      BY <1>7, <2>1, <2>2 DEF TypeOK
  <1>9. RefCount' # 0 <=> holders' # {} \/ released' > 0
    BY <1>3, <1>5
  <1> QED
    BY <1>4, <1>7, <1>8, <1>9

\* A step that makes one more counted reference does too.
LEMMA IncrementInv ==
    ASSUME IInv, NEW h \in Handles \ holders, holders' = holders \cup {h}, Increment,
           active' = TRUE, UNCHANGED <<released, edited, faulted>>
    PROVE  IInv'
  <1> USE DEF IInv, TypeOK
  <1>1. /\ Cardinality(holders') = Cardinality(holders) + 1
        /\ Cardinality(holders) \in Nat /\ Cardinality(Handles) \in Nat
    BY HolderCount
  <1>2. Cardinality(holders') <= Cardinality(Handles)
    <2>1. holders' \subseteq Handles
      OBVIOUS
    <2> QED
      BY <2>1, HandlesAssumption, FS_Subset
  <1>3. RefCount' = Cardinality(holders') + released'
    BY <1>1, MaxReleasedAssumption DEF Increment, CountsReferences
  <1>4. RefCount' \in 0 .. Cardinality(Handles) + MaxReleased
    BY <1>1, <1>2, <1>3, MaxReleasedAssumption
  <1>5. holders' # {}
    OBVIOUS
  <1>6. TypeOK' /\ CountsReferences'
    BY <1>3, <1>4 DEF CountsReferences
  <1> QED
    BY <1>5, <1>6 DEF ActiveWhileHeld, ChangesAnnounced

\* The editor is in good order in every state.
THEOREM Invariance == Spec => []IInv
  <1>1. Init => IInv
    <2>1. Cardinality({}) = 0 /\ Cardinality(Handles) \in Nat
      BY HandlesAssumption, FS_EmptySet, FS_CardinalityType
    <2> SUFFICES ASSUME Init PROVE IInv
      OBVIOUS
    <2>2. ~active /\ ~edited /\ holders = {} /\ ~(released > 0)
      BY DEF Init
    <2>3. TypeOK /\ CountsReferences
      <3>1. /\ holders = {} /\ released = 0 /\ RefCount = 0
            /\ RefCount = Cardinality(holders) + released
        BY <2>1 DEF Init
      <3>2. RefCount \in 0 .. Cardinality(Handles) + MaxReleased /\ released \in 0 .. MaxReleased
        BY <2>1, <3>1, MaxReleasedAssumption
      <3>3. active \in BOOLEAN /\ edited \in BOOLEAN /\ faulted = FALSE
        BY Zenon DEF Init
      <3> QED
        BY <3>1, <3>2, <3>3 DEF TypeOK, CountsReferences
    <2> QED
      BY <2>2, <2>3, Zenon DEF IInv, ActiveWhileHeld, ChangesAnnounced
  <1>2. ASSUME IInv, [Next]_vars
        PROVE  IInv'
    <2> USE <1>2
    <2>1. CASE Change
      BY <2>1 DEF Change, IInv, TypeOK, CountsReferences, ActiveWhileHeld, ChangesAnnounced
    <2>2. CASE Restore
      <3>1. released' = released - 1 /\ released > 0 /\ holders' = holders /\ Decrement
        BY <2>2 DEF Restore
      <3>2. Cardinality(holders) \in Nat
        BY HolderCount DEF IInv, TypeOK
      <3>3. /\ released \in 0 .. MaxReleased /\ released' \in 0 .. MaxReleased
            /\ holders' \subseteq Handles
            /\ Cardinality(holders') = Cardinality(holders)
        BY <3>1, MaxReleasedAssumption DEF IInv, TypeOK
      <3>4. Cardinality(holders') + released' = Cardinality(holders) + released - 1
        BY <3>1, <3>2, <3>3
      <3> QED
        BY <3>1, <3>3, <3>4, DecrementInv
    <2>3. ASSUME NEW h \in Handles, Edit(h)
          PROVE  IInv'
      BY <2>3, IncrementInv DEF Edit
    <2>4. ASSUME NEW h \in Handles, h \in holders, holders' = holders \ {h}, Decrement, UNCHANGED released
          PROVE  IInv'
      <3>1. /\ Cardinality(holders') = Cardinality(holders) - 1
            /\ Cardinality(holders) \in Nat /\ released \in 0 .. MaxReleased
            /\ holders' \subseteq Handles
        BY <2>4, HolderCount DEF IInv, TypeOK
      <3> QED
        BY <2>4, <3>1, MaxReleasedAssumption, DecrementInv
    <2>5. ASSUME NEW h \in Handles, Release(h)
          PROVE  IInv'
      <3>1. /\ Cardinality(holders') = Cardinality(holders) - 1
            /\ Cardinality(holders) \in Nat
            /\ released' = released + 1 /\ released' <= MaxReleased
        BY <2>5, HolderCount, MaxReleasedAssumption DEF Release, IInv, TypeOK
      <3> QED
        BY <2>5, <3>1, MaxReleasedAssumption
           DEF Release, IInv, TypeOK, CountsReferences, ActiveWhileHeld, ChangesAnnounced
    <2>6. ASSUME NEW h \in Handles, NEW g \in Handles, Copy(h, g)
          PROVE  IInv'
      <3>1. active' = TRUE
        BY <2>6 DEF Copy, IInv, TypeOK, ActiveWhileHeld
      <3> QED
        BY <2>6, <3>1, IncrementInv DEF Copy
    <2>7. ASSUME NEW h \in Handles, NEW g \in Handles, Move(h, g)
          PROVE  IInv'
      <3> DEFINE rest == holders \ {h}
      <3>1. IsFiniteSet(rest) /\ Cardinality(rest) = Cardinality(holders) - 1
        BY <2>7, HolderCount, FS_Subset DEF Move, IInv, TypeOK
      <3>2. Cardinality(holders') = Cardinality(rest) + 1
        BY <2>7, <3>1, FS_AddElement DEF Move
      <3>3. Cardinality(holders') = Cardinality(holders)
        BY <3>1, <3>2, HolderCount DEF IInv, TypeOK
      <3> QED
        BY <2>7, <3>3 DEF Move, IInv, TypeOK, CountsReferences, ActiveWhileHeld, ChangesAnnounced
    <2>8. CASE EditReleased
      <3>1. /\ Cardinality(holders) \in Nat /\ Cardinality(Handles) \in Nat
            /\ Cardinality(holders) <= Cardinality(Handles)
        BY HolderCount DEF IInv, TypeOK
      <3>2. /\ holders' = holders /\ RefCount' = RefCount + 1
            /\ released' = released + 1 /\ released' <= MaxReleased
            /\ released \in Nat
        BY <2>8, MaxReleasedAssumption DEF EditReleased, Increment, IInv, TypeOK
      <3>3. RefCount' = Cardinality(holders') + released'
        BY <3>1, <3>2 DEF IInv, CountsReferences
      <3>4. /\ RefCount' \in 0 .. Cardinality(Handles) + MaxReleased
            /\ released' \in 0 .. MaxReleased /\ released' > 0
        BY <3>1, <3>2, <3>3, MaxReleasedAssumption
      <3>5. active' = TRUE /\ edited' = edited /\ faulted' = faulted
        BY <2>8 DEF EditReleased
      <3>6. TypeOK'
        BY <3>2, <3>4, <3>5 DEF IInv, TypeOK
      <3> QED
        BY <3>3, <3>4, <3>5, <3>6 DEF IInv, CountsReferences, ActiveWhileHeld, ChangesAnnounced
    <2>9. CASE UNCHANGED vars
      BY <2>9 DEF vars, IInv, TypeOK, CountsReferences, ActiveWhileHeld, ChangesAnnounced
    <2> QED
      BY <2>1, <2>2, <2>3, <2>4, <2>5, <2>6, <2>7, <2>8, <2>9 DEF Next, Destroy, AssignMoved
  <1> QED
    BY <1>1, <1>2, PTL DEF Spec

\* An editor is active exactly while somebody holds a reference.
THEOREM EditsEnd == Spec => []ActiveWhileHeld
  BY Invariance, PTL DEF IInv

\* No change stays unannounced once nobody is editing.
THEOREM EditsAnnounced == Spec => []ChangesAnnounced
  BY Invariance, PTL DEF IInv
-----------------------------------------------------------------------------
\* A reference to the edited component is held while it is there, and it is not
\* on its way out.
HandlesReach ==
    holders # {} \/ released > 0 =>
        /\ Edited \in components
        /\ ~(walk.flag = "DESTROY" /\ walk.component = Edited)

\* The steps of a domain are steps of the editor of any component or none of
\* its business: counted handles need no more than what module Editor says.
THEOREM DomainImplementsEditor == DomainSpec => Spec
  <1>1. DomainInit => Init
    BY DEF DomainInit
  <1>2. [DomainNext]_domainVars => [Next]_vars
    BY DEF DomainNext, EditorStep, EventStep, DestroyStep, domainVars
  <1> QED
    BY <1>1, <1>2, PTL DEF DomainSpec, Spec

\* The editor of a component is in good order in every state of the domain: an
\* edit ends, and is told to the listeners, exactly when its last reference goes
\* (domain::EditComponent, RestoreComponent).
THEOREM DomainInvariance == DomainSpec => []IInv
  BY DomainImplementsEditor, Invariance, PTL

\* Whoever holds a handle of a component still has a component to edit, through
\* all of the events by which others let go of it (domain::DestroyComponent erases
\* the editor with the component, and edit handles do not hold on to it).
THEOREM ComponentOutlivesEdits == DomainSpec => []HandlesReach
  <1>1. DomainInit => HandlesReach
    BY DEF DomainInit, Init, HandlesReach
  <1>2. ASSUME IInv, HandlesReach, [DomainNext]_domainVars
        PROVE  HandlesReach'
    <2> USE <1>2
    <2>1. CASE EditorStep
      <3>1. walk = Idle /\ Edited \in components /\ components' = components
        BY <2>1 DEF EditorStep
      <3>2. walk'.flag # "DESTROY"
        BY <2>1, <3>1 DEF EditorStep, TellOfEdit, Trigger, TriggerFirst, Idle
      <3> QED
        BY <3>1, <3>2 DEF HandlesReach
    <2>2. CASE EventStep
      <3>1. holders' = holders /\ released' = released
        BY <2>2 DEF EventStep, vars
      <3>2. CASE Use
        <4>1. ASSUME NEW c \in Components, CreateComponent(c)
              PROVE  HandlesReach'
          <5>1. components' = components \cup {c} /\ walk'.flag = "CREATE"
            BY <4>1 DEF CreateComponent, Trigger, TriggerFirst
          <5> QED
            BY <3>1, <5>1 DEF HandlesReach
        <4>2. ASSUME NEW u \in Users, Unbind(u) \/ \E C \in SUBSET components : Bind(u, C)
              PROVE  HandlesReach'
          <5>1. UNCHANGED <<components, walk>>
            BY <4>2 DEF Unbind, Bind
          <5> QED
            BY <3>1, <5>1 DEF HandlesReach
        <4> QED
          BY <3>2, <4>1, <4>2 DEF Use
      <3>3. CASE CallListener
        <4>1. components' = components /\ \E x, y : walk' = [walk EXCEPT !.at = x, !.called = y]
          BY <3>3 DEF CallListener
        <4>2. walk'.flag = walk.flag /\ walk'.component = walk.component
          BY <4>1
        <4> QED
          BY <3>1, <4>1, <4>2 DEF HandlesReach
      <3>4. CASE CallNobody
        <4>1. walk'.flag = "DEAD" /\ components' = components
          BY <3>4 DEF CallNobody, Dead, Idle
        <4> QED
          BY <3>1, <4>1 DEF HandlesReach
      <3>5. CASE EndTrigger
        <4>1. components' = components \ When(walk.flag = "DESTROY", walk.component)
          BY <3>5 DEF EndTrigger
        <4>2. walk'.flag = "NONE"
          BY <3>5 DEF EndTrigger, Idle
        <4> QED
          BY <3>1, <4>1, <4>2 DEF HandlesReach, When
      <3> QED
        BY <2>2, <3>2, <3>3, <3>4, <3>5 DEF EventStep, Walk
    <2>3. ASSUME NEW c \in Components, DestroyStep(c)
          PROVE  HandlesReach'
      <3>1. holders' = holders /\ released' = released /\ components' = components
        BY <2>3 DEF DestroyStep, DestroyComponent, vars
      <3>2. walk'.component = c
        BY <2>3 DEF DestroyStep, DestroyComponent, Trigger, TriggerFirst
      <3>3. c = Edited => ~(holders # {} \/ released > 0)
        BY <2>3 DEF DestroyStep, NotEdited
      <3> QED
        BY <3>1, <3>2, <3>3 DEF HandlesReach
    <2>4. CASE UNCHANGED domainVars
      BY <2>4 DEF domainVars, vars, eventVars, HandlesReach
    <2> QED
      BY <2>1, <2>2, <2>3, <2>4 DEF DomainNext
  <1> QED
    BY <1>1, <1>2, DomainInvariance, PTL DEF DomainSpec
-----------------------------------------------------------------------------
\* Who has a listener is who is bound, to components that are there, and no two
\* have the same ID.
Taken == {i \in IDs : Listeners[i] # None}

ListenersOK ==
    /\ Listeners \in [IDs -> Users \cup {None}]
    /\ handle \in [Users -> IDs \cup {-1}]
    /\ bound \in [Users -> SUBSET components]
    /\ \A u \in Users : handle[u] = -1 <=> bound[u] = {}
    /\ \A u \in Users : handle[u] # -1 => Listeners[handle[u]] = u
    /\ \A i \in IDs : Listeners[i] # None => handle[Listeners[i]] = i

\* The listeners a walk has still to call are those it began with, in the same
\* order; as many as have left, it is that many of them further.
Slid == walk.end - Len(Entries)

Ahead == \A j \in walk.at .. Len(Entries) : Listeners[Entries[j]] = walk.began[j + Slid]

\* Those it is past it has called or they have slid; and as long as nobody has
\* left, and whenever it gets to the end, it has called them.
Passed ==
    \A k \in 1 .. walk.end : k < walk.at + Slid => walk.began[k] \in walk.called \/ BehindLeaver(k)

Whole ==
    Slid = 0 \/ walk.at > walk.end =>
        \A k \in 1 .. walk.end : k < walk.at => walk.began[k] \in walk.called

\* Whoever has been called of the end of a component is not bound to it.
CalledLetGo == walk.flag = "DESTROY" => \A u \in walk.called : walk.component \notin bound[u]

WereThere == \A u \in Users : handle[u] # -1 => \E k \in 1 .. walk.end : walk.began[k] = u

WalkTypeOK ==
    walk \in [component : Components \cup {None}, flag : {"NONE", "CREATE", "EDIT", "DESTROY", "DEAD"},
              at : Nat, end : Nat, began : Seq(Users), called : SUBSET Users]

WalkOK ==
    UnderWay =>
        /\ Len(walk.began) = walk.end /\ walk.at \in 1 .. walk.end + 1
        /\ Len(Entries) <= walk.end /\ Slid < walk.at
        /\ Ahead /\ Passed /\ Whole /\ CalledLetGo /\ WereThere

LEMMA IDsAreFinite ==
    /\ Cardinality(Users) \in Nat
    /\ IsFiniteSet(IDs) /\ IDs \subseteq Nat /\ -1 \notin IDs
    /\ Cardinality(IDs) = Cardinality(Users)
  <1>1. Cardinality(Users) \in Nat
    BY UsersAssumption, FS_CardinalityType
  <1>2. IsFiniteSet(0 .. Cardinality(Users) - 1) /\ Cardinality(0 .. Cardinality(Users) - 1) = Cardinality(Users)
    BY <1>1, FS_Interval
  <1> QED
    BY <1>1, <1>2 DEF IDs

LEMMA EntriesAreListeners ==
    /\ Len(Entries) \in Nat /\ Len(Entries) = Cardinality(Taken)
    /\ \A j \in 1 .. Len(Entries) : Entries[j] \in Taken
    /\ \A i \in Taken : \E j \in 1 .. Len(Entries) : Entries[j] = i
    /\ \A i, j \in 1 .. Len(Entries) : i < j => Entries[i] # Entries[j]
  <1>1. Taken \in SUBSET Int /\ IsFiniteSet(Taken)
    <2>1. Taken \in SUBSET IDs
      BY DEF Taken
    <2>2. IsFiniteSet(Taken)
      BY <2>1, IDsAreFinite, FS_Subset
    <2> QED
      BY <2>1, <2>2, IDsAreFinite
  <1>2. StrictOrder(Taken, IntOrder(Taken)) /\ Entries = Sorted(Taken, IntOrder(Taken))
    BY <1>1, IntsInOrder DEF Entries, Taken
  <1>3. IsLog(Entries) /\ Len(Entries) = Cardinality(Taken)
    BY <1>1, <1>2, SortedIsLog
  <1>4. /\ Cardinality(Taken) \in Nat
        /\ Entries \in [1 .. Cardinality(Taken) -> Taken]
        /\ \A i \in Taken : \E j \in 1 .. Cardinality(Taken) : Entries[j] = i
        /\ \A i, j \in 1 .. Cardinality(Taken) : i < j => <<Entries[i], Entries[j]>> \in IntOrder(Taken)
    BY <1>1, <1>2, SortedInOrder
  <1>5. \A i, j \in 1 .. Len(Entries) : i < j => Entries[i] # Entries[j]
    BY <1>2, <1>3, <1>4 DEF StrictOrder
  <1> QED
    BY <1>3, <1>4, <1>5

\* There is an ID to be had for one who has none (NextAvailableID).
LEMMA AnIDIsLeft ==
    ASSUME ListenersOK, NEW u \in Users, bound[u] = {}
    PROVE  NextAvailableID(Taken) \in IDs \ Taken
  <1> DEFINE n == Cardinality(Users)
             free == (0 .. n) \ Taken
  <1>1. n \in Nat /\ Taken \subseteq IDs /\ IsFiniteSet(Taken)
    BY IDsAreFinite, FS_Subset DEF Taken
  <1>2. free \in SUBSET Nat /\ n \in free
    BY <1>1 DEF IDs
  <1>3. \E i \in free : \A j \in free : <<j, i>> \notin OpToRel(<, Nat)
    BY <1>2, WFMin, NatLessThanWellFounded, Zenon
  <1>4. PICK i \in free : \A j \in free : ~(j < i)
    BY <1>2, <1>3 DEF OpToRel
  <1>5. i \in 0 .. n /\ i \notin Taken /\ \A j \in 0 .. i - 1 : j \in Taken
    BY <1>1, <1>4
  <1> DEFINE id == NextAvailableID(Taken)
  <1>6. id \in 0 .. n /\ id \notin Taken /\ \A j \in 0 .. id - 1 : j \in Taken
    BY <1>5 DEF NextAvailableID
  <1>7. id # n
    <2> SUFFICES ASSUME id = n PROVE FALSE
      OBVIOUS
    <2>1. Taken = IDs
      BY <1>1, <1>6 DEF IDs
    <2> DEFINE f == [k \in Taken |-> Listeners[k]]
    <2>2. \A k \in Taken : Listeners[k] \in Users \ {u}
      BY <1>1, IDsAreFinite DEF ListenersOK, Taken
    <2>3. \A k, l \in Taken : Listeners[k] = Listeners[l] => k = l
      BY DEF ListenersOK, Taken
    <2>4. f \in Injection(Taken, Users \ {u})
      BY <2>2, <2>3 DEF Injection, IsInjective
    <2>5. IsFiniteSet(Users \ {u}) /\ Cardinality(Users \ {u}) = n - 1
      BY UsersAssumption, FS_RemoveElement
    <2>6. Cardinality(Taken) <= n - 1
      BY <2>4, <2>5, FS_Injection
    <2> QED
      BY <1>1, <2>1, <2>6, IDsAreFinite
  <1> QED
    BY <1>1, <1>6, <1>7 DEF IDs
LEMMA BindKeepsListeners ==
    ASSUME ListenersOK, NEW u \in Users, NEW C \in SUBSET components, Bind(u, C)
    PROVE  ListenersOK'
  <1> DEFINE id == NextAvailableID(Taken)
  <1>1. /\ bound[u] = {} /\ C # {}
        /\ bound' = [bound EXCEPT ![u] = C] /\ handle' = [handle EXCEPT ![u] = id]
        /\ Listeners' = [Listeners EXCEPT ![id] = u] /\ components' = components
    BY DEF Bind, Taken
  <1>2. id \in IDs /\ Listeners[id] = None /\ id # -1
    BY <1>1, AnIDIsLeft, IDsAreFinite DEF Taken
  <1> HIDE DEF id
  <1>3. Listeners' \in [IDs -> Users \cup {None}] /\ handle' \in [Users -> IDs \cup {-1}]
    BY <1>1, <1>2 DEF ListenersOK
  <1>4. bound' \in [Users -> SUBSET components']
    BY <1>1 DEF ListenersOK
  <1>5. \A v \in Users : handle'[v] = -1 <=> bound'[v] = {}
    BY <1>1, <1>2 DEF ListenersOK
  <1>6. \A v \in Users : handle'[v] # -1 => Listeners'[handle'[v]] = v
    BY <1>1, <1>2, NoneAssumption DEF ListenersOK
  <1>7. ASSUME NEW i \in IDs, Listeners'[i] # None
        PROVE  handle'[Listeners'[i]] = i
    <2>1. CASE i = id
      BY <1>1, <1>2, <2>1 DEF ListenersOK
    <2>2. CASE i # id
      <3>1. Listeners'[i] = Listeners[i] /\ handle[Listeners[i]] = i /\ Listeners[i] \in Users
        BY <1>1, <1>2, <1>7, <2>2 DEF ListenersOK
      <3>2. Listeners[i] # u
        BY <1>1, <3>1, IDsAreFinite DEF ListenersOK
      <3> QED
        BY <1>1, <3>1, <3>2 DEF ListenersOK
    <2> QED
      BY <2>1, <2>2
  <1> QED
    BY <1>3, <1>4, <1>5, <1>6, <1>7 DEF ListenersOK

LEMMA UnbindKeepsListeners ==
    ASSUME ListenersOK, NEW u \in Users, bound[u] # {}, DoUnbind(u), components' = components
    PROVE  ListenersOK'
  <1>1. /\ bound' = [bound EXCEPT ![u] = {}] /\ handle' = [handle EXCEPT ![u] = -1]
        /\ Listeners' = [Listeners EXCEPT ![handle[u]] = None]
    BY DEF DoUnbind
  <1>2. handle[u] \in IDs /\ Listeners[handle[u]] = u /\ handle[u] # -1
    BY DEF ListenersOK
  <1>3. Listeners' \in [IDs -> Users \cup {None}] /\ handle' \in [Users -> IDs \cup {-1}]
    BY <1>1, <1>2 DEF ListenersOK
  <1>4. bound' \in [Users -> SUBSET components']
    BY <1>1 DEF ListenersOK
  <1>5. \A v \in Users : handle'[v] = -1 <=> bound'[v] = {}
    BY <1>1 DEF ListenersOK
  <1>6. \A v \in Users : handle'[v] # -1 => Listeners'[handle'[v]] = v
    BY <1>1, <1>2 DEF ListenersOK
  <1>7. \A i \in IDs : Listeners'[i] # None => handle'[Listeners'[i]] = i
    BY <1>1, <1>2 DEF ListenersOK
  <1> QED
    BY <1>3, <1>4, <1>5, <1>6, <1>7 DEF ListenersOK

\* The entries behind one that is erased move up by one (map::Erase).
LEMMA EntriesSlide ==
    ASSUME NEW a \in 1 .. Len(Entries), Listeners \in [IDs -> Users \cup {None}],
           Listeners' = [Listeners EXCEPT ![Entries[a]] = None]
    PROVE  /\ Len(Entries') = Len(Entries) - 1
           /\ \A j \in a .. Len(Entries) - 1 : Entries'[j] = Entries[j + 1]
  <1>1. Taken \in SUBSET Int /\ IsFiniteSet(Taken)
    <2>1. Taken \in SUBSET IDs
      BY DEF Taken
    <2>2. IsFiniteSet(Taken)
      BY <2>1, IDsAreFinite, FS_Subset
    <2> QED
      BY <2>1, <2>2, IDsAreFinite
  <1>2. Entries = SortedInts(Taken) /\ Len(Entries) = Cardinality(Taken)
    BY EntriesAreListeners DEF Entries, Taken
  <1>3. Entries[a] \in Taken
    BY EntriesAreListeners
  <1>4. Taken' = Taken \ {Entries[a]}
    BY <1>3 DEF Taken
  <1>5. Entries' = SortedInts(Taken')
    BY DEF Entries, Taken
  <1>6. /\ Cardinality(Taken') = Cardinality(Taken) - 1 /\ IsFiniteSet(Taken')
        /\ \A j \in a .. Cardinality(Taken) - 1 : SortedInts(Taken')[j] = SortedInts(Taken)[j + 1]
    <2> DEFINE K == Taken
               x == SortedInts(K)[a]
    <2>1. K \in SUBSET Int /\ IsFiniteSet(K) /\ a \in 1 .. Cardinality(K)
      BY <1>1, <1>2
    <2>2. Taken' = K \ {x}
      BY <1>2, <1>4
    <2> HIDE DEF K
    <2>3. /\ IsFiniteSet(K \ {x}) /\ Cardinality(K \ {x}) = Cardinality(K) - 1
          /\ \A j \in a .. Cardinality(K) - 1 : SortedInts(K \ {x})[j] = SortedInts(K)[j + 1]
      BY <2>1, SortedRemoved
    <2> QED
      BY <2>2, <2>3 DEF K
  <1>7. Len(SortedInts(Taken')) = Cardinality(Taken')
    <2>1. Taken' \in SUBSET Int
      BY <1>1, <1>4
    <2>2. StrictOrder(Taken', IntOrder(Taken')) /\ SortedInts(Taken') = Sorted(Taken', IntOrder(Taken'))
      BY <2>1, IntsInOrder
    <2> QED
      BY <1>6, <2>2, SortedIsLog
  <1> QED
    BY <1>2, <1>5, <1>6, <1>7

\* Event::Trigger: what it is to call is what there is.
LEMMA TriggerStartsWalk ==
    ASSUME ListenersOK, NEW c \in Components, NEW flag \in {"CREATE", "EDIT", "DESTROY"},
           Trigger(c, flag), handle' = handle, Listeners' = Listeners
    PROVE  WalkOK' /\ WalkTypeOK'
  <1> DEFINE n == Len(Entries)
  <1>1. walk' = [component |-> c, flag |-> flag, at |-> 1, end |-> n, called |-> {},
                 began |-> [k \in 1 .. n |-> Listeners[Entries[k]]]]
    BY DEF Trigger, TriggerFirst
  <1>2. n \in Nat /\ Entries' = Entries /\ \A k \in 1 .. n : Entries[k] \in Taken
    BY EntriesAreListeners DEF Entries
  <1>3. \A k \in 1 .. n : Listeners[Entries[k]] \in Users
    BY <1>2 DEF ListenersOK, Taken
  <1> HIDE DEF n
  <1>4. walk'.began \in Seq(Users) /\ Len(walk'.began) = n
    BY <1>1, <1>2, <1>3
  <1>5. WalkTypeOK'
    BY <1>1, <1>2, <1>4 DEF WalkTypeOK
  <1>6. Slid' = 0 /\ walk'.at = 1 /\ walk'.end = n
    BY <1>1, <1>2 DEF Slid, n
  <1>7. Ahead'
    <2>1. \A k \in 1 .. n : walk'.began[k] = Listeners'[Entries'[k]]
      BY <1>1, <1>2
    <2> QED
      BY <1>2, <1>6, <2>1 DEF Ahead, n
  <1>8. Passed' /\ Whole' /\ CalledLetGo'
    BY <1>1, <1>6, <1>2 DEF Passed, Whole, CalledLetGo
  <1>9. WereThere'
    <2> SUFFICES ASSUME NEW u \in Users, handle[u] # -1
                 PROVE  \E k \in 1 .. n : walk'.began[k] = u
      BY <1>6 DEF WereThere
    <2>1. handle[u] \in Taken /\ Listeners[handle[u]] = u
      BY NoneAssumption DEF ListenersOK, Taken
    <2>2. PICK k \in 1 .. n : Entries[k] = handle[u]
      BY <2>1, EntriesAreListeners DEF n
    <2> QED
      BY <1>1, <2>1, <2>2
  <1> QED
    BY <1>2, <1>4, <1>5, <1>6, <1>7, <1>8, <1>9 DEF WalkOK, n

\* A turn calls the next that is listed; if that one leaves, the one behind it
\* slides and the walk is one further among those it began with.
LEMMA TurnKeepsWalk ==
    ASSUME ListenersOK, WalkOK, WalkTypeOK, CallListener
    PROVE  ListenersOK' /\ WalkOK' /\ WalkTypeOK'
  <1> DEFINE a == walk.at
             n == walk.end
             m == Len(Entries)
             u == Listeners[Entries[a]]
  <1>1. /\ n \in Nat /\ m \in Nat /\ a \in 1 .. n /\ a <= m /\ m <= n
        /\ Slid = n - m /\ Slid < a /\ Len(walk.began) = n
        /\ Ahead /\ Passed /\ Whole /\ CalledLetGo /\ WereThere
    BY EntriesAreListeners DEF CallListener, WalkOK, WalkTypeOK, Slid
  <1>2. Entries[a] \in IDs /\ u \in Users /\ handle[u] = Entries[a]
    <2>1. Entries[a] \in Taken
      BY <1>1, EntriesAreListeners
    <2> HIDE DEF a
    <2> QED
      BY <2>1 DEF ListenersOK, Taken
  <1>3. /\ walk' = [walk EXCEPT !.at = a + 1, !.called = walk.called \cup {u}]
        /\ components' = components
        /\ IF MustUnbind(u) THEN DoUnbind(u) ELSE UNCHANGED <<bound, handle, Listeners>>
    BY DEF CallListener
  <1>4. u = walk.began[a + Slid] /\ a + Slid \in 1 .. n
    <2>1. a \in a .. m /\ \A j \in a .. m : Listeners[Entries[j]] = walk.began[j + Slid]
      BY <1>1 DEF Ahead
    <2>2. a + Slid \in 1 .. n
      BY <1>1
    <2> HIDE DEF a, m, n
    <2> QED
      BY <2>1, <2>2
  <1> HIDE DEF u
  <1>5. WalkTypeOK'
    <2>1. a + 1 \in Nat /\ walk.called \cup {u} \in SUBSET Users
      BY <1>1, <1>2 DEF WalkTypeOK
    <2> HIDE DEF a
    <2> QED
      BY <1>3, <2>1 DEF WalkTypeOK
  <1>6. /\ walk'.component = walk.component /\ walk'.flag = walk.flag
        /\ walk'.end = n /\ walk'.began = walk.began
        /\ walk'.at = a + 1 /\ walk'.called = walk.called \cup {u}
    BY <1>3 DEF WalkTypeOK
  <1>7. UnderWay
    BY DEF CallListener
  <1> HIDE DEF a, n, m
  <1>8. CASE ~MustUnbind(u)
    <2>1. UNCHANGED <<bound, handle, Listeners>> /\ Entries' = Entries /\ Slid' = Slid
      BY <1>3, <1>6, <1>8 DEF Entries, Slid, n
    <2>2. ListenersOK'
      BY <1>3, <2>1 DEF ListenersOK
    <2>3. Ahead'
      BY <1>1, <1>6, <2>1 DEF Ahead, a, m
    <2>4. Passed'
      <3> SUFFICES ASSUME NEW k \in 1 .. n, k < (a + 1) + Slid
                   PROVE  walk.began[k] \in walk.called \cup {u} \/ BehindLeaver(k)'
        BY <1>6, <2>1 DEF Passed
      <3>1. k < a + Slid \/ k = a + Slid
        BY <1>1
      <3>2. BehindLeaver(k)' <=> BehindLeaver(k)
        BY <1>6, <2>1 DEF BehindLeaver
      <3> QED
        BY <1>1, <1>4, <3>1, <3>2 DEF Passed, a, n
    <2>5. Whole'
      <3> SUFFICES ASSUME Slid = 0 \/ a + 1 > n, NEW k \in 1 .. n, k < a + 1
                   PROVE  walk.began[k] \in walk.called \cup {u}
        BY <1>6, <2>1 DEF Whole
      <3>1. Slid = 0 /\ (k < a \/ k = a + Slid)
        BY <1>1
      <3>2. CASE k < a
        BY <1>1, <3>1, <3>2 DEF Whole, a, n
      <3> QED
        BY <1>4, <3>1, <3>2
    <2>6. CalledLetGo'
      BY <1>1, <1>6, <1>8, <2>1 DEF CalledLetGo, MustUnbind
    <2>7. WereThere'
      BY <1>1, <1>6, <2>1 DEF WereThere, n
    <2> QED
      BY <1>1, <1>5, <1>6, <2>1, <2>2, <2>3, <2>4, <2>5, <2>6, <2>7 DEF WalkOK, m
  <1>9. CASE MustUnbind(u)
    <2>1. /\ bound[u] # {} /\ DoUnbind(u)
          /\ bound' = [bound EXCEPT ![u] = {}] /\ handle' = [handle EXCEPT ![u] = -1]
          /\ Listeners' = [Listeners EXCEPT ![Entries[a]] = None]
      BY <1>2, <1>3, <1>9 DEF MustUnbind, DoUnbind
    <2>2. ListenersOK'
      BY <1>2, <1>3, <2>1, UnbindKeepsListeners
    <2>3. Len(Entries') = m - 1 /\ \A j \in a .. m - 1 : Entries'[j] = Entries[j + 1]
      <3>1. a \in 1 .. Len(Entries) /\ Listeners \in [IDs -> Users \cup {None}]
        BY <1>1 DEF m, ListenersOK
      <3> QED
        BY <2>1, <3>1, EntriesSlide DEF m
    <2>4. Slid' = Slid + 1
      BY <1>1, <1>6, <2>3 DEF Slid
    <2>5. Ahead'
      <3> SUFFICES ASSUME NEW j \in a + 1 .. m - 1
                   PROVE  Listeners'[Entries'[j]] = walk.began[j + (Slid + 1)]
        BY <1>6, <2>3, <2>4 DEF Ahead
      <3>1. j + 1 \in a .. m /\ j + 1 \in 1 .. m /\ a < j + 1 /\ a \in 1 .. m
        BY <1>1
      <3>2. Entries[j + 1] # Entries[a] /\ Entries[j + 1] \in IDs
        BY <3>1, EntriesAreListeners DEF m, Taken
      <3>3. Listeners'[Entries'[j]] = Listeners[Entries[j + 1]]
        BY <1>1, <2>1, <2>3, <3>2 DEF ListenersOK
      <3>4. Listeners[Entries[j + 1]] = walk.began[(j + 1) + Slid]
        BY <1>1, <3>1 DEF Ahead, a, m
      <3> QED
        BY <1>1, <3>1, <3>3, <3>4
    <2>6. Passed'
      <3> SUFFICES ASSUME NEW k \in 1 .. n, k < (a + 1) + (Slid + 1)
                   PROVE  walk.began[k] \in walk.called \cup {u} \/ BehindLeaver(k)'
        BY <1>6, <2>4 DEF Passed
      <3>1. k < a + Slid \/ k = a + Slid \/ (k = (a + Slid) + 1 /\ k - 1 = a + Slid /\ k > 1)
        BY <1>1
      <3>2. CASE k < a + Slid
        <4>1. walk.began[k] \in walk.called \/ BehindLeaver(k)
          BY <1>1, <3>2 DEF Passed, a, n
        <4>2. ASSUME BehindLeaver(k) PROVE BehindLeaver(k)'
          <5>1. k > 1 /\ handle[walk.began[k - 1]] = -1
            BY <4>2 DEF BehindLeaver
          <5>2. k - 1 \in 1 .. Len(walk.began) /\ walk.began \in Seq(Users)
            BY <1>1, <5>1 DEF WalkTypeOK
          <5>3. walk.began[k - 1] \in Users
            BY <5>2
          <5>4. handle'[walk.began[k - 1]] = -1
            BY <2>1, <5>1, <5>3 DEF ListenersOK
          <5> QED
            BY <1>6, <5>1, <5>4 DEF BehindLeaver
        <4> QED
          BY <4>1, <4>2
      <3>3. CASE k = a + Slid
        BY <1>4, <3>3
      <3>4. CASE k = (a + Slid) + 1 /\ k - 1 = a + Slid /\ k > 1
        <4>1. handle'[u] = -1
          BY <1>2, <2>1 DEF ListenersOK
        <4> QED
          BY <1>4, <1>6, <3>4, <4>1 DEF BehindLeaver
      <3> QED
        BY <3>1, <3>2, <3>3, <3>4
    <2>7. Whole'
      <3> SUFFICES ASSUME Slid + 1 = 0 \/ a + 1 > n, NEW k \in 1 .. n, k < a + 1
                   PROVE  walk.began[k] \in walk.called \cup {u}
        BY <1>6, <2>4 DEF Whole
      <3>1. Slid = 0 /\ (k < a \/ k = a + Slid)
        BY <1>1
      <3>2. CASE k < a
        BY <1>1, <3>1, <3>2 DEF Whole, a, n
      <3> QED
        BY <1>4, <3>1, <3>2
    <2>8. CalledLetGo'
      <3>1. bound'[u] = {} /\ \A v \in Users \ {u} : bound'[v] = bound[v]
        BY <1>2, <2>1 DEF ListenersOK
      <3>2. walk.called \subseteq Users
        BY DEF WalkTypeOK
      <3> QED
        BY <1>1, <1>2, <1>6, <3>1, <3>2 DEF CalledLetGo
    <2>9. WereThere'
      <3>1. \A v \in Users : handle'[v] # -1 => handle[v] # -1
        BY <2>1 DEF ListenersOK
      <3> QED
        BY <1>1, <1>6, <3>1 DEF WereThere, n
    <2> QED
      BY <1>1, <1>5, <1>6, <2>2, <2>3, <2>4, <2>5, <2>6, <2>7, <2>8, <2>9 DEF WalkOK
  <1> QED
    BY <1>8, <1>9

\* The component goes when nobody is bound to it any more.
LEMMA EndKeepsListeners ==
    ASSUME ListenersOK, WalkOK, WalkTypeOK, EndTrigger
    PROVE  ListenersOK' /\ WalkOK' /\ WalkTypeOK'
  <1>1. /\ UnderWay /\ walk.at > walk.end /\ walk' = Idle
        /\ components' = components \ When(walk.flag = "DESTROY", walk.component)
        /\ UNCHANGED <<bound, handle, Listeners>>
    BY DEF EndTrigger
  <1>2. ASSUME walk.flag = "DESTROY", NEW u \in Users, walk.component \in bound[u]
        PROVE  FALSE
    <2>1. handle[u] # -1
      BY <1>2 DEF ListenersOK
    <2>2. PICK k \in 1 .. walk.end : walk.began[k] = u
      BY <1>1, <2>1 DEF WalkOK, WereThere
    <2>3. u \in walk.called
      BY <1>1, <2>2 DEF WalkOK, Whole, WalkTypeOK
    <2> QED
      BY <1>1, <1>2, <2>3 DEF WalkOK, CalledLetGo
  <1>3. bound' \in [Users -> SUBSET components']
    BY <1>1, <1>2 DEF ListenersOK, When
  <1>4. ListenersOK'
    BY <1>1, <1>3 DEF ListenersOK
  <1>5. WalkOK' /\ WalkTypeOK'
    BY <1>1, SMT DEF WalkOK, UnderWay, WalkTypeOK, Idle
  <1> QED
    BY <1>4, <1>5

EventsOK == ListenersOK /\ WalkOK /\ WalkTypeOK

\* What the next step of a walk finds depends on these alone.
LEMMA WalkStays ==
    ASSUME EventsOK, UNCHANGED eventVars
    PROVE  EventsOK'
  <1>1. Entries' = Entries
    BY DEF eventVars, Entries
  <1>2. ListenersOK' /\ WalkTypeOK'
    BY DEF EventsOK, ListenersOK, WalkTypeOK, eventVars
  <1>3. WalkOK'
    BY <1>1 DEF EventsOK, eventVars, WalkOK, UnderWay, Slid, Ahead, Passed, BehindLeaver, Whole, CalledLetGo, WereThere
  <1> QED
    BY <1>2, <1>3 DEF EventsOK

\* Listeners and the walk of Trigger are in order in every state, for any finite
\* set of users, whoever leaves during a walk (event_listener_handle,
\* event::Trigger, map::Erase).
THEOREM EventsInvariance == DomainSpec => []EventsOK
  <1>1. DomainInit => EventsOK
    BY IDsAreFinite DEF DomainInit, EventsInit, EventsOK, ListenersOK, WalkOK, UnderWay, WalkTypeOK, Idle
  <1>2. ASSUME EventsOK, [DomainNext]_domainVars
        PROVE  EventsOK'
    <2>1. ListenersOK /\ WalkOK /\ WalkTypeOK
      BY <1>2 DEF EventsOK
    <2>2. ASSUME NEW c \in Components, NEW flag \in {"CREATE", "EDIT", "DESTROY"}, Trigger(c, flag),
                 UNCHANGED <<bound, handle, Listeners>>, components \subseteq components'
          PROVE  EventsOK'
      <3>1. WalkOK' /\ WalkTypeOK'
        BY <2>1, <2>2, TriggerStartsWalk
      <3>2. ListenersOK'
        BY <2>1, <2>2 DEF ListenersOK
      <3> QED
        BY <3>1, <3>2 DEF EventsOK
    <2>3. CASE EditorStep
      <3>1. CASE Trigger(Edited, "EDIT")
        BY <2>2, <2>3, <3>1, EditedAssumption DEF EditorStep
      <3>2. CASE UNCHANGED walk
        BY <1>2, <2>3, <3>2, WalkStays DEF EditorStep, eventVars
      <3> QED
        BY <2>3, <3>1, <3>2 DEF EditorStep, TellOfEdit
    <2>4. CASE EventStep
      <3>1. ASSUME NEW c \in Components, CreateComponent(c)
            PROVE  EventsOK'
        BY <2>2, <3>1 DEF CreateComponent
      <3>2. ASSUME NEW u \in Users, Unbind(u)
            PROVE  EventsOK'
        BY <2>1, <3>2, UnbindKeepsListeners DEF Unbind, EventsOK, WalkOK, UnderWay, WalkTypeOK
      <3>3. ASSUME NEW u \in Users, NEW C \in SUBSET components, Bind(u, C)
            PROVE  EventsOK'
        BY <2>1, <3>3, BindKeepsListeners DEF Bind, EventsOK, WalkOK, UnderWay, WalkTypeOK
      <3>4. CASE CallListener
        BY <2>1, <3>4, TurnKeepsWalk DEF EventsOK
      <3>5. CASE CallNobody
        <4>1. walk' = Dead /\ UNCHANGED <<components, bound, handle, Listeners>>
          BY <3>5 DEF CallNobody
        <4>2. ListenersOK'
          BY <2>1, <4>1 DEF ListenersOK
        <4>3. WalkOK'
          BY <4>1 DEF WalkOK, UnderWay
        <4>4. Dead = [component |-> None, flag |-> "DEAD", at |-> 1, end |-> 0, began |-> <<>>,
                      called |-> {}]
          BY DEF Dead, Idle
        <4>5. WalkTypeOK'
          BY <4>1, <4>4 DEF WalkTypeOK
        <4> QED
          BY <4>2, <4>3, <4>5 DEF EventsOK
      <3>6. CASE EndTrigger
        BY <2>1, <3>6, EndKeepsListeners DEF EventsOK
      <3> QED
        BY <2>4, <3>1, <3>2, <3>3, <3>4, <3>5, <3>6 DEF EventStep, Use, Walk
    <2>5. ASSUME NEW c \in Components, DestroyStep(c)
          PROVE  EventsOK'
      BY <2>2, <2>5 DEF DestroyStep, DestroyComponent
    <2>6. CASE UNCHANGED domainVars
      BY <1>2, <2>6, WalkStays DEF domainVars
    <2> QED
      BY <1>2, <2>3, <2>4, <2>5, <2>6 DEF DomainNext
  <1> QED
    BY <1>1, <1>2, PTL DEF DomainSpec

\* When Trigger calls nobody any more, each listener has been called that was
\* there when it began, but for those right behind one that left meanwhile
\* (event::Trigger, event_listener_handle::Reset).
THEOREM NoOthersAreMissed == DomainSpec => []OnlySlidAreMissed
  <1>1. EventsOK => OnlySlidAreMissed
    <2> SUFFICES ASSUME EventsOK, Through, NEW k \in 1 .. Len(walk.began)
                 PROVE  walk.began[k] \in walk.called \/ BehindLeaver(k)
      BY DEF OnlySlidAreMissed
    <2>1. /\ WalkOK /\ UnderWay /\ walk.at \in Nat /\ walk.end \in Nat /\ Len(Entries) \in Nat
          /\ walk.at > walk.end \/ walk.at > Len(Entries)
      BY EntriesAreListeners DEF EventsOK, Through, Astray, WalkTypeOK
    <2>2. k \in 1 .. walk.end /\ k < walk.at + Slid
      BY <2>1 DEF WalkOK, Slid
    <2> QED
      BY <2>1, <2>2 DEF WalkOK, Passed
  <1> QED
    BY <1>1, EventsInvariance, PTL

\* When the end of a component has been told to all it is told to, only such a
\* listener can still be bound to it (assembler::OnComponentEvent_,
\* exchanger::OnComponentEvent_).
THEOREM NoOthersStayBound == DomainSpec => []OnlySlidStayBound
  <1>1. EventsOK /\ OnlySlidAreMissed => OnlySlidStayBound
    <2> SUFFICES ASSUME EventsOK, OnlySlidAreMissed, Through, walk.flag = "DESTROY",
                        NEW u \in Users, walk.component \in bound[u]
                 PROVE  \E k \in 1 .. Len(walk.began) : walk.began[k] = u /\ BehindLeaver(k)
      BY DEF OnlySlidStayBound
    <2>1. WalkOK /\ UnderWay /\ ListenersOK
      BY DEF EventsOK, Through
    <2>2. PICK k \in 1 .. Len(walk.began) : walk.began[k] = u
      BY <2>1 DEF WalkOK, WereThere, ListenersOK
    <2>3. u \notin walk.called
      BY <2>1 DEF WalkOK, CalledLetGo
    <2> QED
      BY <2>2, <2>3 DEF OnlySlidAreMissed
  <1> QED
    BY <1>1, EventsInvariance, NoOthersAreMissed, PTL
-----------------------------------------------------------------------------
\* A program that sees to it that no listener is behind one that has to leave.
OnlyLastUnbinds(c) == \A u \in Users : c \in bound[u] => u = Listeners[Last(Entries)]

LetsGoLast == \A c \in Components : DestroyComponent(c) => OnlyLastUnbinds(c)

BoundToExisting == \A u \in Users : bound[u] \subseteq components

\* A walk whose last listener alone may leave stays whole until its last turn.
KeptWhole ==
    UnderWay =>
        /\ walk.at <= walk.end => Slid = 0
        /\ walk.at <= walk.end /\ walk.flag = "DESTROY" =>
              \A u \in Users : walk.component \in bound[u] => u = Listeners[Entries[walk.end]]

\* In such a program no walk goes astray, everybody bound to a component has let
\* go of it before it is erased, and nobody is ever bound to one that is not there.
\* The condition is the program's to keep: DestroyComponent looks at nothing of the
\* kind, and a program that breaks it dies in the walk (CallNobody).
THEOREM UsersHaveComponents ==
    DomainSpec /\ [][LetsGoLast]_domainVars => [](BoundToExisting /\ ~Astray)
  <1>1. DomainInit => KeptWhole
    BY DEF DomainInit, EventsInit, KeptWhole, UnderWay
  <1>2. ASSUME EventsOK, KeptWhole, [DomainNext]_domainVars, [LetsGoLast]_domainVars
        PROVE  KeptWhole'
    <2>1. ListenersOK /\ WalkOK /\ WalkTypeOK
      BY <1>2 DEF EventsOK
    <2>2. ASSUME NEW c, NEW flag, Trigger(c, flag), flag = "DESTROY" => OnlyLastUnbinds(c),
                 UNCHANGED <<bound, Listeners>>
          PROVE  KeptWhole'
      <3>1. walk'.end = Len(Entries) /\ walk'.flag = flag /\ walk'.component = c /\ Entries' = Entries
        BY <2>2 DEF Trigger, TriggerFirst, Entries
      <3>2. Slid' = 0
        BY <3>1, EntriesAreListeners DEF Slid
      <3> QED
        BY <2>2, <3>1, <3>2 DEF KeptWhole, OnlyLastUnbinds, Last
    <2>3. CASE UNCHANGED <<bound, Listeners, walk>>
      BY <1>2, <2>3 DEF KeptWhole, UnderWay, Slid, Entries
    <2>4. CASE walk' = Idle \/ walk' = Dead
      BY <2>4 DEF KeptWhole, UnderWay
    <2>5. CASE EditorStep
      BY <2>2, <2>3, <2>5 DEF EditorStep, TellOfEdit
    <2>6. CASE CallListener
      <3> DEFINE a == walk.at
                 u == Listeners[Entries[a]]
      <3>1. /\ a \in 1 .. walk.end /\ a <= Len(Entries) /\ UnderWay /\ Slid = 0
            /\ walk.end \in Nat /\ Len(Entries) \in Nat /\ walk.end = Len(Entries)
        BY <1>2, <2>1, <2>6, EntriesAreListeners DEF CallListener, KeptWhole, WalkOK, Slid, WalkTypeOK
      <3>2. /\ walk'.at = a + 1 /\ walk'.end = walk.end
            /\ walk'.flag = walk.flag /\ walk'.component = walk.component
            /\ IF MustUnbind(u) THEN DoUnbind(u) ELSE UNCHANGED <<bound, handle, Listeners>>
        BY <2>1, <2>6 DEF CallListener, WalkTypeOK
      <3>3. Entries[a] \in Taken /\ u \in Users /\ handle[u] = Entries[a]
        <4>1. Entries[a] \in Taken
          BY <3>1, EntriesAreListeners
        <4> HIDE DEF a
        <4> QED
          BY <2>1, <4>1 DEF ListenersOK, Taken
      <3>4. CASE MustUnbind(u)
        <4>1. u = Listeners[Entries[walk.end]]
          BY <1>2, <3>1, <3>3, <3>4 DEF KeptWhole, MustUnbind
        <4>2. walk.end \in 1 .. Len(Entries) /\ Entries[walk.end] \in Taken
          BY <3>1, EntriesAreListeners
        <4>3. handle[u] = Entries[walk.end]
          BY <2>1, <4>1, <4>2 DEF ListenersOK, Taken
        <4>4. ~(a < walk.end)
          BY <3>1, <3>3, <4>2, <4>3, EntriesAreListeners
        <4>5. walk'.at > walk'.end /\ walk'.at \in Nat /\ walk'.end \in Nat
          BY <3>1, <3>2, <4>4
        <4> QED
          BY <4>5 DEF KeptWhole
      <3>5. CASE ~MustUnbind(u)
        <4>1. UNCHANGED <<bound, handle, Listeners>> /\ Entries' = Entries /\ Slid' = Slid
          BY <3>2, <3>5 DEF Entries, Slid
        <4> HIDE DEF a, u
        <4> QED
          BY <1>2, <3>1, <3>2, <4>1 DEF KeptWhole, a
      <3> QED
        BY <3>4, <3>5
    <2>7. CASE EventStep
      <3>1. ASSUME NEW c \in Components, CreateComponent(c)
            PROVE  KeptWhole'
        BY <2>2, <3>1 DEF CreateComponent
      <3>2. ASSUME NEW u \in Users, Unbind(u) \/ \E C \in SUBSET components : Bind(u, C)
            PROVE  KeptWhole'
        BY <2>4, <3>2 DEF Unbind, Bind
      <3> QED
        BY <2>4, <2>6, <2>7, <3>1, <3>2 DEF EventStep, Use, Walk, CallNobody, EndTrigger
    <2>8. ASSUME NEW c \in Components, DestroyStep(c)
          PROVE  KeptWhole'
      <3>1. DestroyComponent(c)
        BY <2>8 DEF DestroyStep
      <3>2. CASE UNCHANGED domainVars
        BY <2>3, <3>2 DEF domainVars, eventVars
      <3>3. CASE LetsGoLast
        BY <2>2, <3>1, <3>3 DEF LetsGoLast, DestroyComponent
      <3> QED
        BY <1>2, <3>2, <3>3
    <2>9. CASE UNCHANGED domainVars
      BY <2>3, <2>9 DEF domainVars, eventVars
    <2> QED
      BY <1>2, <2>5, <2>7, <2>8, <2>9 DEF DomainNext
  <1>3. EventsOK /\ KeptWhole => BoundToExisting /\ ~Astray
    BY EntriesAreListeners
       DEF EventsOK, ListenersOK, BoundToExisting, KeptWhole, Astray, Slid, WalkTypeOK
  <1> QED
    BY <1>1, <1>2, <1>3, EventsInvariance, PTL DEF DomainSpec
=============================================================================
