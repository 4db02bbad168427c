----------------------------- MODULE Exchanger ------------------------------
(***************************************************************************)
(* exchanger: bound to a domain, it listens to the events of one           *)
(* connectivity component and keeps, on each rank, data derived from each  *)
(* connectivity: a local entry for each side the rank holds, the ranks its *)
(* donors send to and its receivers hear from, and the maps that sends and *)
(* receives are built on.  Events only note in UpdateManifest_ what must   *)
(* be brought up to date; Update_ does it at the end of the batch.         *)
(*                                                                         *)
(* The component is module PairComponent; each of its steps is followed,   *)
(* within the step, by the exchanger's answer to the events it raised.     *)
(* What a derived datum holds is not modelled, but how far behind it is:   *)
(* the edits made to its connectivity that it does not take account of.    *)
(***************************************************************************)
EXTENDS PairComponent

ASSUME ExchangerAssumption ==
    /\ MFlags = {"EDIT_M_EXTENTS", "EDIT_M_DESTINATIONS"}
    /\ NFlags = {"EDIT_N_POINTS", "EDIT_N_SOURCES"}

\* The exchanges that users make: collects and sends on the ranks of grid M,
\* receives and disperses on those of grid N, one of a kind for each pair.
Kinds == {"collect", "send", "receive", "disperse"}
CONSTANT ExchangesMade
ASSUME ExchangesAssumption == ExchangesMade \subseteq Pairs \X Kinds

VARIABLES
    bound,      \* Domain_ is set (on all ranks: Bind and Unbind are collective)
    local       \* local[r]: the exchanger's state on rank r

exVars == <<bound, local>>
vars == <<pairVars, bound, local>>

\* LocalMs_, LocalNs_ (ms, ns), the four sets of UpdateManifest_, the edits the
\* source and destination ranks, the maps of sends and receives (which are made
\* from these ranks), those of collects and disperses (which are not) and the
\* exchanges built on them are behind; lost collects pairs looked up in vain.
Empty == [ms |-> {}, ns |-> {}, create |-> {}, destroy |-> {}, ranks |-> {}, reset |-> {},
          ranksBehind |-> {}, mapsBehind |-> {}, ownMapsBehind |-> {},
          exchanges |-> {}, exchangesBehind |-> {}, lost |-> {}]

Init ==
    /\ PairInit
    /\ bound = FALSE
    /\ local = [r \in Ranks |-> Empty]
-----------------------------------------------------------------------------
\* CreateLocals_: points each new entry at the component's own side.
CreateLocals(x, r, seen) ==
    LET ms == {k \in x.create : r \in seen.place[k[1]]}
        ns == {k \in x.create : r \in seen.place[k[2]]}
    IN  [x EXCEPT !.ms = @ \cup ms, !.ns = @ \cup ns,
                  !.lost = @ \cup (ms \ seen.ms) \cup (ns \ seen.ns)]

\* DestroyLocals_: an entry goes with everything that was derived for it.
Without(x, K) ==
    [x EXCEPT !.ms = @ \ K, !.ns = @ \ K,
              !.ranksBehind = {e \in @ : e[1] \notin K},
              !.mapsBehind = {e \in @ : e[1] \notin K},
              !.ownMapsBehind = {e \in @ : e[1] \notin K},
              !.exchanges = {h \in @ : h[1] \notin K},
              !.exchangesBehind = {h \in @ : h[1] \notin K}]

DestroysNothing(x) == x         \* DestroyLocals_ not called
DestroyLocals(x) == Without(x, x.destroy)

\* The entries of the pairs K that rank r must have, but has not.
Missing(x, r, seen, K) ==
    {k \in K : (r \in seen.place[k[1]] /\ k \notin x.ms) \/ (r \in seen.place[k[2]] /\ k \notin x.ns)}

\* UpdateSourceDestRanks_: all ranks find each other's ranks anew for the pairs
\* noted, from the extents, destinations, points and sources of this moment.
UpdateSourceDestRanks(x, r, seen) ==
    [x EXCEPT !.ranksBehind = {e \in @ : e[1] \notin x.ranks},
              !.lost = @ \cup Missing(x, r, seen, x.ranks)]

\* ResetExchanges_: drops the exchanges of the pairs noted and builds new maps,
\* those of sends and receives on ranks that may themselves be behind.
ResetExchanges(x, r, seen) ==
    [x EXCEPT !.exchanges = {h \in @ : h[1] \notin x.reset},
              !.exchangesBehind = {h \in @ : h[1] \notin x.reset},
              !.mapsBehind = {e \in @ : e[1] \notin x.reset} \cup
                             {e \in x.ranksBehind : e[1] \in x.reset},
              !.ownMapsBehind = {e \in @ : e[1] \notin x.reset},
              !.lost = @ \cup Missing(x, r, seen, x.reset)]

\* Update_: the four in this order, then a clean manifest.
ResetBeforeRanks(x, r, seen) ==       \* the last two the other way round
    LET created == CreateLocals(x, r, seen)
        destroyed == DestroyLocals(created)
        reset == ResetExchanges(destroyed, r, seen)
        ranked == UpdateSourceDestRanks(reset, r, seen)
    IN  [ranked EXCEPT !.create = {}, !.destroy = {}, !.ranks = {}, !.reset = {}]

Update(x, r, seen) ==
    LET created == CreateLocals(x, r, seen)
        destroyed == DestroyLocals(created)
        ranked == UpdateSourceDestRanks(destroyed, r, seen)
        reset == ResetExchanges(ranked, r, seen)
    IN  [reset EXCEPT !.create = {}, !.destroy = {}, !.ranks = {}, !.reset = {}]

\* OnConnectivityEvent_: destinations and sources are what the ranks are found by.
RankEdits == {"EDIT_M_DESTINATIONS", "EDIT_N_SOURCES"}
When(condition, id) == IF condition THEN {id} ELSE {}

Note(x, e) ==
    LET Creates == "CREATE" \in e.flags
        EditAny == e.flags \cap Edits # {}
        EditRanks == e.flags \cap RankEdits # {}
    IN  [x EXCEPT !.create = @ \cup When(Creates, e.id),
                  !.destroy = @ \cup When("DESTROY" \in e.flags, e.id),
                  !.ranks = @ \cup When(Creates \/ EditRanks, e.id),
                  !.reset = @ \cup When(Creates \/ EditAny, e.id)]

OnConnectivityEvent(x, r, e) ==
    IF e.last THEN Update(Note(x, e), r, e.seen) ELSE Note(x, e)

\* The exchanger's listener is called for each event of the log in turn.
Answer(x, r, events) ==
    LET after[i \in 0 .. Len(events)] ==
            IF i = 0 THEN x ELSE OnConnectivityEvent(after[i - 1], r, events[i])
    IN  after[Len(events)]

Listen ==
    /\ local' = [r \in Ranks |-> IF bound THEN Answer(local[r], r, log'[r]) ELSE local[r]]
    /\ UNCHANGED bound

\* Edits of a pair leave all that was derived from the pair behind, on every
\* rank: the ranks of one side are found by way of the other side.
FallBehind(x, k, flags) ==
    LET edits == IF k \in x.ms \cup x.ns THEN {k} \X flags ELSE {}
    IN  [x EXCEPT !.ranksBehind = @ \cup edits,
                  !.mapsBehind = @ \cup edits,
                  !.ownMapsBehind = @ \cup edits,
                  !.exchangesBehind = @ \cup {<<k, h[2], f>> :
                      h \in {g \in x.exchanges : g[1] = k}, f \in flags}]

FallsBehind(k, flags) ==
    /\ local' = [r \in Ranks |-> FallBehind(local[r], k, flags)]
    /\ UNCHANGED bound
-----------------------------------------------------------------------------
\* Bind: every connectivity there is needs everything.
Bind ==
    /\ ~bound /\ toCreate = {}
    /\ bound' = TRUE
    /\ local' = [r \in Ranks |->
                    Update([local[r] EXCEPT !.create = @ \cup Records[r],
                                            !.ranks = @ \cup Records[r],
                                            !.reset = @ \cup Records[r]], r, Present(r))]
    /\ UNCHANGED pairVars

\* Unbind: the locals go; UpdateManifest_ is left as it is.
Unbind ==
    /\ bound /\ toCreate = {}
    /\ bound' = FALSE
    /\ local' = [r \in Ranks |-> Without(local[r], local[r].ms \cup local[r].ns)]
    /\ UNCHANGED pairVars

\* domain::DestroyComponent, which unbinds the exchanger (OnComponentEvent_),
\* and a new component under the same ID.
ReplaceComponent ==
    /\ toCreate = {}
    /\ bound' = FALSE
    /\ local' = [r \in Ranks |-> IF bound THEN Without(local[r], local[r].ms \cup local[r].ns)
                                          ELSE local[r]]
    /\ Records' = [r \in Ranks |-> {}]
    /\ LocalMs' = [r \in Ranks |-> {}]
    /\ LocalNs' = [r \in Ranks |-> {}]
    /\ EventFlags' = [r \in Ranks |-> {}]
    /\ unheard' = [r \in Ranks |-> {}]
    /\ log' = [r \in Ranks |-> <<>>]
    /\ UNCHANGED <<place, toCreate>>

\* CollectExists, SendExists and so on: an exchange of that kind and ID.
Exists(r, k, kind) == <<k, kind>> \in local[r].exchanges

\* Collects and disperses are built on one map, sends and receives on another.
MapBehind(x, kind) == IF kind \in {"collect", "disperse"} THEN x.ownMapsBehind ELSE x.mapsBehind

\* The ranks of a grid make an exchange on the map that they have for it.
Adds(ranks, k, kind) ==
    /\ bound /\ toCreate = {}
    /\ <<k, kind>> \in ExchangesMade /\ ranks # {}
    /\ \A r \in ranks : k \in Records[r] /\ ~Exists(r, k, kind)
    /\ local' = [r \in Ranks |->
                    IF r \in ranks
                    THEN [local[r] EXCEPT
                            !.exchanges = @ \cup {<<k, kind>>},
                            !.exchangesBehind = @ \cup {<<k, kind, e[2]>> :
                                e \in {d \in MapBehind(local[r], kind) : d[1] = k}}]
                    ELSE local[r]]
    /\ UNCHANGED <<pairVars, bound>>

CreateCollect(k) == Adds(place[k[1]], k, "collect")
CreateSend(k) == Adds(place[k[1]], k, "send")
CreateReceive(k) == Adds(place[k[2]], k, "receive")
CreateDisperse(k) == Adds(place[k[2]], k, "disperse")

\* They drop it; others of the pair stay.
Drops(ranks, k, kind) ==
    /\ bound /\ toCreate = {} /\ ranks # {}
    /\ \A r \in ranks : k \in Records[r] /\ Exists(r, k, kind)
    /\ local' = [r \in Ranks |->
                    IF r \in ranks
                    THEN [local[r] EXCEPT
                            !.exchanges = @ \ {<<k, kind>>},
                            !.exchangesBehind = {h \in @ : h[1] # k \/ h[2] # kind}]
                    ELSE local[r]]
    /\ UNCHANGED <<pairVars, bound>>

DestroyCollect(k) == Drops(place[k[1]], k, "collect")
DestroySend(k) == Drops(place[k[1]], k, "send")
DestroyReceive(k) == Drops(place[k[2]], k, "receive")
DestroyDisperse(k) == Drops(place[k[2]], k, "disperse")

\* A step of the component, and the exchanger's part in it.
ComponentStep ==
    \/ /\ EndEdit \/ CreateForAssembly
       /\ Listen
    \/ \E k \in Pairs : (CreateOne(k) \/ DestroyOne(k)) /\ Listen
    \/ \E K \in (SUBSET Pairs) \ {{}} : (Create(K) \/ Destroy(K)) /\ Listen
    \/ \E K \in SUBSET Pairs : ClearForAssembly(K) /\ Listen
    \/ \E g \in GridIDs, P \in Placements : CreateGrid(g, P) /\ Listen
    \/ \E G \in (SUBSET GridIDs) \ {{}} : DestroyGrids(G) /\ Listen
    \/ \E e \in EditsMade : (EditM(e[1], e[2]) \/ EditN(e[1], e[2])) /\ FallsBehind(e[1], {e[2]})
    \/ \E s \in Resized :
          \/ s[2] = "M" /\ ResizeM(s[1]) /\ FallsBehind(s[1], MFlags)
          \/ s[2] = "N" /\ ResizeN(s[1]) /\ FallsBehind(s[1], NFlags)

Next ==
    \/ ComponentStep
    \/ Bind \/ Unbind \/ ReplaceComponent
    \/ \E k \in Pairs :
          \/ CreateCollect(k) \/ CreateSend(k) \/ CreateReceive(k) \/ CreateDisperse(k)
          \/ DestroyCollect(k) \/ DestroySend(k) \/ DestroyReceive(k) \/ DestroyDisperse(k)

Spec == Init /\ [][Next]_vars
-----------------------------------------------------------------------------
\* The exchanger has an entry for exactly the sides the component has, so none
\* of its entries points at a connectivity that is gone; exchanges go with the
\* entry they were made for; and no look-up of an entry ever fails.
EntriesMatchComponent ==
    \A r \in Ranks :
        /\ local[r].ms = IF bound THEN LocalMs[r] ELSE {}
        /\ local[r].ns = IF bound THEN LocalNs[r] ELSE {}
        /\ \A h \in local[r].exchanges :
              h[1] \in IF h[2] \in {"collect", "send"} THEN local[r].ms ELSE local[r].ns
        /\ local[r].lost = {}

\* Nothing is left noted between operations: every batch has been acted on, and
\* a later Bind starts from a clean manifest.
ManifestActedOn ==
    \A r \in Ranks : /\ local[r].create = {} /\ local[r].destroy = {}
                     /\ local[r].ranks = {} /\ local[r].reset = {}

RankEditsMade == {"EDIT_M_DESTINATIONS", "EDIT_N_SOURCES"}
Outstanding(e) == \E q \in Ranks : e \in EventFlags[q]

\* The ranks follow every edit of destinations and sources, once synchronised.
RanksFollowEdits ==
    \A r \in Ranks : \A e \in local[r].ranksBehind :
        e[2] \in RankEditsMade => Outstanding(e)

\* No exchange survives on a map built before an edit that has been synchronised:
\* it is gone, and must be created again.  Collects and disperses, whose maps are
\* not made from the ranks, take account of every kind of edit.
NoExchangeOnOldMap ==
    \A r \in Ranks : \A h \in local[r].exchangesBehind :
        h[2] \in {"collect", "disperse"} \/ h[3] \in RankEditsMade => Outstanding(<<h[1], h[3]>>)

\* The maps that new sends and receives are built on follow those edits too:
\* they are rebuilt after the ranks they are made from, not before.
MapsFollowEdits ==
    \A r \in Ranks :
        /\ \A e \in local[r].mapsBehind : e[2] \in RankEditsMade => Outstanding(e)
        /\ \A e \in local[r].ownMapsBehind : Outstanding(e)

\* Between operations: an entry for each side there is, and nothing to be done.
EntriesInOrder == EntriesMatchComponent /\ ManifestActedOn

\* Ranks, maps and the exchanges built on them: each is made from what was last
\* synchronised of the one before.
DerivedFollowsEdits == RanksFollowEdits /\ MapsFollowEdits /\ NoExchangeOnOldMap
=============================================================================
