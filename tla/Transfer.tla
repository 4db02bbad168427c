------------------------------ MODULE Transfer ------------------------------
(***************************************************************************)
(* What an exchanger is for: the values at donors arrive at the receivers. *)
(* Ranks look up each other (module RankLookup), and then, round after     *)
(* round and each at its own pace, send and receive on every exchange, in  *)
(* any order, wait for the requests (module Requests), and put the values  *)
(* into the receiver grid.                                                 *)
(***************************************************************************)
EXTENDS Requests

VARIABLE
    field       \* field[r][x]: what the receiver grid holds of exchange x

vars == <<lookupVars, requestVars, field>>

Init ==
    /\ LookupInit
    /\ RequestsInit
    /\ field = [r \in Ranks |-> [x \in Exchanges |-> [p \in Range(Receivers(r)) |-> {}]]]

\* A point's value is replaced, or the new one added to it: a sum is the set of its terms.
Overwrite(old, value) == {value}
AddTo(old, value) == old \cup {value}

\* What a point holds after a disperse of the kind that was created; values of all types
\* and layouts are dispersed alike.
Dispersed(x, old, value) ==
    CASE x.op = "OVERWRITE" -> Overwrite(old, value)
      [] x.op = "APPEND" -> AddTo(old, value)

\* No request is left (WaitAny returns -1): the values are dispersed.
Disperse(r) ==
    /\ CalledAll(r)
    /\ live[r] = <<>>
    /\ round' = [round EXCEPT ![r] = @ + 1]
    /\ calls' = [calls EXCEPT ![r] = 0]
    /\ field' = [field EXCEPT ![r] = [x \in Exchanges |->
                    [p \in DOMAIN @[x] |-> Dispersed(x, @[x][p], values[r][x][p])]]]
    /\ UNCHANGED <<lookupVars, live, waiting, posted, wire, buffer, values>>

\* Everything has been sent and received.
Finished ==
    /\ AllDone
    /\ \A r \in Ranks : round[r] = MaxRounds
    /\ UNCHANGED vars

Next ==
    \/ \E r \in Ranks :
        \/ Lookup(r) /\ UNCHANGED <<requestVars, field>>
        \/ \E x \in Exchanges : (Send(r, x) \/ Receive(r, x)) /\ UNCHANGED field
        \/ (Wait(r) \/ Completed(r)) /\ UNCHANGED field
        \/ Disperse(r)
    \/ Finished

Spec == Init /\ [][Next]_vars
-----------------------------------------------------------------------------
\* Although a rank may be an exchange ahead of another, and both be owners and
\* askers, the next message a rank takes is always of the exchange it waits for,
\* and of the size it has made room for.
StagesMatch ==
    \A r \in Ranks : stage[r] \in Waiting =>
        \A side \in Sides : \A q \in From(r, side) :
            channel[q][r][side] # <<>> =>
                /\ Head(channel[q][r][side]).kind = stage[r]
                /\ stage[r] = "indices" => Len(First(q, r, side)) = Recvs[r][side][q].Count
                /\ stage[r] = "ranks" => Len(First(q, r, side)) = CountFor(r, side, q)

\* Donor and receiver of a point have found each other's rank, and nobody else
\* who stores the donor takes part ("Failed to connect donor cell (%i,%i,%i) of
\* grid %s to receiver point.").
PartnersFound ==
    \A r \in Ranks : stage[r] = "done" =>
        /\ \A p \in DOMAIN DestinationRanks[r] :
              DestinationRanks[r][p] = IF Communicates(r, p) THEN layout.receiver[p] ELSE -1
        /\ \A p \in DOMAIN SourceRanks[r] : SourceRanks[r][p] = layout.corner[p]

\* A receive only ever gets what was sent on the connectivity it is for, with its tag and
\* in its round, although the messages of several are on their way between two ranks:
\* "Only sends/receives with the same grid pair specification may potentially match."
OnlySamePairMatches ==
    \A r \in Ranks : \A x \in Exchanges : \A s \in DOMAIN buffer[r][x] :
        \A i \in DOMAIN buffer[r][x][s] :
            LET v == buffer[r][x][s][i]
            IN  v[1] = x.place /\ v[2] = x.tag
                /\ v[3] = IF \E n \in 1 .. calls[r] : Program(r)[n] = <<"recv", x>>
                          THEN round[r] + 1 ELSE round[r]

\* Every receiver has the value of its own donor, of this round, or one of each round if
\* they are added, however the points are stored, whichever way the requests were waited
\* for and however far ahead the senders are.
ValuesArrive ==
    \A r \in Ranks : \A x \in Exchanges : round[r] > 0 =>
        \A p \in Range(Receivers(r)) :
            field[r][x][p] = IF x.op = "OVERWRITE" THEN {Value(x, round[r], p)}
                             ELSE {Value(x, n, p) : n \in 1 .. round[r]}

\* When all have finished no message is left that a later receive would take.
NothingLeftOver ==
    (AllDone /\ \A r \in Ranks : round[r] = MaxRounds) =>
        \A q, r \in Ranks : wire[q][r] = <<>> /\ posted[q][r] = <<>>

\* Sends and receives are paired as the program means them.
MessagesMatch == OnlySamePairMatches /\ NothingLeftOver
=============================================================================
