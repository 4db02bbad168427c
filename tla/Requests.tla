------------------------------ MODULE Requests ------------------------------
(***************************************************************************)
(* Sends, receives and requests.  With the ranks known (module RankLookup) *)
(* ResetExchanges_ builds a send map and a receive map on each rank: a     *)
(* send packs one message for each rank its donors go to, a receive        *)
(* unpacks one from each rank its receivers hear from.  A message has      *)
(* values only.  Which point a value is for follows from its place, because *)
(* both ends put the points they share in the order of the receiver grid.  *)
(*                                                                         *)
(* Send and Receive return a request that stands for its MPI requests.     *)
(* Wait, WaitAll and WaitAny take MPI requests as they complete; a request *)
(* whose last one is done is completed - a receive unpacks - and is empty  *)
(* from then on.  MPI matches a message with the first receive posted for  *)
(* its source and its tag.                                                 *)
(***************************************************************************)
EXTENDS RankLookup

VARIABLES
    round,      \* round[r]: how often r has sent and received everything
    calls,      \* calls[r]: how many sends and receives r has called in this round
    live,       \* live[r]: those not complete, and the ranks their MPI requests are for
    waiting,    \* waiting[r]: the call r is in, and the requests it was given
    posted,     \* posted[r][q]: receives of r that no message of q has matched yet
    wire,       \* wire[q][r]: messages of q to r that no receive has matched yet
    buffer,     \* buffer[r][x]: what has come for r's receive of exchange x, by rank
    values      \* values[r][x]: values at the receivers of r

requestVars == <<round, calls, live, waiting, posted, wire, buffer, values>>

\* A layout has the exchanges that have been created on its connectivity and on others
\* between the same ranks: the number of connectivities there were and the place of
\* this one among them, the tag the user has given, and what is done with the values.
\* It also has the program of each rank: the requests it makes in a round, in order, and
\* how it waits for them.
Exchanges == layout.exchanges
Program(r) == layout.program[r]
MaxRounds == layout.rounds              \* bound on how often a rank goes through it

\* A layout's exchanges differ in place or tag, and a rank makes each of its requests
\* once in a round, among them those that its donors and receivers are for.
ASSUME ExchangesAssumption ==
    \A l \in Layouts :
        LET requests == {"send", "recv"} \X l.exchanges
            makes(r, request) == \E n \in DOMAIN l.program[r] : l.program[r][n] = request
        IN  /\ l.rounds \in Nat
            /\ \A x \in l.exchanges :
                  /\ x.connectivities \in Nat /\ x.place \in 0 .. x.connectivities-1
                  /\ x.tag \in Nat /\ x.op \in {"OVERWRITE", "APPEND"}
            /\ \A x, y \in l.exchanges :
                  /\ x.connectivities = y.connectivities
                  /\ x.place = y.place /\ x.tag = y.tag => x = y
            /\ l.program \in [Ranks -> Seq(requests)]
            /\ \A r \in Ranks : \A m, n \in DOMAIN l.program[r] :
                  m # n => l.program[r][m] # l.program[r][n]
            /\ \A x \in l.exchanges : \A p \in DOMAIN l.receiver :
                  makes(l.corner[p], <<"send", x>>) /\ makes(l.receiver[p], <<"recv", x>>)

UserTag(x) == x.tag                 \* whatever the connectivity
GlobalTag(x) == x.connectivities * x.tag + x.place

RequestsInit ==
    /\ round = [r \in Ranks |-> 0]
    /\ calls = [r \in Ranks |-> 0]
    /\ live = [r \in Ranks |-> <<>>]
    /\ waiting = [r \in Ranks |-> [mode |-> "no", for |-> {}]]
    /\ posted = [r \in Ranks |-> [q \in Ranks |-> <<>>]]
    /\ wire = [q \in Ranks |-> [r \in Ranks |-> <<>>]]
    /\ buffer = [r \in Ranks |-> [x \in Exchanges |-> <<>>]]
    /\ values = [r \in Ranks |-> [x \in Exchanges |-> <<>>]]
-----------------------------------------------------------------------------
\* GetSendRecvOrder: the points by their place in the receiver grid.
SendRecvOrder(points) == SortedInts(Range(points))

SendUnordered(r) == Donors(r)           \* in the order they are stored in
SendOrder(r) == SendRecvOrder(Donors(r))
RecvOrder(r) == SendRecvOrder(Receivers(r))

\* Sends() and Recvs() of the maps: the ranks that are known.
SendRanks(r) == Range(DestinationRanks[r]) \ {-1}
RecvRanks(r) == Range(SourceRanks[r]) \ {-1}

\* The points of one buffer, in the order they are packed or unpacked.
Packed(r, d) == Among(SendOrder(r), {p \in Range(SendOrder(r)) : DestinationRanks[r][p] = d})
Expected(r, s) == Among(RecvOrder(r), {p \in Range(RecvOrder(r)) : SourceRanks[r][p] = s})

\* A donor's value says for which exchange and point, and in which round it was sent.
Value(x, n, p) == <<x.place, x.tag, n, p>>
-----------------------------------------------------------------------------
\* The first of a sequence of posted receives or messages with this tag, 0 if none has.
FirstTagged(s, tag) == SelectInSeq(s, LAMBDA e : e.tag = tag)

MayCall(r, request) ==
    /\ AllDone
    /\ round[r] < MaxRounds
    /\ waiting[r].mode = "no"
    /\ calls[r] < Len(Program(r))
    /\ Program(r)[calls[r] + 1] = request

\* A map with one more entry.
With(f, key, value) == [k \in DOMAIN f \cup {key} |-> IF k \in DOMAIN f THEN f[k] ELSE value]

Create(r, request, peers) ==
    /\ calls' = [calls EXCEPT ![r] = @ + 1]
    /\ live' = [live EXCEPT ![r] = With(@, request, peers)]

\* send_impl::Send: what is not received at once stays on the wire.
Send(r, x) ==
    LET tag == GlobalTag(x)
        data(d) == [i \in DOMAIN Packed(r, d) |-> Value(x, round[r] + 1, Packed(r, d)[i])]
        match(d) == FirstTagged(posted[d][r], tag)
        matched == {d \in SendRanks(r) : match(d) # 0}
    IN  /\ MayCall(r, <<"send", x>>)
        /\ Create(r, <<"send", x>>, SendRanks(r))
        /\ wire' = [wire EXCEPT ![r] = [d \in Ranks |->
              IF d \in SendRanks(r) \ matched
              THEN Append(@[d], [x |-> x, tag |-> tag, data |-> data(d)]) ELSE @[d]]]
        /\ buffer' = [d \in Ranks |->
              IF d \in matched
              THEN [buffer[d] EXCEPT ![posted[d][r][match(d)].x] = With(@, r, data(d))]
              ELSE buffer[d]]
        /\ posted' = [d \in Ranks |->
              IF d \in matched THEN [posted[d] EXCEPT ![r] = RemoveAt(@, match(d))] ELSE posted[d]]
        /\ UNCHANGED <<lookupVars, round, waiting, values>>

\* recv_impl::Recv.  Some messages may be there already.
Receive(r, x) ==
    LET tag == GlobalTag(x)
        match(s) == FirstTagged(wire[s][r], tag)
        matched == {s \in RecvRanks(r) : match(s) # 0}
    IN  /\ MayCall(r, <<"recv", x>>)
        /\ Create(r, <<"recv", x>>, RecvRanks(r))
        /\ posted' = [posted EXCEPT ![r] = [s \in Ranks |->
              IF s \in RecvRanks(r) \ matched THEN Append(@[s], [x |-> x, tag |-> tag]) ELSE @[s]]]
        /\ buffer' = [buffer EXCEPT ![r][x] = [s \in matched |-> wire[s][r][match(s)].data]]
        /\ wire' = [s \in Ranks |->
              IF s \in matched THEN [wire[s] EXCEPT ![r] = RemoveAt(@, match(s))] ELSE wire[s]]
        /\ UNCHANGED <<lookupVars, round, waiting, values>>
-----------------------------------------------------------------------------
\* An MPI request for rank q may complete: a receive when its message is in; a send when
\* it is received, or as soon as MPI has a copy.
MPIRequestDone(r, request, q) ==
    LET x == request[2]
    IN  IF request[1] = "recv" THEN q \in DOMAIN buffer[r][x]
        ELSE layout.eager \/ \A i \in DOMAIN wire[r][q] : wire[r][q][i].x # x

\* recv_request::OnComplete: the buffers are unpacked in the order they were packed.
Unpack(r, x) ==
    [p \in {q \in Range(Receivers(r)) : SourceRanks[r][q] >= 0} |->
        LET s == SourceRanks[r][p]
        IN  buffer[r][x][s][CHOOSE i \in DOMAIN Expected(r, s) : Expected(r, s)[i] = p]]

\* The requests are completed, and empty from now on.
Complete(r, requests, left) ==
    /\ live' = [live EXCEPT ![r] = Restrict(left, DOMAIN left \ requests)]
    /\ values' = [values EXCEPT ![r] =
          [x \in Exchanges |-> IF <<"recv", x>> \in requests THEN Unpack(r, x) ELSE @[x]]]

CalledAll(r) ==
    AllDone /\ round[r] < MaxRounds /\ calls[r] = Len(Program(r)) /\ waiting[r].mode = "no"
Trivial(r, requests) == {request \in requests : live[r][request] = {}}

\* Some requests are given to WaitAll, or one to Wait.  Those without MPI requests are
\* completed first.
WaitAll(r, requests) ==
    /\ CalledAll(r)
    /\ Complete(r, Trivial(r, requests), live[r])
    /\ waiting' = [waiting EXCEPT ![r] =
          IF requests = Trivial(r, requests) THEN @ ELSE [mode |-> "all", for |-> requests]]
    /\ UNCHANGED <<lookupVars, round, calls, posted, wire, buffer>>

\* WaitAny returns at once with the first request without MPI requests, if there is one.
WaitAny(r, requests) ==
    LET first == SelectInSeq(Program(r), LAMBDA request : request \in Trivial(r, requests))
    IN  /\ CalledAll(r)
        /\ Complete(r, IF first = 0 THEN {} ELSE {Program(r)[first]}, live[r])
        /\ waiting' = [waiting EXCEPT ![r] =
              IF first = 0 THEN [mode |-> "any", for |-> requests] ELSE @]
        /\ UNCHANGED <<lookupVars, round, calls, posted, wire, buffer>>

\* One after the other in any order, all at once, or whichever is complete.
Wait(r) ==
    /\ DOMAIN live[r] # {}
    /\ \/ layout.wait = "one" /\ \E request \in DOMAIN live[r] : WaitAll(r, {request})
       \/ layout.wait = "all" /\ WaitAll(r, DOMAIN live[r])
       \/ layout.wait = "any" /\ WaitAny(r, DOMAIN live[r])

\* MPI_Waitany has returned an MPI request, for rank q.  WaitAny returns with the first
\* request that is complete, WaitAll with the last.
Completed(r) ==
    \E request \in waiting[r].for \cap DOMAIN live[r] : \E q \in live[r][request] :
        LET left == [live[r] EXCEPT ![request] = @ \ {q}]
            done == IF left[request] = {} THEN {request} ELSE {}
        IN  /\ MPIRequestDone(r, request, q)
            /\ Complete(r, done, left)
            /\ waiting' = [waiting EXCEPT ![r] =
                  IF \/ @.mode = "any" /\ done # {}
                     \/ @.mode = "all" /\ @.for \cap DOMAIN live[r] \subseteq done
                  THEN [mode |-> "no", for |-> {}] ELSE @]
            /\ UNCHANGED <<lookupVars, round, calls, posted, wire, buffer>>
=============================================================================
