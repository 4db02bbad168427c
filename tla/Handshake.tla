----------------------------- MODULE Handshake ------------------------------
(***************************************************************************)
(* core::DynamicHandshake (CommunicationOps.cpp), run by all ranks of a    *)
(* communicator, several calls in a row.  Each rank posts a synchronous    *)
(* send to every rank in its list, then probes for and receives whatever   *)
(* arrives; once its own sends have all been received it starts the        *)
(* "all sends done" signal and keeps receiving until that signal is set.   *)
(* No rank knows in advance how many messages it will get.                 *)
(*                                                                         *)
(* Each call works on a duplicate of the caller's communicator, so that a  *)
(* message of one call is invisible to the probes of another.  The network *)
(* decides when a message becomes visible to MPI_Iprobe (Deliver) and when *)
(* its sender learns that it was received (Acknowledge).  The signal is    *)
(* used by its promise, module Signal: set once all ranks have started it. *)
(***************************************************************************)
EXTENDS Naturals

CONSTANTS
    Ranks,      \* the processes of the communicator
    NumCalls    \* bound on the number of successive collective calls

ASSUME NumCallsAssumption == NumCalls \in Nat

Calls == 1 .. NumCalls

\* A message says nothing but which call and ranks it belongs to.
Message == [call : Calls, from : Ranks, to : Ranks]
Msg(c, s, r) == [call |-> c, from |-> s, to |-> r]

VARIABLES
    call,           \* call[r]: number of calls rank r has entered
    pc,             \* where r is in its current call
    targets,        \* targets[c][r]: the argument Ranks of r's call c
    matchedRanks,   \* matchedRanks[c][r]: r's MatchedRanksSet in call c
    sendsDone,      \* r's SendsDone in its current call
    started,        \* started[c]: ranks that have started the signal of call c
    posted,         \* messages sent
    arrived,        \* messages visible to the receiver's probe
    matched,        \* messages received
    acked           \* messages whose send request has completed

vars == <<call, pc, targets, matchedRanks, sendsDone, started,
          posted, arrived, matched, acked>>

Init ==
    /\ call = [r \in Ranks |-> 0]
    /\ pc = [r \in Ranks |-> "idle"]
    /\ targets = [c \in Calls |-> [r \in Ranks |-> {}]]
    /\ matchedRanks = [c \in Calls |-> [r \in Ranks |-> {}]]
    /\ sendsDone = [r \in Ranks |-> FALSE]
    /\ started = [c \in Calls |-> {}]
    /\ posted = {}
    /\ arrived = {}
    /\ matched = {}
    /\ acked = {}

\* Enters the call with the list T: matches itself locally, sends to the rest.
Enter(r, T) ==
    /\ pc[r] = "idle"
    /\ call[r] < NumCalls
    /\ LET c == call[r] + 1 IN
       /\ call' = [call EXCEPT ![r] = c]
       /\ targets' = [targets EXCEPT ![c][r] = T]
       /\ matchedRanks' = [matchedRanks EXCEPT ![c][r] = T \cap {r}]
       /\ posted' = posted \cup {Msg(c, r, q) : q \in T \ {r}}
    /\ sendsDone' = [sendsDone EXCEPT ![r] = FALSE]
    /\ pc' = [pc EXCEPT ![r] = "probe"]
    /\ UNCHANGED <<started, arrived, matched, acked>>

\* What MPI_Iprobe(MPI_ANY_SOURCE) can see on rank r.
VisibleOnAnyComm(r) == {m \in arrived \ matched : m.to = r}    \* no DuplicateComm

Visible(r) == {m \in arrived \ matched : m.to = r /\ m.call = call[r]}

\* The inner loop finds a message and receives it.
Receive(r, m) ==
    /\ pc[r] = "probe"
    /\ m \in Visible(r)
    /\ matched' = matched \cup {m}
    /\ matchedRanks' = [matchedRanks EXCEPT ![call[r]][r] = @ \cup {m.from}]
    /\ UNCHANGED <<call, pc, targets, sendsDone, started, posted, arrived, acked>>

\* The inner loop finds nothing more.
ProbeNothing(r) ==
    /\ pc[r] = "probe"
    /\ Visible(r) = {}
    /\ pc' = [pc EXCEPT ![r] = "test"]
    /\ UNCHANGED <<call, targets, matchedRanks, sendsDone, started,
                   posted, arrived, matched, acked>>

\* What MPI_Testall on the send requests reports: all of them have completed.
AllSendsDone(r) ==
    \A q \in targets[call[r]][r] \ {r} : Msg(call[r], r, q) \in acked

\* Tests the sends; the first time they are all done, starts the signal.
TestSends(r) ==
    /\ pc[r] = "test"
    /\ ~sendsDone[r]
    /\ IF AllSendsDone(r)
       THEN /\ sendsDone' = [sendsDone EXCEPT ![r] = TRUE]
            /\ started' = [started EXCEPT ![call[r]] = @ \cup {r}]
       ELSE UNCHANGED <<sendsDone, started>>
    /\ pc' = [pc EXCEPT ![r] = "probe"]
    /\ UNCHANGED <<call, targets, matchedRanks, posted, arrived, matched, acked>>

\* The promise of the signal: its flag is set once every rank has started it.
StartedSomewhere(c) == started[c] # {}
SignalSet(c) == started[c] = Ranks

\* Checks the signal: leaves the call if it is set, else goes on receiving.
StaysInLoop(r) ==           \* as if the result of Check() were dropped
    /\ pc[r] = "test"
    /\ sendsDone[r]
    /\ pc' = [pc EXCEPT ![r] = "probe"]
    /\ UNCHANGED <<call, targets, matchedRanks, sendsDone, started,
                   posted, arrived, matched, acked>>

CheckSignal(r) ==
    /\ pc[r] = "test"
    /\ sendsDone[r]
    /\ pc' = [pc EXCEPT ![r] = IF SignalSet(call[r]) THEN "idle" ELSE "probe"]
    /\ UNCHANGED <<call, targets, matchedRanks, sendsDone, started,
                   posted, arrived, matched, acked>>

\* The network makes a message visible to its receiver.
Deliver(m) ==
    /\ m \in posted \ arrived
    /\ arrived' = arrived \cup {m}
    /\ UNCHANGED <<call, pc, targets, matchedRanks, sendsDone, started,
                   posted, matched, acked>>

\* The sender's library learns that its synchronous send was received.
Acknowledge(m) ==
    /\ m \in matched \ acked
    /\ acked' = acked \cup {m}
    /\ UNCHANGED <<call, pc, targets, matchedRanks, sendsDone, started,
                   posted, arrived, matched>>

\* Every rank has returned from its last call.
Finished ==
    /\ \A r \in Ranks : pc[r] = "idle" /\ call[r] = NumCalls
    /\ UNCHANGED vars

Step(r) ==
    \/ \E m \in Visible(r) : Receive(r, m)
    \/ ProbeNothing(r)
    \/ TestSends(r)
    \/ CheckSignal(r)

Network == \E m \in posted : Deliver(m) \/ Acknowledge(m)

Next ==
    \/ \E r \in Ranks : (\E T \in SUBSET Ranks : Enter(r, T)) \/ Step(r)
    \/ Network
    \/ Finished

\* A rank inside the call keeps polling and MPI makes progress on messages;
\* nothing obliges a rank to make a call.
Fairness ==
    /\ \A r \in Ranks : WF_vars(Step(r))
    /\ WF_vars(Network)

Spec == Init /\ [][Next]_vars
FairSpec == Spec /\ Fairness
-----------------------------------------------------------------------------
TypeOK ==
    /\ call \in [Ranks -> 0 .. NumCalls]
    /\ pc \in [Ranks -> {"idle", "probe", "test"}]
    /\ targets \in [Calls -> [Ranks -> SUBSET Ranks]]
    /\ matchedRanks \in [Calls -> [Ranks -> SUBSET Ranks]]
    /\ sendsDone \in [Ranks -> BOOLEAN]
    /\ started \in [Calls -> SUBSET Ranks]
    /\ posted \subseteq Message
    /\ arrived \subseteq posted
    /\ matched \subseteq arrived
    /\ acked \subseteq matched

Begun(c, r) == c <= call[r]
Returned(c, r) == c < call[r] \/ (c = call[r] /\ pc[r] = "idle")

\* A rank that has returned knows exactly the ranks that named it, although it
\* never knew how many there were: the call transposes the relation.
ResultIsTranspose ==
    \A c \in Calls, r \in Ranks :
        Returned(c, r) => matchedRanks[c][r] = {s \in Ranks : r \in targets[c][s]}

\* No message is left unreceived on a communicator a rank has freed, so none
\* can ever be taken for a message of a later call.
NothingLeftBehind ==
    \A c \in Calls, r \in Ranks :
        Returned(c, r) => \A m \in posted : m.call = c => m \in matched

\* Every call that all ranks make ends on all of them.
EveryCallReturns ==
    \A c \in Calls :
        (\A r \in Ranks : Begun(c, r)) ~> (\A r \in Ranks : Returned(c, r))

\* The abstract exchange, seen through what each rank has returned.
Promise == INSTANCE RankExchange WITH
    begun <- call,
    returned <- [r \in Ranks |-> IF pc[r] = "idle" THEN call[r] ELSE call[r] - 1],
    result <- [c \in Calls |-> [r \in Ranks |->
                  IF Returned(c, r) THEN matchedRanks[c][r] ELSE {}]]

\* The whole exchange looks as if each rank's result were computed at once,
\* when it returns, from the lists of all ranks.
ImplementsExchange == Promise!Spec
-----------------------------------------------------------------------------
\* The strengthening that makes ResultIsTranspose inductive.

\* What a rank has posted in a call is what its list asked for.
PostedFromTargets ==
    \A c \in Calls, s, r \in Ranks :
        Msg(c, s, r) \in posted <=> (Begun(c, s) /\ r \in targets[c][s] \ {s})

\* A rank has matched itself if it named itself, and the senders it heard.
MatchedAreHeard ==
    \A c \in Calls, s, r \in Ranks :
        s \in matchedRanks[c][r] <=>
            \/ s = r /\ r \in targets[c][r]
            \/ Msg(c, s, r) \in matched

\* Nothing is known, and nothing received, in a call a rank has not entered.
NothingBeforeCall ==
    \A c \in Calls, r \in Ranks :
        ~Begun(c, r) => /\ targets[c][r] = {}
                        /\ \A m \in matched : ~(m.call = c /\ m.to = r)

\* The signal is started only by a rank whose sends have all been received.
StartedAfterSends ==
    \A c \in Calls, r \in Ranks :
        r \in started[c] =>
            /\ Begun(c, r)
            /\ \A m \in posted : m.call = c /\ m.from = r => m \in acked

\* The flag a rank keeps agrees with the signal; past calls have it set.
FlagAgrees ==
    \A r \in Ranks : pc[r] # "idle" =>
        /\ call[r] \in Calls
        /\ sendsDone[r] <=> r \in started[call[r]]

ReturnedAfterSignal ==
    \A c \in Calls, r \in Ranks : Returned(c, r) => started[c] = Ranks

\* The inductive invariant: a rank's result is right when it returns because
\* the signal is set, hence all sends are done, hence all were received.
IInv ==
    /\ TypeOK
    /\ PostedFromTargets
    /\ MatchedAreHeard
    /\ NothingBeforeCall
    /\ StartedAfterSends
    /\ FlagAgrees
    /\ ReturnedAfterSignal
=============================================================================
