---------------------------- MODULE RankExchange ----------------------------
(***************************************************************************)
(* The promise of core::DynamicHandshake (CommunicationOps.hpp): "given    *)
(* known list of ranks on one end of communication, generate list of ranks *)
(* on other end".  A collective call: each rank hands in the ranks it      *)
(* wants to talk to and gets back the ranks that want to talk to it.       *)
(***************************************************************************)
EXTENDS Naturals

CONSTANTS
    Ranks,      \* the processes of the communicator
    NumCalls    \* bound on the number of successive collective calls

Calls == 1 .. NumCalls

VARIABLES
    begun,      \* begun[r]: calls rank r has entered
    returned,   \* returned[r]: calls rank r has left
    targets,    \* targets[c][r]: the ranks r handed in at call c
    result      \* result[c][r]: the ranks r got back from call c

vars == <<begun, returned, targets, result>>

Init ==
    /\ begun = [r \in Ranks |-> 0]
    /\ returned = [r \in Ranks |-> 0]
    /\ targets = [c \in Calls |-> [r \in Ranks |-> {}]]
    /\ result = [c \in Calls |-> [r \in Ranks |-> {}]]

Enter(r, T) ==
    /\ begun[r] = returned[r]
    /\ begun[r] < NumCalls
    /\ begun' = [begun EXCEPT ![r] = @ + 1]
    /\ targets' = [targets EXCEPT ![begun[r] + 1][r] = T]
    /\ UNCHANGED <<returned, result>>

\* The ranks that handed in r at call c.
Sources(c, r) == {s \in Ranks : r \in targets[c][s]}

Leave(r) ==
    /\ begun[r] = returned[r] + 1
    /\ \A q \in Ranks : begun[q] >= begun[r]
    /\ returned' = [returned EXCEPT ![r] = @ + 1]
    /\ result' = [result EXCEPT ![begun[r]][r] = Sources(begun[r], r)]
    /\ UNCHANGED <<begun, targets>>

Next == \E r \in Ranks : (\E T \in SUBSET Ranks : Enter(r, T)) \/ Leave(r)

Spec == Init /\ [][Next]_vars
=============================================================================
