------------------------------- MODULE Signal -------------------------------
(***************************************************************************)
(* The promise of core::signal (CommunicationOps.hpp): "a global flag that *)
(* gets set only after all processes call a function to set it".  It is    *)
(* also what MPI_Ibarrier guarantees when the library is built on it.  A   *)
(* signal object may be used several times over; every rank alternates     *)
(* between Start() and a Check() that returns true.                        *)
(***************************************************************************)
EXTENDS Naturals

CONSTANTS
    Ranks,      \* the processes of the communicator
    MaxUses     \* bound on the number of times the object is used

VARIABLES
    starts,     \* starts[r]: calls of Start() on rank r
    finishes    \* finishes[r]: calls of Check() on rank r that returned true

vars == <<starts, finishes>>

Init ==
    /\ starts = [r \in Ranks |-> 0]
    /\ finishes = [r \in Ranks |-> 0]

Start(r) ==
    /\ starts[r] = finishes[r]
    /\ starts[r] < MaxUses
    /\ starts' = [starts EXCEPT ![r] = @ + 1]
    /\ UNCHANGED finishes

\* Check() returns true.  A Check() that returns false changes nothing.
Finish(r) ==
    /\ starts[r] = finishes[r] + 1
    /\ \A q \in Ranks : starts[q] >= starts[r]
    /\ finishes' = [finishes EXCEPT ![r] = @ + 1]
    /\ UNCHANGED starts

Next == \E r \in Ranks : Start(r) \/ Finish(r)

Spec == Init /\ [][Next]_vars
=============================================================================
