--------------------------- MODULE SignalFallback ---------------------------
(***************************************************************************)
(* core::signal as it is built where MPI has no Ibarrier: every rank but   *)
(* the root sends the root two messages, the second one synchronous; the   *)
(* root counts the first messages of all the others before it receives any *)
(* of the second ones.  Messages wait in firstMail and secondMail; a poll  *)
(* that finds nothing changes nothing and is a stuttering step.            *)
(***************************************************************************)
EXTENDS Naturals

CONSTANTS
    NumProcs,   \* size of the communicator; rank 0 is the root
    MaxUses     \* bound on the number of times the object is used

ASSUME NumProcsAssumption == NumProcs \in Nat \ {0}
ASSUME UsesAssumption == MaxUses \in Nat

Procs == 0 .. NumProcs-1
Others == 1 .. NumProcs-1

VARIABLES
    starts,         \* calls of Start() by each rank
    finishes,       \* calls of Check() that returned true
    firstMail,      \* tag-0 messages of each other rank not received yet
    secondMail,     \* tag-1 messages of each other rank not received yet
    secondRequest,  \* Requests_[1] of each other rank
    NumCompleted,   \* NumCompleted_ of the root
    OtherRank       \* the root's loop variable over the second messages

signalVars == <<starts, finishes, firstMail, secondMail, secondRequest,
                NumCompleted, OtherRank>>
mail == <<firstMail, secondMail, secondRequest>>
rootState == <<NumCompleted, OtherRank>>

SignalInit ==
    /\ starts = [r \in Procs |-> 0]
    /\ finishes = [r \in Procs |-> 0]
    /\ firstMail = [r \in Others |-> 0]
    /\ secondMail = [r \in Others |-> 0]
    /\ secondRequest = [r \in Others |-> "null"]
    /\ NumCompleted = 0
    /\ OtherRank = 1

\* A rank polls only between its Start() and the Check() that succeeds.
Polling(r) == starts[r] = finishes[r] + 1

Start(r) ==
    /\ starts[r] = finishes[r]
    /\ starts[r] < MaxUses
    /\ starts' = [starts EXCEPT ![r] = @ + 1]
    /\ IF r = 0
       THEN UNCHANGED mail
       ELSE /\ firstMail' = [firstMail EXCEPT ![r] = @ + 1]
            /\ secondMail' = [secondMail EXCEPT ![r] = @ + 1]
            /\ secondRequest' = [secondRequest EXCEPT ![r] = "posted"]
    /\ UNCHANGED <<finishes, rootState>>

-----------------------------------------------------------------------------
\* Check() on a rank other than the root: MPI_Testall on both requests.  The
\* synchronous one completes only once the root's receive has matched it.
CheckOther(r) ==
    /\ Polling(r)
    /\ secondRequest[r] = "matched"
    /\ finishes' = [finishes EXCEPT ![r] = @ + 1]
    /\ secondRequest' = [secondRequest EXCEPT ![r] = "null"]
    /\ UNCHANGED <<starts, firstMail, secondMail, rootState>>

\* Check() on the root: one turn of the loop over the first messages.
RootCount(r) ==
    /\ Polling(0)
    /\ NumCompleted < NumProcs-1
    /\ firstMail[r] > 0
    /\ firstMail' = [firstMail EXCEPT ![r] = @ - 1]
    /\ NumCompleted' = NumCompleted + 1
    /\ UNCHANGED <<starts, finishes, secondMail, secondRequest, OtherRank>>

\* The blocking receive of the second message of OtherRank.
RootCollect ==
    /\ Polling(0)
    /\ NumCompleted = NumProcs-1
    /\ OtherRank < NumProcs
    /\ secondMail[OtherRank] > 0
    /\ secondMail' = [secondMail EXCEPT ![OtherRank] = @ - 1]
    /\ secondRequest' = [secondRequest EXCEPT ![OtherRank] = "matched"]
    /\ OtherRank' = OtherRank + 1
    /\ UNCHANGED <<starts, finishes, firstMail, NumCompleted>>

RootDoneKeepsCount ==       \* without NumCompleted_ = 0
    /\ Polling(0)
    /\ NumCompleted = NumProcs-1
    /\ OtherRank = NumProcs
    /\ finishes' = [finishes EXCEPT ![0] = @ + 1]
    /\ OtherRank' = 1
    /\ UNCHANGED <<starts, mail, NumCompleted>>

RootDoneKeepsLoop ==        \* the second messages are received only once
    /\ Polling(0)
    /\ NumCompleted = NumProcs-1
    /\ OtherRank = NumProcs
    /\ finishes' = [finishes EXCEPT ![0] = @ + 1]
    /\ NumCompleted' = 0
    /\ UNCHANGED <<starts, mail, OtherRank>>

\* The root has received everything: Check() resets the object, returns true.
RootDone ==
    /\ Polling(0)
    /\ NumCompleted = NumProcs-1
    /\ OtherRank = NumProcs
    /\ finishes' = [finishes EXCEPT ![0] = @ + 1]
    /\ NumCompleted' = 0
    /\ OtherRank' = 1
    /\ UNCHANGED <<starts, mail>>

\* Every rank has used the object MaxUses times.
AllUsed ==
    /\ \A r \in Procs : finishes[r] = MaxUses
    /\ UNCHANGED signalVars

Check == (\E r \in Others : CheckOther(r) \/ RootCount(r)) \/ RootCollect \/ RootDone

SignalNext == (\E r \in Procs : Start(r)) \/ Check \/ AllUsed

\* The owner of a signal polls it in a loop: each kind of progress is fair.
PollsFair ==
    /\ \A r \in Others : WF_signalVars(CheckOther(r)) /\ WF_signalVars(RootCount(r))
    /\ WF_signalVars(RootCollect)
    /\ WF_signalVars(RootDone)

SignalSpec == SignalInit /\ [][SignalNext]_signalVars
FairSignalSpec == SignalSpec /\ PollsFair
-----------------------------------------------------------------------------
\* Types, and at most one message of each tag from each rank in the mail:
\* what lets the object be used again without mixing up two uses.
SignalTypeOK ==
    /\ starts \in [Procs -> 0 .. MaxUses]
    /\ finishes \in [Procs -> 0 .. MaxUses]
    /\ firstMail \in [Others -> 0 .. 1]
    /\ secondMail \in [Others -> 0 .. 1]
    /\ secondRequest \in [Others -> {"null", "posted", "matched"}]
    /\ NumCompleted \in 0 .. NumProcs-1
    /\ OtherRank \in 1 .. NumProcs

Barrier == INSTANCE Signal WITH Ranks <- Procs

\* The two messages per rank do what MPI_Ibarrier would: every behaviour is
\* one of the abstract signal's, so the flag gets set only after all processes
\* have called Start().
ImplementsSignal == Barrier!Spec

\* Once every rank has called Start() for the k-th time, every rank's k-th
\* loop of Check() comes to its end.
EveryUseCompletes ==
    \A k \in 1 .. MaxUses :
        (\A r \in Procs : starts[r] >= k) ~> (\A r \in Procs : finishes[r] >= k)
=============================================================================
