-------------------------- MODULE Handshake_proofs --------------------------
(***************************************************************************)
(* The communication operations of CommunicationOps.cpp.  DynamicHandshake *)
(* returns the transpose of the lists it was given, for any set of ranks   *)
(* and any number of successive calls, and implements the abstract         *)
(* exchange; the fallback of the signal it waits for does what the barrier *)
(* would, with any number of processes and however often it is used.       *)
(***************************************************************************)
EXTENDS Handshake, SignalFallback, FiniteSetTheorems, TLAPS

\* A message is known by its call, sender and receiver.
LEMMA MsgFields ==
    ASSUME NEW c \in Calls, NEW s \in Ranks, NEW r \in Ranks
    PROVE  /\ Msg(c, s, r) \in Message
           /\ Msg(c, s, r).call = c
           /\ Msg(c, s, r).from = s
           /\ Msg(c, s, r).to = r
  BY DEF Msg, Message

LEMMA MessageIsMsg ==
    ASSUME NEW m \in Message
    PROVE  /\ m.call \in Calls /\ m.from \in Ranks /\ m.to \in Ranks
           /\ m = Msg(m.call, m.from, m.to)
  BY DEF Msg, Message

\* The ranks of a call index and the next one.
LEMMA CallFacts ==
    /\ \A c \in Calls : c \in Nat /\ c >= 1 /\ c <= NumCalls
    /\ \A n \in 0 .. NumCalls : n < NumCalls => n + 1 \in Calls
  BY NumCallsAssumption DEF Calls

\* Before any call there is nothing to disagree about.
LEMMA InitInv == Init => IInv
  <1> SUFFICES ASSUME Init PROVE IInv
    OBVIOUS
  <1>1. TypeOK
    BY NumCallsAssumption DEF Init, TypeOK
  <1>2. \A c \in Calls, r \in Ranks : ~Begun(c, r) /\ ~Returned(c, r)
    <2> SUFFICES ASSUME NEW c \in Calls, NEW r \in Ranks
                 PROVE  ~Begun(c, r) /\ ~Returned(c, r)
      OBVIOUS
    <2>1. call[r] = 0 /\ c \in Nat /\ c >= 1
      BY CallFacts DEF Init
    <2> QED
      BY <2>1 DEF Begun, Returned
  <1> QED
    BY <1>1, <1>2 DEF Init, IInv, PostedFromTargets, MatchedAreHeard, NothingBeforeCall,
       StartedAfterSends, FlagAgrees, ReturnedAfterSignal

\* Entering a call posts exactly what the list asks for.
LEMMA EnterInv ==
    ASSUME IInv, NEW r \in Ranks, NEW T \in SUBSET Ranks, Enter(r, T)
    PROVE  IInv'
  <1> DEFINE c == call[r] + 1
  <1> USE DEF IInv
  <1>1. c \in Calls /\ call[r] \in 0 .. NumCalls
    BY CallFacts DEF Enter, TypeOK
  <1>2. /\ ~Begun(c, r) /\ pc[r] = "idle"
        /\ targets[c][r] = {}
        /\ call' = [call EXCEPT ![r] = c]
    BY <1>1, CallFacts DEF Enter, NothingBeforeCall, Begun
  <1>3. /\ \A d \in Calls, q \in Ranks : Begun(d, q)' <=> (Begun(d, q) \/ (d = c /\ q = r))
        /\ \A d \in Calls, q \in Ranks : Returned(d, q)' <=> Returned(d, q)
    <2> SUFFICES ASSUME NEW d \in Calls, NEW q \in Ranks
                 PROVE  /\ Begun(d, q)' <=> (Begun(d, q) \/ (d = c /\ q = r))
                        /\ Returned(d, q)' <=> Returned(d, q)
      OBVIOUS
    <2>1. d \in Nat /\ call[q] \in Nat /\ call[r] \in Nat
      BY CallFacts DEF TypeOK
    <2>2. CASE q = r
      <3>1. call'[q] = call[r] + 1 /\ pc[q] = "idle" /\ pc'[q] = "probe"
        BY <1>2, <2>2 DEF Enter, TypeOK
      <3> QED
        BY <2>1, <2>2, <3>1 DEF Begun, Returned
    <2>3. CASE q # r
      <3>1. call'[q] = call[q] /\ pc'[q] = pc[q]
        BY <1>2, <2>3 DEF Enter, TypeOK
      <3> QED
        BY <2>3, <3>1 DEF Begun, Returned
    <2> QED
      BY <2>2, <2>3
  <1>4. \A d \in Calls, q \in Ranks :
            targets'[d][q] = IF d = c /\ q = r THEN T ELSE targets[d][q]
    BY <1>1 DEF Enter, TypeOK
  <1>5. \A d \in Calls, q \in Ranks :
            matchedRanks'[d][q] = IF d = c /\ q = r THEN T \cap {r} ELSE matchedRanks[d][q]
    BY <1>1 DEF Enter, TypeOK
  <1>6. \A d \in Calls, s, q \in Ranks :
            Msg(d, s, q) \in posted' <=>
                Msg(d, s, q) \in posted \/ (d = c /\ s = r /\ q \in T \ {r})
    BY <1>1 DEF Enter, Msg
  <1>7. \A m \in posted' \ posted : m.call = c /\ m.from = r
    BY DEF Enter, Msg
  <1>8. TypeOK'
    <2>1. posted' \subseteq Message
      BY <1>1, MsgFields DEF Enter, TypeOK
    <2>2. arrived' \subseteq posted' /\ matched' \subseteq arrived' /\ acked' \subseteq matched'
      BY DEF Enter, TypeOK
    <2>3. call' \in [Ranks -> 0 .. NumCalls]
      BY <1>1, <1>2, CallFacts DEF TypeOK, Calls
    <2>4. /\ targets' \in [Calls -> [Ranks -> SUBSET Ranks]]
          /\ matchedRanks' \in [Calls -> [Ranks -> SUBSET Ranks]]
      BY <1>1 DEF Enter, TypeOK
    <2>5. /\ pc' \in [Ranks -> {"idle", "probe", "test"}]
          /\ sendsDone' \in [Ranks -> BOOLEAN]
          /\ started' \in [Calls -> SUBSET Ranks]
      BY DEF Enter, TypeOK
    <2> QED
      BY <2>1, <2>2, <2>3, <2>4, <2>5 DEF TypeOK
  <1>9. PostedFromTargets'
    BY <1>2, <1>3, <1>4, <1>6 DEF PostedFromTargets
  <1>10. MatchedAreHeard'
    <2>1. \A s \in Ranks : Msg(c, s, r) \notin matched
      BY <1>1, <1>2, MsgFields DEF NothingBeforeCall
    <2> QED
      BY <1>4, <1>5, <2>1 DEF MatchedAreHeard, Enter
  <1>11. NothingBeforeCall'
    BY <1>3, <1>4 DEF NothingBeforeCall, Enter
  <1>12. StartedAfterSends'
    BY <1>2, <1>3, <1>7 DEF StartedAfterSends, Enter
  <1>13. FlagAgrees'
    <2> SUFFICES ASSUME NEW q \in Ranks, pc'[q] # "idle"
                 PROVE  /\ call'[q] \in Calls
                        /\ sendsDone'[q] <=> q \in started'[call'[q]]
      BY DEF FlagAgrees
    <2>1. CASE q = r
      <3>1. r \notin started[c]
        BY <1>1, <1>2 DEF StartedAfterSends
      <3> QED
        BY <1>1, <1>2, <2>1, <3>1 DEF Enter, TypeOK
    <2>2. CASE q # r
      BY <2>2 DEF Enter, TypeOK, FlagAgrees
    <2> QED
      BY <2>1, <2>2
  <1>14. ReturnedAfterSignal'
    BY <1>3 DEF ReturnedAfterSignal, Enter
  <1> QED
    BY <1>8, <1>9, <1>10, <1>11, <1>12, <1>13, <1>14

\* A message is received in the call it was sent in, by the rank it names.
LEMMA ReceiveInv ==
    ASSUME IInv, NEW r \in Ranks, NEW m \in Visible(r), Receive(r, m)
    PROVE  IInv'
  <1> USE DEF IInv
  <1>1. /\ m \in Message /\ m \in posted /\ m \in arrived /\ m.to = r
        /\ m.call = call[r] /\ m.call \in Calls /\ m.from \in Ranks
        /\ m = Msg(m.call, m.from, r)
    BY MessageIsMsg DEF Receive, Visible, TypeOK
  <1>2. /\ \A d \in Calls, q \in Ranks : Begun(d, q)' <=> Begun(d, q)
        /\ \A d \in Calls, q \in Ranks : Returned(d, q)' <=> Returned(d, q)
    BY DEF Receive, Begun, Returned
  <1>3. \A d \in Calls, q \in Ranks :
            matchedRanks'[d][q] = IF d = m.call /\ q = r THEN matchedRanks[d][q] \cup {m.from}
                                                         ELSE matchedRanks[d][q]
    BY <1>1 DEF Receive, TypeOK
  <1>4. TypeOK'
    BY <1>1 DEF Receive, TypeOK
  <1>5. PostedFromTargets'
    BY <1>2 DEF PostedFromTargets, Receive
  <1>6. MatchedAreHeard'
    <2> SUFFICES ASSUME NEW d \in Calls, NEW s \in Ranks, NEW q \in Ranks
                 PROVE  s \in matchedRanks'[d][q] <=>
                            \/ s = q /\ q \in targets[d][q]
                            \/ Msg(d, s, q) \in matched'
      BY DEF MatchedAreHeard, Receive
    <2>1. Msg(d, s, q) = m <=> d = m.call /\ s = m.from /\ q = r
      BY <1>1, MsgFields
    <2> QED
      BY <1>1, <1>3, <2>1 DEF MatchedAreHeard, Receive
  <1>7. NothingBeforeCall'
    <2>1. Begun(m.call, m.to)
      BY <1>1, CallFacts DEF Begun
    <2> QED
      BY <1>1, <1>2, <2>1 DEF NothingBeforeCall, Receive
  <1>8. StartedAfterSends' /\ FlagAgrees' /\ ReturnedAfterSignal'
    BY <1>2 DEF StartedAfterSends, FlagAgrees, ReturnedAfterSignal, Receive
  <1> QED
    BY <1>4, <1>5, <1>6, <1>7, <1>8

\* A probe that finds nothing only moves the rank on to its test.
LEMMA ProbeNothingInv ==
    ASSUME IInv, NEW r \in Ranks, ProbeNothing(r)
    PROVE  IInv'
  <1> USE DEF IInv
  <1>1. /\ \A d \in Calls, q \in Ranks : Begun(d, q)' <=> Begun(d, q)
        /\ \A d \in Calls, q \in Ranks : Returned(d, q)' <=> Returned(d, q)
    BY CallFacts DEF ProbeNothing, Begun, Returned, TypeOK
  <1>2. TypeOK'
    BY DEF ProbeNothing, TypeOK
  <1>3. FlagAgrees'
    BY DEF ProbeNothing, TypeOK, FlagAgrees
  <1> QED
    BY <1>1, <1>2, <1>3 DEF ProbeNothing, PostedFromTargets, MatchedAreHeard,
       NothingBeforeCall, StartedAfterSends, ReturnedAfterSignal

\* A rank starts the signal only with all its sends acknowledged.
LEMMA TestSendsInv ==
    ASSUME IInv, NEW r \in Ranks, TestSends(r)
    PROVE  IInv'
  <1> USE DEF IInv
  <1>1. /\ \A d \in Calls, q \in Ranks : Begun(d, q)' <=> Begun(d, q)
        /\ \A d \in Calls, q \in Ranks : Returned(d, q)' <=> Returned(d, q)
    BY CallFacts DEF TestSends, Begun, Returned, TypeOK
  <1>2. call[r] \in Calls /\ Begun(call[r], r)
    BY CallFacts DEF TestSends, FlagAgrees, Begun
  <1>3. TypeOK'
    <2>1. started' \in [Calls -> SUBSET Ranks] /\ sendsDone' \in [Ranks -> BOOLEAN]
      <3>1. CASE AllSendsDone(r)
        <4>1. /\ started' = [started EXCEPT ![call[r]] = @ \cup {r}]
              /\ sendsDone' = [sendsDone EXCEPT ![r] = TRUE]
          BY <3>1, Zenon DEF TestSends
        <4> QED
          BY <1>2, <4>1 DEF TypeOK
      <3>2. CASE ~AllSendsDone(r)
        <4>1. started' = started /\ sendsDone' = sendsDone
          BY <3>2, Zenon DEF TestSends
        <4> QED
          BY <4>1 DEF TypeOK
      <3> QED
        BY <3>1, <3>2
    <2> QED
      BY <2>1 DEF TestSends, TypeOK
  <1>4. \A d \in Calls, q \in Ranks :
            q \in started'[d] <=>
                q \in started[d] \/ (AllSendsDone(r) /\ d = call[r] /\ q = r)
    <2>1. CASE AllSendsDone(r)
      BY <1>2, <2>1 DEF TestSends, TypeOK
    <2>2. CASE ~AllSendsDone(r)
      BY <1>2, <2>2 DEF TestSends, TypeOK
    <2> QED
      BY <2>1, <2>2
  <1>5. PostedFromTargets' /\ MatchedAreHeard' /\ NothingBeforeCall'
    BY <1>1 DEF TestSends, PostedFromTargets, MatchedAreHeard, NothingBeforeCall
  <1>6. StartedAfterSends'
    <2> SUFFICES ASSUME AllSendsDone(r), NEW m \in posted, m.call = call[r], m.from = r
                 PROVE  m \in acked
      BY <1>1, <1>2, <1>4 DEF TestSends, StartedAfterSends
    <2>1. m.to \in Ranks /\ m = Msg(call[r], r, m.to)
      BY MessageIsMsg DEF TypeOK
    <2>2. m.to \in targets[call[r]][r] \ {r}
      BY <1>2, <2>1 DEF PostedFromTargets
    <2> QED
      BY <2>1, <2>2 DEF AllSendsDone
  <1>7. FlagAgrees'
    <2> SUFFICES ASSUME NEW q \in Ranks, pc'[q] # "idle"
                 PROVE  /\ call[q] \in Calls
                        /\ sendsDone'[q] <=> q \in started'[call[q]]
      BY DEF FlagAgrees, TestSends
    <2>1. pc[q] # "idle"
      BY DEF TestSends, TypeOK
    <2>2. call[q] \in Calls /\ (sendsDone[q] <=> q \in started[call[q]])
      BY <2>1 DEF FlagAgrees
    <2> QED
      BY <1>2, <1>4, <2>2 DEF TestSends, TypeOK
  <1>8. ReturnedAfterSignal'
    <2> SUFFICES ASSUME NEW d \in Calls, NEW q \in Ranks, Returned(d, q)
                 PROVE  started'[d] = Ranks
      BY <1>1 DEF ReturnedAfterSignal
    <2>1. started[d] = Ranks
      BY DEF ReturnedAfterSignal
    <2>2. started'[d] \in SUBSET Ranks
      BY <1>3 DEF TypeOK
    <2> QED
      BY <1>4, <2>1, <2>2
  <1> QED
    BY <1>3, <1>5, <1>6, <1>7, <1>8

\* A rank leaves the call only when every rank has started the signal.
LEMMA CheckSignalInv ==
    ASSUME IInv, NEW r \in Ranks, CheckSignal(r)
    PROVE  IInv'
  <1> USE DEF IInv
  <1>1. call[r] \in Calls
    BY DEF CheckSignal, FlagAgrees
  <1>2. \A d \in Calls, q \in Ranks : Begun(d, q)' <=> Begun(d, q)
    BY DEF CheckSignal, Begun
  <1>3. TypeOK'
    BY DEF CheckSignal, TypeOK
  <1>4. PostedFromTargets' /\ MatchedAreHeard' /\ NothingBeforeCall' /\ StartedAfterSends'
    BY <1>2 DEF CheckSignal, PostedFromTargets, MatchedAreHeard, NothingBeforeCall,
       StartedAfterSends
  <1>5. FlagAgrees'
    BY DEF CheckSignal, TypeOK, FlagAgrees
  <1>6. ReturnedAfterSignal'
    BY <1>1 DEF CheckSignal, TypeOK, Returned, ReturnedAfterSignal, SignalSet
  <1> QED
    BY <1>3, <1>4, <1>5, <1>6

\* The network's delivery of a message disturbs no rank.
LEMMA DeliverInv ==
    ASSUME IInv, NEW m \in posted, Deliver(m)
    PROVE  IInv'
  BY DEF IInv, TypeOK, Deliver, PostedFromTargets, MatchedAreHeard, NothingBeforeCall,
     StartedAfterSends, FlagAgrees, ReturnedAfterSignal, Begun, Returned

\* Nor does the completion of a send.
LEMMA AcknowledgeInv ==
    ASSUME IInv, NEW m \in posted, Acknowledge(m)
    PROVE  IInv'
  BY DEF IInv, TypeOK, Acknowledge, PostedFromTargets, MatchedAreHeard, NothingBeforeCall,
     StartedAfterSends, FlagAgrees, ReturnedAfterSignal, Begun, Returned

\* A step that changes nothing preserves the invariant.
LEMMA StutterInv ==
    ASSUME IInv, UNCHANGED vars
    PROVE  IInv'
  BY DEF IInv, TypeOK, vars, PostedFromTargets, MatchedAreHeard, NothingBeforeCall,
     StartedAfterSends, FlagAgrees, ReturnedAfterSignal, Begun, Returned

\* The inductive invariant holds throughout: the lists, messages, requests and
\* signal of every call agree on every rank.
THEOREM Invariance == Spec => []IInv
  <1>1. ASSUME IInv, [Next]_vars
        PROVE  IInv'
    <2>1. ASSUME NEW r \in Ranks, NEW T \in SUBSET Ranks, Enter(r, T)
          PROVE  IInv'
      BY <1>1, <2>1, EnterInv
    <2>2. ASSUME NEW r \in Ranks, Step(r)
          PROVE  IInv'
      BY <1>1, <2>2, ReceiveInv, ProbeNothingInv, TestSendsInv, CheckSignalInv DEF Step
    <2>3. ASSUME Network
          PROVE  IInv'
      BY <1>1, <2>3, DeliverInv, AcknowledgeInv DEF Network
    <2>4. ASSUME UNCHANGED vars
          PROVE  IInv'
      BY <1>1, <2>4, StutterInv
    <2> QED
      BY <1>1, <2>1, <2>2, <2>3, <2>4 DEF Next, Finished
  <1> QED
    BY <1>1, InitInv, PTL DEF Spec

\* Every state has its type: in particular requests complete only for messages
\* that were received, and only sent messages are received.
THEOREM TypeCorrectness == Spec => []TypeOK
  BY Invariance, PTL DEF IInv

\* The inductive invariant implies what a returning rank may rely on.
LEMMA ResultFromInv == IInv => ResultIsTranspose /\ NothingLeftBehind
  <1> SUFFICES ASSUME IInv, NEW c \in Calls, NEW r \in Ranks, Returned(c, r)
               PROVE  /\ matchedRanks[c][r] = {s \in Ranks : r \in targets[c][s]}
                      /\ \A m \in posted : m.call = c => m \in matched
    BY DEF ResultIsTranspose, NothingLeftBehind
  <1> USE DEF IInv
  <1>1. started[c] = Ranks
    BY DEF ReturnedAfterSignal
  <1>2. \A m \in posted : m.call = c => m \in matched
    BY <1>1, MessageIsMsg DEF StartedAfterSends, TypeOK
  <1>3. ASSUME NEW s \in Ranks
        PROVE  s \in matchedRanks[c][r] <=> r \in targets[c][s]
    <2>1. Begun(c, s)
      BY <1>1 DEF StartedAfterSends
    <2>2. Msg(c, s, r) \in matched <=> Msg(c, s, r) \in posted
      BY <1>2, MsgFields DEF TypeOK
    <2>3. Msg(c, s, r) \in posted <=> r \in targets[c][s] \ {s}
      BY <2>1 DEF PostedFromTargets
    <2> QED
      BY <2>2, <2>3 DEF MatchedAreHeard
  <1>4. matchedRanks[c][r] \subseteq Ranks
    BY DEF TypeOK
  <1> QED
    BY <1>2, <1>3, <1>4

\* A rank that has returned has exactly the ranks that named it.
THEOREM HandshakeCorrect == Spec => []ResultIsTranspose
  BY Invariance, ResultFromInv, PTL

\* No message of a call is left unreceived once any rank has returned from it.
THEOREM HandshakeClean == Spec => []NothingLeftBehind
  BY Invariance, ResultFromInv, PTL
-----------------------------------------------------------------------------
\* What the abstract exchange sees of the state.
ReturnedOf == [r \in Ranks |-> IF pc[r] = "idle" THEN call[r] ELSE call[r] - 1]
ResultOf ==
    [c \in Calls |-> [r \in Ranks |-> IF Returned(c, r) THEN matchedRanks[c][r] ELSE {}]]

\* The initial states are the abstract exchange's.
LEMMA InitRefines == Init => Promise!Init
  <1> SUFFICES ASSUME Init PROVE Promise!Init
    OBVIOUS
  <1>1. \A c \in Calls, r \in Ranks : matchedRanks[c][r] = {}
    BY DEF Init
  <1> QED
    BY <1>1 DEF Init, Promise!Init, Promise!Calls, Calls

\* Entering the call is the abstract Enter.
LEMMA EnterRefines ==
    ASSUME IInv, NEW r \in Ranks, NEW T \in SUBSET Ranks, Enter(r, T)
    PROVE  Promise!Enter(r, T)
  <1> USE DEF IInv
  <1>1. pc[r] = "idle" /\ call[r] \in Nat /\ call[r] < NumCalls
    BY NumCallsAssumption DEF Enter, TypeOK
  <1>2. call' = [call EXCEPT ![r] = @ + 1] /\ pc' = [pc EXCEPT ![r] = "probe"]
    BY DEF Enter
  <1>3. targets' = [targets EXCEPT ![call[r] + 1][r] = T]
    BY DEF Enter
  <1>4. ReturnedOf' = ReturnedOf
    BY <1>1, <1>2 DEF ReturnedOf, TypeOK
  <1>5. ASSUME NEW d \in Calls, NEW q \in Ranks
        PROVE  (IF Returned(d, q) THEN matchedRanks[d][q] ELSE {})'
                   = IF Returned(d, q) THEN matchedRanks[d][q] ELSE {}
    <2>1. d \in Nat /\ call[q] \in Nat
      BY CallFacts DEF TypeOK
    <2>2. CASE q = r
      <3>1. call'[q] = call[q] + 1 /\ pc'[q] = "probe"
        BY <1>2, <2>2 DEF TypeOK
      <3>2. Returned(d, q)' <=> Returned(d, q)
        BY <1>1, <2>1, <2>2, <3>1 DEF Returned
      <3>3. d # call[r] + 1 => matchedRanks'[d][q] = matchedRanks[d][q]
        BY <2>2 DEF Enter, TypeOK
      <3> QED
        BY <2>1, <2>2, <3>2, <3>3 DEF Returned
    <2>3. CASE q # r
      <3>1. call'[q] = call[q] /\ pc'[q] = pc[q] /\ matchedRanks'[d][q] = matchedRanks[d][q]
        BY <2>3 DEF Enter, TypeOK
      <3> QED
        BY <3>1 DEF Returned
    <2> QED
      BY <2>2, <2>3
  <1>6. ResultOf' = ResultOf
    BY <1>5, Zenon DEF ResultOf
  <1>7. ReturnedOf[r] = call[r]
    BY <1>1 DEF ReturnedOf
  <1> QED
    BY <1>1, <1>2, <1>3, <1>4, <1>6, <1>7 DEF Promise!Enter, ReturnedOf, ResultOf

\* The steps inside the call change nothing the abstract exchange can see.
LEMMA InsideRefines ==
    ASSUME IInv, NEW r \in Ranks, pc[r] # "idle", pc'[r] # "idle",
           \A q \in Ranks \ {r} : pc'[q] = pc[q], call' = call, targets' = targets,
           \A c \in Calls, q \in Ranks :
               c # call[r] \/ q # r => matchedRanks'[c][q] = matchedRanks[c][q]
    PROVE  UNCHANGED Promise!vars
  <1>1. ReturnedOf' = ReturnedOf
    BY DEF ReturnedOf
  <1>2. ASSUME NEW d \in Calls, NEW q \in Ranks
        PROVE  (IF Returned(d, q) THEN matchedRanks[d][q] ELSE {})'
                   = IF Returned(d, q) THEN matchedRanks[d][q] ELSE {}
    <2>1. Returned(d, q)' <=> Returned(d, q)
      BY DEF Returned
    <2>2. Returned(d, q) => d # call[r] \/ q # r
      <3>1. d \in Nat /\ call[q] \in Nat
        BY CallFacts DEF IInv, TypeOK
      <3> QED
        BY <3>1 DEF Returned
    <2> QED
      BY <2>1, <2>2
  <1>3. ResultOf' = ResultOf
    BY <1>2, Zenon DEF ResultOf
  <1> QED
    BY <1>1, <1>3 DEF Promise!vars, ReturnedOf, ResultOf

\* Leaving the loop is the abstract Leave: the signal is set, so every rank
\* has begun the call and the matched ranks are all its sources.
LEMMA LeaveRefines ==
    ASSUME IInv, IInv', NEW r \in Ranks, CheckSignal(r), SignalSet(call[r])
    PROVE  Promise!Leave(r)
  <1> DEFINE c == call[r]
  <1>1. c \in Calls /\ c \in Nat /\ c >= 1 /\ pc[r] = "test"
    BY CallFacts DEF CheckSignal, IInv, FlagAgrees
  <1>2. pc' = [pc EXCEPT ![r] = "idle"] /\ call' = call /\ targets' = targets
            /\ matchedRanks' = matchedRanks
    BY DEF CheckSignal
  <1>3. pc'[r] = "idle"
    BY <1>2 DEF IInv, TypeOK
  <1>4. Returned(c, r)' /\ ~Returned(c, r)
    BY <1>1, <1>2, <1>3 DEF Returned
  <1>5. \A q \in Ranks : call[q] >= c
    <2>1. \A q \in Ranks : Begun(c, q)
      BY <1>1 DEF SignalSet, IInv, StartedAfterSends
    <2> QED
      BY <1>1, <2>1 DEF Begun, IInv, TypeOK
  <1>6. matchedRanks[c][r] = Promise!Sources(c, r)
    <2>1. ResultIsTranspose'
      BY ResultFromInv, PTL
    <2> QED
      BY <1>1, <1>2, <1>4, <2>1 DEF ResultIsTranspose, Promise!Sources
  <1>7. ReturnedOf' = [ReturnedOf EXCEPT ![r] = @ + 1] /\ call[r] = ReturnedOf[r] + 1
    <2>1. call[r] = ReturnedOf[r] + 1 /\ ReturnedOf'[r] = call[r]
      BY <1>1, <1>2, <1>3 DEF ReturnedOf
    <2>2. \A q \in Ranks \ {r} : ReturnedOf'[q] = ReturnedOf[q]
      <3>1. \A q \in Ranks \ {r} : pc'[q] = pc[q]
        BY <1>2 DEF IInv, TypeOK
      <3> QED
        BY <1>2, <3>1 DEF ReturnedOf
    <2>3. /\ ReturnedOf = [q \in Ranks |-> ReturnedOf[q]]
          /\ ReturnedOf' = [q \in Ranks |-> ReturnedOf'[q]]
      BY DEF ReturnedOf
    <2> QED
      BY <2>1, <2>2, <2>3
  <1>8. ASSUME NEW d \in Calls, NEW q \in Ranks
        PROVE  ResultOf'[d][q] =
                   IF d = c /\ q = r THEN Promise!Sources(c, r) ELSE ResultOf[d][q]
    <2>1. CASE d = c /\ q = r
      BY <1>2, <1>4, <1>6, <2>1 DEF ResultOf
    <2>2. CASE q # r
      <3>1. pc'[q] = pc[q]
        BY <1>2, <2>2 DEF IInv, TypeOK
      <3> QED
        BY <1>2, <2>2, <3>1 DEF ResultOf, Returned
    <2>3. CASE q = r /\ d # c
      BY <1>2, <2>3 DEF ResultOf, Returned
    <2> QED
      BY <2>1, <2>2, <2>3
  <1>9. ResultOf' = [ResultOf EXCEPT ![c][r] = Promise!Sources(c, r)]
    <2>1. ResultOf = [d \in Calls |-> [q \in Ranks |-> ResultOf[d][q]]]
      BY DEF ResultOf
    <2>2. ResultOf' = [d \in Calls |-> [q \in Ranks |-> ResultOf'[d][q]]]
      BY DEF ResultOf
    <2>3. \A d \in Calls : ResultOf'[d] = [ResultOf EXCEPT ![c][r] = Promise!Sources(c, r)][d]
      <3> SUFFICES ASSUME NEW d \in Calls
                   PROVE  ResultOf'[d] = [ResultOf EXCEPT ![c][r] = Promise!Sources(c, r)][d]
        OBVIOUS
      <3>1. /\ ResultOf[d] = [q \in Ranks |-> ResultOf[d][q]]
            /\ ResultOf'[d] = [q \in Ranks |-> ResultOf'[d][q]]
        BY DEF ResultOf
      <3> QED
        BY <1>1, <1>8, <2>1, <3>1
    <2> QED
      BY <2>1, <2>2, <2>3
  <1> QED
    BY <1>2, <1>5, <1>7, <1>9 DEF Promise!Leave, ReturnedOf, ResultOf

\* Every step is a step of the abstract exchange or changes nothing there.
LEMMA StepRefines ==
    ASSUME IInv, IInv', [Next]_vars
    PROVE  [Promise!Next]_(Promise!vars)
  <1>1. ASSUME NEW r \in Ranks, NEW T \in SUBSET Ranks, Enter(r, T)
        PROVE  Promise!Next
    BY <1>1, EnterRefines DEF Promise!Next
  <1>2. ASSUME NEW r \in Ranks, NEW m \in Visible(r), Receive(r, m)
        PROVE  UNCHANGED Promise!vars
    <2>1. m.call = call[r]
      BY DEF Visible
    <2>2. \A c \in Calls, q \in Ranks :
              c # call[r] \/ q # r => matchedRanks'[c][q] = matchedRanks[c][q]
      BY <1>2 DEF Receive, IInv, TypeOK
    <2> QED
      BY <1>2, <2>2, InsideRefines DEF Receive
  <1>3. ASSUME NEW r \in Ranks, ProbeNothing(r)
        PROVE  UNCHANGED Promise!vars
    BY <1>3, InsideRefines DEF ProbeNothing, IInv, TypeOK
  <1>4. ASSUME NEW r \in Ranks, TestSends(r)
        PROVE  UNCHANGED Promise!vars
    BY <1>4, InsideRefines DEF TestSends, IInv, TypeOK
  <1>5. ASSUME NEW r \in Ranks, CheckSignal(r)
        PROVE  Promise!Next \/ UNCHANGED Promise!vars
    <2>1. CASE SignalSet(call[r])
      BY <1>5, <2>1, LeaveRefines DEF Promise!Next
    <2>2. CASE ~SignalSet(call[r])
      BY <1>5, <2>2, InsideRefines DEF CheckSignal, IInv, TypeOK
    <2> QED
      BY <2>1, <2>2
  <1>6. ASSUME Network \/ UNCHANGED vars
        PROVE  UNCHANGED Promise!vars
    <2>1. UNCHANGED <<call, pc, targets, matchedRanks>>
      BY <1>6 DEF Network, Deliver, Acknowledge, vars
    <2> QED
      BY <2>1 DEF Promise!vars, Returned
  <1> QED
    BY <1>1, <1>2, <1>3, <1>4, <1>5, <1>6 DEF Next, Step, Finished

\* DynamicHandshake implements the abstract exchange: initial states map to
\* initial states, and each step to a step of it or to nothing at all.
THEOREM HandshakeImplements == Spec => ImplementsExchange
  BY InitRefines, StepRefines, Invariance, PTL DEF Spec, ImplementsExchange, Promise!Spec
-----------------------------------------------------------------------------
\* The fallback of the signal.

\* The root is in the middle of its use number finishes[0] + 1; of the others'
\* messages of that use it has counted the first ones of these:
Counted == {r \in Others : starts[r] = finishes[0] + firstMail[r] + 1}

\* A rank is in one use at most, and its second message is in the mail exactly
\* while the request for it is posted.
RanksInOneUse ==
    /\ \A r \in Procs : starts[r] = finishes[r] \/ starts[r] = finishes[r] + 1
    /\ \A r \in Others :
          /\ secondRequest[r] = "null" <=> starts[r] = finishes[r]
          /\ secondRequest[r] = "posted" <=> secondMail[r] = 1

\* What has been sent is in the mail or received.  The root has received the
\* second messages of this use from the ranks it has come past.
MailAccountedFor ==
    \A r \in Others :
        /\ \/ starts[r] = finishes[0] + firstMail[r]
           \/ starts[r] = finishes[0] + firstMail[r] + 1
        /\ r < OtherRank => starts[r] = finishes[0] + secondMail[r] + 1
        /\ r >= OtherRank => starts[r] = finishes[0] + secondMail[r]

\* The root receives only while it polls, and no second message before all the
\* first ones.
RootInOrder ==
    /\ NumCompleted = Cardinality(Counted)
    /\ NumCompleted > 0 => Polling(0)
    /\ OtherRank > 1 => NumCompleted = NumProcs-1 /\ Polling(0)

\* The inductive invariant.
SignalInv == SignalTypeOK /\ RanksInOneUse /\ MailAccountedFor /\ RootInOrder

-----------------------------------------------------------------------------
\* There are NumProcs-1 others, and the root is none of them.
LEMMA OthersFinite ==
    /\ IsFiniteSet(Others) /\ Cardinality(Others) = NumProcs-1
    /\ Procs = Others \cup {0} /\ 0 \notin Others
    /\ 0 \in Procs /\ Others \subseteq Procs /\ Others \subseteq Nat
  <1>1. IsFiniteSet(Others) /\ Cardinality(Others) = NumProcs-1
    BY FS_Interval, NumProcsAssumption DEF Others
  <1> QED
    BY <1>1, NumProcsAssumption DEF Others, Procs

\* When the root has counted NumProcs-1 first messages, it has counted everybody.
LEMMA AllCounted ==
    ASSUME SignalInv, NumCompleted = NumProcs-1
    PROVE  /\ Counted = Others
           /\ \A r \in Others : starts[r] = finishes[0] + firstMail[r] + 1
  <1>1. Counted \subseteq Others
    BY DEF Counted
  <1>2. Cardinality(Counted) = Cardinality(Others)
    BY OthersFinite DEF SignalInv, RootInOrder
  <1>3. Counted = Others
    BY <1>1, <1>2, OthersFinite, FS_Subset
  <1> QED
    BY <1>3 DEF Counted

\* A rank that may start has nothing in the mail.
LEMMA StartsWithEmptyMail ==
    ASSUME SignalInv, NEW r \in Others, starts[r] = finishes[r]
    PROVE  firstMail[r] = 0 /\ secondMail[r] = 0 /\ secondRequest[r] = "null"
  <1>1. secondRequest[r] = "null" /\ secondMail[r] = 0
    BY DEF SignalInv, SignalTypeOK, RanksInOneUse
  <1>2. CASE r < OtherRank
    <2>1. OtherRank > 1
      BY <1>2 DEF Others, SignalInv, SignalTypeOK
    <2>2. starts[r] = finishes[0] + firstMail[r] + 1
      BY <2>1, AllCounted DEF SignalInv, RootInOrder
    <2> QED
      BY <1>1, <1>2, <2>2, OthersFinite DEF SignalInv, SignalTypeOK, MailAccountedFor
  <1>3. CASE r >= OtherRank
    BY <1>1, <1>3, OthersFinite DEF SignalInv, SignalTypeOK, MailAccountedFor
  <1> QED
    BY <1>2, <1>3 DEF Others, SignalInv, SignalTypeOK

\* Nobody who is behind the root's present use, or the last one, has not started it.
LEMMA EverybodyStarted ==
    ASSUME SignalInv, NEW q \in Procs
    PROVE  /\ starts[q] >= finishes[0]
           /\ NumCompleted = NumProcs-1 /\ Polling(0) => starts[q] >= finishes[0] + 1
  <1>1. CASE q = 0
    BY <1>1, OthersFinite DEF SignalInv, SignalTypeOK, RanksInOneUse, Polling
  <1>2. CASE q \in Others
    BY <1>2, AllCounted, OthersFinite DEF SignalInv, SignalTypeOK, MailAccountedFor
  <1> QED
    BY <1>1, <1>2, OthersFinite
-----------------------------------------------------------------------------
LEMMA SignalInitInv == SignalInit => SignalInv
  <1> SUFFICES ASSUME SignalInit PROVE SignalInv
    OBVIOUS
  <1>1. SignalTypeOK
    BY NumProcsAssumption, UsesAssumption DEF SignalInit, SignalTypeOK
  <1>2. Counted = {}
    BY OthersFinite DEF SignalInit, Counted
  <1>3. Cardinality(Counted) = 0
    BY <1>2, FS_EmptySet
  <1>4. RanksInOneUse /\ MailAccountedFor
    BY OthersFinite DEF SignalInit, RanksInOneUse, MailAccountedFor, Others
  <1> QED
    BY <1>1, <1>3, <1>4 DEF SignalInv, RootInOrder, SignalInit

LEMMA StartInv == ASSUME SignalInv, NEW r \in Procs, Start(r) PROVE SignalInv'
  <1>1. CASE r = 0
    <2>1. SignalTypeOK'
      BY <1>1, OthersFinite, UsesAssumption DEF SignalInv, SignalTypeOK, Start, mail, rootState
    <2>2. RanksInOneUse' /\ MailAccountedFor'
      BY <1>1, OthersFinite DEF SignalInv, SignalTypeOK, Start, mail, rootState, RanksInOneUse, MailAccountedFor
    <2>3. Counted' = Counted
      BY <1>1, OthersFinite DEF SignalInv, SignalTypeOK, Start, mail, rootState, Counted
    <2>4. RootInOrder'
      BY <1>1, <2>3, OthersFinite DEF SignalInv, SignalTypeOK, Start, mail, rootState, RootInOrder, Polling
    <2> QED
      BY <2>1, <2>2, <2>4 DEF SignalInv
  <1>2. CASE r \in Others
    <2>0. firstMail[r] = 0 /\ secondMail[r] = 0 /\ secondRequest[r] = "null"
      BY <1>2, StartsWithEmptyMail DEF Start
    <2>a. r # 0
      BY <1>2, OthersFinite
    <2>1. SignalTypeOK'
      BY <1>2, <2>a, <2>0, OthersFinite, UsesAssumption DEF SignalInv, SignalTypeOK, Start, rootState
    <2>2. RanksInOneUse'
      BY <1>2, <2>a, <2>0, OthersFinite DEF SignalInv, SignalTypeOK, Start, rootState, RanksInOneUse
    <2>3. MailAccountedFor'
      BY <1>2, <2>a, <2>0, OthersFinite DEF SignalInv, SignalTypeOK, Start, rootState, MailAccountedFor
    <2>4. Counted' = Counted
      <3>1. finishes'[0] = finishes[0] /\ finishes[0] \in Nat
        BY OthersFinite DEF SignalInv, SignalTypeOK, Start
      <3>2. \A q \in Others : starts'[q] = finishes[0] + firstMail'[q] + 1
                               <=> starts[q] = finishes[0] + firstMail[q] + 1
        BY <1>2, <2>a, <2>0, <3>1, OthersFinite DEF SignalInv, SignalTypeOK, Start
      <3> QED
        BY <3>1, <3>2 DEF Counted
    <2>5. RootInOrder'
      BY <1>2, <2>a, <2>4, OthersFinite DEF SignalInv, SignalTypeOK, Start, rootState, RootInOrder, Polling
    <2> QED
      BY <2>1, <2>2, <2>3, <2>5 DEF SignalInv
  <1> QED
    BY <1>1, <1>2, OthersFinite

LEMMA CheckOtherInv == ASSUME SignalInv, NEW r \in Others, CheckOther(r) PROVE SignalInv'
  <1>0. r \in Procs /\ r # 0 /\ 0 \in Procs
    BY OthersFinite
  <1>1. SignalTypeOK'
    BY <1>0 DEF SignalInv, SignalTypeOK, CheckOther, Polling, rootState
  <1>2. RanksInOneUse'
    BY <1>0, OthersFinite DEF SignalInv, SignalTypeOK, CheckOther, Polling, rootState, RanksInOneUse
  <1>3. finishes'[0] = finishes[0]
    BY <1>0 DEF SignalInv, SignalTypeOK, CheckOther
  <1>4. MailAccountedFor'
    BY <1>3 DEF SignalInv, MailAccountedFor, CheckOther, rootState
  <1>5. Counted' = Counted
    BY <1>3 DEF Counted, CheckOther
  <1>6. RootInOrder'
    BY <1>3, <1>5 DEF SignalInv, RootInOrder, CheckOther, rootState, Polling
  <1> QED
    BY <1>1, <1>2, <1>4, <1>6 DEF SignalInv

LEMMA RootCountInv == ASSUME SignalInv, NEW r \in Others, RootCount(r) PROVE SignalInv'
  <1>0. 0 \in Procs /\ r \in Nat
    BY OthersFinite
  <1>1. SignalTypeOK'
    BY NumProcsAssumption DEF SignalInv, SignalTypeOK, RootCount
  <1>2. RanksInOneUse'
    BY DEF SignalInv, RootCount, RanksInOneUse
  <1>3. OtherRank = 1 /\ r >= OtherRank
    BY NumProcsAssumption DEF SignalInv, SignalTypeOK, RootInOrder, RootCount, Others
  <1>4. firstMail[r] = 1 /\ starts[r] = finishes[0] + 1
    BY <1>0, <1>3, OthersFinite DEF SignalInv, SignalTypeOK, RootCount, MailAccountedFor
  <1>5. MailAccountedFor'
    BY <1>0, <1>4, OthersFinite DEF SignalInv, SignalTypeOK, RootCount, MailAccountedFor
  <1>6. Counted' = Counted \cup {r} /\ r \notin Counted
    BY <1>0, <1>4, OthersFinite DEF SignalInv, SignalTypeOK, RootCount, Counted
  <1>7. Cardinality(Counted') = Cardinality(Counted) + 1
    <2>1. IsFiniteSet(Counted)
      BY OthersFinite, FS_Subset DEF Counted
    <2> QED
      BY <1>6, <2>1, FS_AddElement
  <1>8. RootInOrder'
    BY <1>3, <1>7 DEF SignalInv, RootInOrder, RootCount, Polling
  <1> QED
    BY <1>1, <1>2, <1>5, <1>8 DEF SignalInv

LEMMA RootCollectInv == ASSUME SignalInv, RootCollect PROVE SignalInv'
  <1>0. OtherRank \in Others /\ OtherRank \in Nat /\ 0 \in Procs
    BY NumProcsAssumption, OthersFinite DEF SignalInv, SignalTypeOK, RootCollect, Others
  <1>1. secondMail[OtherRank] = 1 /\ secondRequest[OtherRank] = "posted"
    BY <1>0 DEF SignalInv, SignalTypeOK, RanksInOneUse, RootCollect
  <1>2. SignalTypeOK'
    BY <1>0, <1>1, NumProcsAssumption DEF SignalInv, SignalTypeOK, RootCollect
  <1>3. RanksInOneUse'
    BY <1>0, <1>1, OthersFinite DEF SignalInv, SignalTypeOK, RootCollect, RanksInOneUse
  <1>4. MailAccountedFor'
    BY <1>0, <1>1, OthersFinite DEF SignalInv, SignalTypeOK, RootCollect, MailAccountedFor
  <1>5. Counted' = Counted
    BY DEF RootCollect, Counted
  <1>6. RootInOrder'
    BY <1>5 DEF SignalInv, RootInOrder, RootCollect, Polling
  <1> QED
    BY <1>2, <1>3, <1>4, <1>6 DEF SignalInv

LEMMA RootDoneInv == ASSUME SignalInv, RootDone PROVE SignalInv'
  <1>0. 0 \in Procs /\ 0 \notin Others
    BY OthersFinite
  <1>1. \A r \in Others : starts[r] = finishes[0] + firstMail[r] + 1
    BY AllCounted DEF RootDone
  <1>2. \A r \in Others : starts[r] = finishes[0] + secondMail[r] + 1
    <2>1. \A r \in Others : r < OtherRank
      BY NumProcsAssumption DEF Others, RootDone
    <2> QED
      BY <2>1 DEF SignalInv, MailAccountedFor
  <1>3. SignalTypeOK'
    BY <1>0, NumProcsAssumption DEF SignalInv, SignalTypeOK, RootDone, Polling, mail
  <1>4. RanksInOneUse'
    BY <1>0, OthersFinite DEF SignalInv, SignalTypeOK, RootDone, Polling, mail, RanksInOneUse
  <1>5. finishes'[0] = finishes[0] + 1 /\ OtherRank' = 1
    BY <1>0 DEF SignalInv, SignalTypeOK, RootDone
  <1>6. MailAccountedFor'
    <2>1. \A r \in Others : starts'[r] = starts[r] /\ firstMail'[r] = firstMail[r]
                              /\ secondMail'[r] = secondMail[r] /\ r >= OtherRank'
      BY <1>5 DEF RootDone, mail, Others
    <2>2. \A r \in Others : starts[r] \in Nat /\ firstMail[r] \in Nat /\ secondMail[r] \in Nat
      BY OthersFinite DEF SignalInv, SignalTypeOK
    <2>3. finishes[0] \in Nat /\ \A r \in Others : ~(r < OtherRank')
      BY <1>0, <1>5 DEF SignalInv, SignalTypeOK, Others
    <2> QED
      BY <1>1, <1>2, <1>5, <2>1, <2>2, <2>3 DEF MailAccountedFor
  <1>7. Counted' = {}
    <2>1. \A r \in Others : starts'[r] # finishes'[0] + firstMail'[r] + 1
      BY <1>0, <1>1, <1>5, OthersFinite DEF SignalInv, SignalTypeOK, RootDone, mail
    <2> QED
      BY <2>1 DEF Counted
  <1>8. Cardinality(Counted') = 0
    BY <1>7, FS_EmptySet
  <1>9. RootInOrder'
    BY <1>8 DEF RootInOrder, RootDone
  <1> QED
    BY <1>3, <1>4, <1>6, <1>9 DEF SignalInv

LEMMA SignalStepInv == SignalInv /\ [SignalNext]_signalVars => SignalInv'
  <1> SUFFICES ASSUME SignalInv, [SignalNext]_signalVars PROVE SignalInv'
    OBVIOUS
  <1>1. ASSUME NEW r \in Procs, Start(r) PROVE SignalInv'
    BY <1>1, StartInv
  <1>2. ASSUME NEW r \in Others, CheckOther(r) PROVE SignalInv'
    BY <1>2, CheckOtherInv
  <1>3. ASSUME NEW r \in Others, RootCount(r) PROVE SignalInv'
    BY <1>3, RootCountInv
  <1>4. CASE RootCollect
    BY <1>4, RootCollectInv
  <1>5. CASE RootDone
    BY <1>5, RootDoneInv
  <1>6. CASE UNCHANGED signalVars
    BY <1>6 DEF signalVars, SignalInv, SignalTypeOK, RanksInOneUse, MailAccountedFor, RootInOrder, Counted, Polling
  <1> QED
    BY <1>1, <1>2, <1>3, <1>4, <1>5, <1>6 DEF SignalNext, Check, AllUsed

\* The invariant holds in every behaviour, with any number of processes: at most
\* one message of each kind from each rank is under way, the root has counted
\* what it says, and uses do not mix (CommunicationOps.cpp, signal::Check).
THEOREM SignalInvariance == SignalSpec => []SignalInv
  BY SignalInitInv, SignalStepInv, PTL DEF SignalSpec
-----------------------------------------------------------------------------
LEMMA FinishImplements ==
    ASSUME SignalInv, NEW r \in Others, CheckOther(r) PROVE Barrier!Finish(r)
  <1>0. r \in Procs /\ 0 \in Procs /\ r \in Nat
    BY OthersFinite
  <1>1. secondMail[r] = 0
    BY <1>0 DEF SignalInv, SignalTypeOK, RanksInOneUse, CheckOther
  <1>2. \A q \in Procs : starts[q] >= starts[r]
    <2>1. CASE r < OtherRank
      <3>1. OtherRank > 1
        BY <2>1 DEF Others, SignalInv, SignalTypeOK
      <3>2. NumCompleted = NumProcs-1 /\ Polling(0)
        BY <3>1 DEF SignalInv, RootInOrder
      <3>3. starts[r] = finishes[0] + 1
        BY <1>0, <1>1, <2>1 DEF SignalInv, SignalTypeOK, MailAccountedFor
      <3> QED
        BY <3>2, <3>3, EverybodyStarted
    <2>2. CASE r >= OtherRank
      <3>1. starts[r] = finishes[0]
        BY <1>0, <1>1, <2>2 DEF SignalInv, SignalTypeOK, MailAccountedFor
      <3> QED
        BY <3>1, EverybodyStarted
    <2> QED
      BY <2>1, <2>2 DEF Others, SignalInv, SignalTypeOK
  <1> QED
    BY <1>2 DEF CheckOther, Polling, Barrier!Finish

\* What the two messages per rank do is what MPI_Ibarrier would: Check() returns
\* true on a rank only when all of them have called Start() for this use.
THEOREM FallbackImplements == SignalSpec => ImplementsSignal
  <1>1. SignalInit => Barrier!Init
    BY DEF SignalInit, Barrier!Init
  <1>2. SignalInv /\ [SignalNext]_signalVars => [Barrier!Next]_(Barrier!vars)
    <2> SUFFICES ASSUME SignalInv, [SignalNext]_signalVars PROVE [Barrier!Next]_(Barrier!vars)
      OBVIOUS
    <2>1. ASSUME NEW r \in Procs, Start(r) PROVE Barrier!Next
      BY <2>1 DEF Start, Barrier!Start, Barrier!Next
    <2>2. ASSUME NEW r \in Others, CheckOther(r) PROVE Barrier!Next
      BY <2>2, FinishImplements, OthersFinite DEF Barrier!Next
    <2>3. ASSUME NEW r \in Others, RootCount(r) PROVE UNCHANGED Barrier!vars
      BY <2>3 DEF RootCount, Barrier!vars
    <2>4. CASE RootCollect
      BY <2>4 DEF RootCollect, Barrier!vars
    <2>5. CASE RootDone
      <3>1. \A q \in Procs : starts[q] >= starts[0]
        BY <2>5, EverybodyStarted DEF RootDone, Polling
      <3> QED
        BY <2>5, <3>1, OthersFinite DEF RootDone, Polling, Barrier!Finish, Barrier!Next
    <2>6. CASE UNCHANGED signalVars
      BY <2>6 DEF signalVars, Barrier!vars
    <2> QED
      BY <2>1, <2>2, <2>3, <2>4, <2>5, <2>6 DEF SignalNext, Check, AllUsed
  <1> QED
    BY <1>1, <1>2, SignalInvariance, PTL DEF SignalSpec, ImplementsSignal, Barrier!Spec
=============================================================================
