------------------------------- MODULE Events -------------------------------
(***************************************************************************)
(* Events as components send them to their listeners: a batch tells of     *)
(* several objects in a row, and only its last event says LastInSequence.  *)
(* Listeners collect what a batch says and act on it when it ends.         *)
(***************************************************************************)
EXTENDS KeyOrder

\* One event for each object of the sequence ids, with its flags.  Each event
\* also carries what a listener would find if it looked the object up: seen.
Batch(ids, flags, seen) ==
    [i \in 1 .. Len(ids) |->
        [id |-> ids[i], flags |-> flags[ids[i]], last |-> i = Len(ids), seen |-> seen]]

\* What a listener on any rank can tell of an event.
Heard(batch) ==
    [i \in 1 .. Len(batch) |-> [id |-> batch[i].id, flags |-> batch[i].flags,
                                last |-> batch[i].last]]

\* After these events no listener is left waiting for the end of a batch.
EndsBatch(log) == log # <<>> => Last(log).last

\* Nothing is said of an object after its end, or before its beginning.
WithinLifetime(log) ==
    \A i, j \in 1 .. Len(log) :
        i < j /\ log[i].id = log[j].id =>
            /\ "DESTROY" \notin log[i].flags
            /\ "CREATE" \notin log[j].flags
=============================================================================
