----------------------------- MODULE MCTransfer -----------------------------
(* Two points, the first and the last, with donors and receivers anywhere   *)
(* and stored in opposite orders; every donor is also stored on the next    *)
(* rank, or on no other.                                                    *)
EXTENDS Transfer

Used == {0, TotalPoints-1}

Exchange(connectivities, place, tag, op) ==
    [connectivities |-> connectivities, place |-> place, tag |-> tag, op |-> op]

Recv(x) == <<"recv", x>>
Send1(x) == <<"send", x>>

LayoutOf(corner, receiver, shift, known, exchanges, program, rounds, wait, eager) ==
    [corner |-> corner,
     other |-> [p \in Used |-> (corner[p] + shift) % NumProcs],
     receiver |-> receiver,
     known |-> known,
     donors |-> <<TotalPoints-1, 0>>,
     receivers |-> <<0, TotalPoints-1>>,
     exchanges |-> exchanges,
     program |-> program,
     rounds |-> rounds,
     wait |-> wait,
     eager |-> eager]

\* The look-up for all of them, with one exchange.
Single == Exchange(2, 1, 1, "APPEND")
AnyLayout ==
    {LayoutOf(corner, receiver, shift, known, {Single},
              [r \in Ranks |-> <<Recv(Single), Send1(Single)>>], 1, "all", TRUE) :
        corner \in [Used -> Ranks], receiver \in [Used -> Ranks],
        shift \in {0, 1}, known \in {{}, {0}}}

\* Two exchanges at a time between the same ranks, some of them of two connectivities;
\* the first rank makes its calls in another order than the second, and the third has none
\* of the grids.
At(a, b) == (0 :> a) @@ (TotalPoints-1 :> b)
First1 == Exchange(2, 0, 1, "APPEND")
Seconds == {Exchange(2, 1, 1, "OVERWRITE"), Exchange(2, 1, 0, "OVERWRITE")}
Programs(a, b) ==
    {<<<<Recv(a), Recv(b), Send1(a), Send1(b)>>, <<Send1(b), Send1(a), Recv(b), Recv(a)>>>>,
     <<<<Recv(b), Send1(a), Recv(a), Send1(b)>>, <<Recv(a), Recv(b), Send1(a), Send1(b)>>>>,
     <<<<Send1(b), Send1(a), Recv(b), Recv(a)>>, <<Send1(a), Recv(b), Send1(b), Recv(a)>>>>}
Busy ==
    UNION {{LayoutOf(ends[1], ends[2], 0, Used, {First1, x},
                     [r \in Ranks |-> IF r < 2 THEN both[r + 1] ELSE <<>>], ends[3], how[1], how[2]) :
               ends \in {<<At(0, 0), At(1, 1), 2>>, <<At(0, 1), At(1, 0), 1>>},
               both \in Programs(First1, x),
               how \in {<<"one", FALSE>>, <<"any", FALSE>>, <<"all", TRUE>>}} :
           x \in Seconds}
AllLayouts == AnyLayout \cup Busy
=============================================================================
