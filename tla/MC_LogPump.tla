----------------------------- MODULE MC_LogPump -----------------------------
(* Outputs with every way in which the two characters that end a segment   *)
(* can meet, for TLC.                                                      *)
EXTENDS LogPump

CONSTANTS out, err

Texts ==
    {[out |-> <<"a", LF, "b", LF>>, err |-> <<"c", LF>>],
     [out |-> <<"a", CR, "b", CR, "b", LF>>, err |-> <<"c">>],
     [out |-> <<LF, "a", CR, LF, "b", CR, "c">>, err |-> <<>>],
     [out |-> <<"a", "b", LF, LF, "c", CR>>, err |-> <<"d", CR, "e">>]}

Written == {[p \in Pipe |-> IF p = out THEN t.out ELSE t.err] : t \in Texts}
=============================================================================
