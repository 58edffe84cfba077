------------------------------ MODULE MCFanOut -------------------------------
(* A small fan-out. *)
EXTENDS FanOut

Does(op, args) == [op |-> op, args |-> args]

\* main launches a and b in one Do, b launches c.
Launches == <<<<"a", "b">>, <<"c">>>>
Launchers == <<"main", "b">>

Programs ==
    [a |-> <<Does("Join", <<1, Nil, 2>>), Does("AddSlice", <<1, 2>>)>>,
     b |-> <<Does("AddMapKeys", <<1, 3>>), Does("Join", <<1>>)>>,
     c |-> <<Does("Join", <<Nil, 3>>), Does("RemoveSlice", <<2>>)>>]
==============================================================================
