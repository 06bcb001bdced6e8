------------------------------- MODULE MCUrpc -------------------------------
(* Small instance of Urpc: a request with data, which can be misread for a  *)
(* length that just fits, and an empty one to an id that no handler has.    *)
(* Data of more bytes than a request is long fit into the buffer: a misread *)
(* length can make the board take a whole attempt for the rest of a frame.  *)
EXTENDS Urpc

Handlers == {Num(1)}
AllRequests ==
    {[method |-> Num(1), data |-> <<Num(2)>>],
     [method |-> Num(2), data |-> <<>>]}
=============================================================================
