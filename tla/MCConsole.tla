----------------------------- MODULE MCConsole -----------------------------
(* Small instances of Console.  Everything that three keys, erasing and a   *)
(* line one character too long can do, and commands for every program, with *)
(* too few arguments, enough, too many, and corrections; for the missing    *)
(* argument only the command that shows it.                                 *)
EXTENDS Console

Keys == {"led", " ", "BS"}
Short == UNION {[1 .. n -> Keys] : n \in 0 .. 3}
Detecting == {<<"i2c", " ", "detect", " ", "18">>}
Commands ==
    {<<"test", " ", "i2c">>, <<"test", " ", "on">>,
     <<"led", " ", "on">>, <<"led", " ", "on", " ", "1">>,
     <<"led", " ", "on", "BS", "off", " ", "5">>,
     <<" ", "led", " ", " ", "off", " ", "1", "BS", "2">>,
     <<"sf">>, <<"sf", " ", "probe">>, <<"sf", " ", "read">>,
     <<"sf", " ", "read", " ", "2">>, <<"sf", " ", "read", " ", "1", " ", "5">>,
     <<"i2c", " ", "scan">>, <<"i2c", " ", "detect">>,
     <<"i2c", " ", "read", " ", "1", " ", "18">>, <<"i2c", " ", "write", " ", "1", " ", "2">>,
     <<"i2c", " ", "write", " ", "1", " ", "2", " ", "5", " ">>,
     <<"i2c", " ", "write", " ", "1", " ", "2", " ", "5", " ", "1">>,
     <<"i2c", " ", "write", " ", "1", " ", "2", " ", "5", "5", "5", "BS", "BS">>,
     <<"i2c", " ", "write", " ", "1", " ", "2", " ", "5", " ", "1", " ", "5", "BS">>,
     <<"time">>, <<"buttons">>, <<"adc">>, <<"rpc_server">>, <<"help">>, <<"on">>}
AllLines == Short \union Commands \union Detecting
AllNumbers == [c \in {"1", "2", "5", "18"} |->
                  CASE c = "1" -> 1 [] c = "2" -> 2 [] c = "5" -> 5 [] c = "18" -> 18]
=============================================================================
