------------------------------- MODULE MCCmd -------------------------------
(* Names of one and two letters; "he" begins like "h".                      *)
EXTENDS CmdLoop
MCTable == <<[cmdname |-> <<"e">>, repeat |-> 0],
             [cmdname |-> <<"h">>, repeat |-> 1],
             [cmdname |-> <<"h", "e">>, repeat |-> 2]>>
=============================================================================
