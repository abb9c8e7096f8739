------------------------------ MODULE MCLogStream ------------------------------
(* More lines than the channel and the scanner hold, so that all can be full.*)
EXTENDS LogStream

MCRoom == [pipe |-> 1, sock |-> 1, lines |-> 1]
================================================================================
