------------------------------- MODULE MCConn -------------------------------
(* Small instances of WebstoreConn for TLC.                                 *)
EXTENDS WebstoreConn

CONSTANTS listener, x, localhost

OneAddress == {x, localhost}

Counts == 1..ReqCount
=============================================================================
