------------------------------- MODULE MCLog -------------------------------
(* Small instances of WebstoreLog for TLC.                                  *)
EXTENDS WebstoreLog

CONSTANTS main, w1, w2
=============================================================================
