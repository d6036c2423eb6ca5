---------------------------- MODULE MCLogParser ----------------------------
(***************************************************************************)
(* A messenger and one other program, calls one in another, short logs.    *)
(***************************************************************************)
EXTENDS LogParser
=============================================================================
