----------------------------- MODULE MCProcess -----------------------------
(***************************************************************************)
(* A small instance of the process.                                        *)
(***************************************************************************)
EXTENDS ProcessProperties

(* A good device, one whose key has another length, one that is not for    *)
(* this agent, and one whose header is cut off.                            *)
Good == [base64 |-> TRUE, header |-> 72, key |-> 32, sealed |-> TRUE]
SomeDevices ==
  {Good, [Good EXCEPT !.key = 31], [Good EXCEPT !.sealed = FALSE],
   [Good EXCEPT !.header = 39]}
=============================================================================
