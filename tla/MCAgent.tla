------------------------------ MODULE MCAgent ------------------------------
(***************************************************************************)
(* Small instances of the agent for TLC; the .cfg files name the bounds.   *)
(***************************************************************************)
EXTENDS AgentProperties, Conversion

(* Every message that there may be, by what the conversion makes of it.    *)
ConvertedKinds == {Convert(m, KeyLength) : m \in Messages}
=============================================================================
