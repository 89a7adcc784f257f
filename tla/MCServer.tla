------------------------------ MODULE MCServer ------------------------------
(***************************************************************************)
(* An instance of Server for TLC: the connections are the sessions.        *)
(***************************************************************************)
EXTENDS Server
=============================================================================
