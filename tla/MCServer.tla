------------------------------ MODULE MCServer ------------------------------
(* A small instance of Server for TLC.                                     *)
EXTENDS Server

MCConns == 1..2
MCCallers == 1..2
=============================================================================
