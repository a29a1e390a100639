------------------------------ MODULE MCVaults ------------------------------
(* A small instance of OpenVaults: two servers, two requests, one vault that is made, opened and deleted. *)
EXTENDS OpenVaults

CONSTANTS new

MCCurrent == [s \in Server |-> new]
=============================================================================
