---------------------------- MODULE MCHandshake ----------------------------
(* Model-checking instance of Handshake. The bounds are given in the .cfg  *)
(* files; the InitiatorHandshakeStates.cpp stubs are substituted for the   *)
(* handlers the spec describes by the cfg of the run that checks them.     *)
EXTENDS Handshake
=============================================================================
