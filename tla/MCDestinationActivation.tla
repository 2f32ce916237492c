----------------------- MODULE MCDestinationActivation -----------------------
(* An instance for the model checker. *)
EXTENDS DestinationActivation
CONSTANTS c1, c2
=============================================================================
