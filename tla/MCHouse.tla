-------------------------------- MODULE MCHouse --------------------------------
(***************************************************************************)
(* An instance of the house for TLC: one button and one relay.             *)
(***************************************************************************)
EXTENDS House

CONSTANTS b1, d1

MCWire == [b \in {b1} |-> d1]
=============================================================================
