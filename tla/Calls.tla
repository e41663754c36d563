-------------------------------- MODULE Calls --------------------------------
(***************************************************************************)
(* What the modules of the toolkit share: the calls that an application    *)
(* makes of the part that is modelled.                                     *)
(***************************************************************************)
CONSTANTS Call, \* bound: the calls
          None  \* nothing

ASSUME CallsAssumption == None \notin Call
=============================================================================
