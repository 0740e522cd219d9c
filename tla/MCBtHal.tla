--------------------------------- MODULE MCBtHal ---------------------------------
(***************************************************************************)
(* Instances of BtHal for TLC: two sessions, one packet of the stack, one  *)
(* command in the firmware's script and one in the configuration file.     *)
(***************************************************************************)
EXTENDS BtHal
===============================================================================
