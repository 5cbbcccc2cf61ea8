-------------------------------- MODULE MCBridge --------------------------------
(* Bridge with channels of one or two messages.  SeqMod is smaller than the *)
(* number of downlinks, so sequence ids wrap and are reused.               *)
EXTENDS Bridge
===============================================================================
