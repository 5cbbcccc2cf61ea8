-------------------------------- MODULE MCRadio --------------------------------
(* Radio with two spreading factors.                                       *)
EXTENDS Radio
===============================================================================
