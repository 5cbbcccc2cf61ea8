------------------------------- MODULE MCGateway -------------------------------
(* Gateway with a counter that wraps at 24 and downlinks accepted up to 5  *)
(* ticks ahead, started shortly before the wrap.                           *)
EXTENDS Gateway
===============================================================================
