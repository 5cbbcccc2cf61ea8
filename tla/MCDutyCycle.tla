------------------------------ MODULE MCDutyCycle ------------------------------
(* DutyCycle on a ring of three buckets of two milliseconds: an "hour" of  *)
(* 6 ms, and a clock that runs for more than two of them.                  *)
EXTENDS DutyCycle

(* A sub-band of 0.1 %, whose allowance is PermilleMs, and one without a limit. *)
MCFreqs == {868700000, 915000000}

(* The edges of every sub-band and their neighbours.                       *)
MCTableFreqs ==
  {edge + d : edge \in {433050000, 434790000, 863000000, 868000000, 868600000,
                        868700000, 869200000, 869400000, 869650000, 869700000,
                        870000000},
              d \in {-1, 0, 1}}
===============================================================================
