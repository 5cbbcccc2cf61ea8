----------------------------- MODULE MCGatewayDuty -----------------------------
(* GatewayDuty with a ring of three buckets of two milliseconds.           *)
EXTENDS GatewayDuty

(* Two channels of the sub-band 868.7 - 869.2 MHz and one of the band-wide *)
(* default, all with a duty cycle of 0.1 %, and one that accept() refuses. *)
TwoBands == {868700000, 869200000, 863500000, 434000000}

(* One frequency in each of the five sub-bands between 863 and 870 MHz.    *)
FiveBands == {868100000, 868700000, 869525000, 869800000, 863500000}
===============================================================================
