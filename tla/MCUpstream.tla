------------------------------- MODULE MCUpstream -------------------------------
(* Small instances of Upstream for TLC. *)
EXTENDS Upstream

Txpk(freq, sf, bw, codr, powe, prea, len) ==
  [modu |-> "LORA", freq |-> freq, datr |-> [sf |-> sf, bw |-> bw], codr |-> codr,
   powe |-> powe, prea |-> prea, ipol |-> TRUE, len |-> len]

(* An RX2 window at full power; a short spreading factor with a coding     *)
(* rate that is not one; a long preamble with a bandwidth the table does   *)
(* not have; a frequency outside the band; a payload that does not decode. *)
Requests ==
  { Txpk(869525000, 12, 125, 5, 27, Absent, 255),
    Txpk(868100000, 5, 500, 9, 14, 8, 1),
    Txpk(868100000, 11, 200, 8, Absent, 32, 13),
    Txpk(862999999, 7, 125, 5, 14, Absent, 51),
    Txpk(868100000, 7, 125, 5, 14, Absent, Absent) }
(* The hypothesis of the theorem about the claims.                         *)
ASSUME MCRequests == ExactRequests

=============================================================================
