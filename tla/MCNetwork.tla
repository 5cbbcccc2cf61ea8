------------------------------- MODULE MCNetwork -------------------------------
(* Small instances of Network for TLC. *)
EXTENDS Network

=============================================================================
