---------------------------- MODULE GatewayScheduler ----------------------------
(***************************************************************************)
(* Downlink timing over the wrapping microsecond counter of the gateway    *)
(* (src/gateway/scheduler.rs) as pure operators.                           *)
(***************************************************************************)
EXTENDS Integers

CONSTANTS
  Wrap,          \* the counter wraps at this value (2^32)
  SetupLead,     \* SETUP_LEAD_US (20 000)
  TxStartComp,   \* TX_START_COMP_US (450)
  MaxAhead       \* MAX_AHEAD_US (30 000 000)

ASSUME SchedulerAssumption ==
  /\ Wrap \in Nat /\ Wrap % 2 = 0
  /\ TxStartComp \in Nat /\ SetupLead \in Nat /\ TxStartComp < SetupLead
  /\ MaxAhead \in Nat /\ SetupLead <= MaxAhead /\ MaxAhead < Wrap \div 2

(* target_tmst of an immediate downlink, and the tmst of a txpk without one. *)
NoTime == -1

(* target.wrapping_sub(now) as i32.                                        *)
tmst_delta_us(now, target) ==
  LET d == (target - now) % Wrap IN IF d >= Wrap \div 2 THEN d - Wrap ELSE d

classify(now, immediate, target) ==
  LET delta == tmst_delta_us(now, target)
  IN  IF immediate               THEN "Immediate"
      ELSE IF target = NoTime    THEN "TooLate"
      ELSE IF delta < SetupLead  THEN "TooLate"
      ELSE IF delta > MaxAhead   THEN "TooEarly"
      ELSE "At"
===============================================================================
