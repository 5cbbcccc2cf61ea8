------------------------------ MODULE GatewayDuty ------------------------------
(***************************************************************************)
(* The duty cycle policy of GatewayForwarder::accept: one limiter per EU   *)
(* sub-band, created when the first downlink of the sub-band arrives, in a *)
(* LinearMap of MAX_BANDS entries.  charged is a history variable: the     *)
(* airtime of the downlinks accepted in each sub-band at each instant.     *)
(***************************************************************************)
EXTENDS DutyCycleLimiter, FiniteSets

CONSTANTS
  MaxBands,       \* MAX_BANDS (4)
  Channels,       \* frequencies the network server asks for
  DownlinkTimes,  \* times on air of the downlinks, in ms
  LastInstant     \* bound: the clock stops here

ASSUME GatewayDutyAssumption ==
  /\ MaxBands \in Nat \ {0} /\ LastInstant \in Nat
  /\ Channels \subseteq Nat /\ DownlinkTimes \subseteq Nat \ {0}

VARIABLES
  duty,       \* GatewayForwarder.duty: sub-band -> limiter
  clock,      \* milliseconds since boot
  charged     \* history: sub-band -> airtime accepted at each instant

gateVars == <<duty, clock, charged>>

(* The frequencies that accept() lets through, and their sub-bands.        *)
Accepted == {freq \in Channels : In(freq, 863000000, 870000000)}

BandKeys == {eu_band_key(freq) : freq \in Accepted}

GateInit ==
  /\ duty = <<>>
  /\ clock = 0
  /\ charged = [band \in BandKeys |-> [t \in 0 .. LastInstant |-> 0]]

ClockTick ==
  /\ clock < LastInstant
  /\ clock' = clock + 1
  /\ UNCHANGED <<duty, charged>>

(* The insert without contains_key: every downlink gets a fresh limiter.   *)
ReopenLimiter(freq) ==
  [b \in DOMAIN duty \cup {eu_band_key(freq)} |->
     IF b = eu_band_key(freq) THEN for_frequency(freq) ELSE duty[b]]

(* The map after the insert, which fails silently when the map is full.    *)
WithLimiter(freq) ==
  LET band == eu_band_key(freq)
  IN  IF band \in DOMAIN duty \/ Cardinality(DOMAIN duty) = MaxBands THEN duty
      ELSE [b \in DOMAIN duty \cup {band} |->
              IF b = band THEN for_frequency(freq) ELSE duty[b]]

(* The frequency check and the claim of accept(); a sub-band without an    *)
(* entry in the map claims nothing.                                        *)
Accept(freq, airtime) ==
  LET band   == eu_band_key(freq)
      opened == WithLimiter(freq)
      answer == try_claim(opened[band], clock, airtime)
  IN  /\ freq \in Accepted
      /\ duty' = IF band \in DOMAIN opened
                 THEN [opened EXCEPT ![band] = answer.lim] ELSE opened
      /\ charged' = IF band \in DOMAIN opened /\ ~answer.ok THEN charged
                    ELSE [charged EXCEPT ![band][clock] = @ + airtime]
      /\ UNCHANGED clock

GateNext ==
  \/ ClockTick
  \/ \E freq \in Channels, airtime \in DownlinkTimes : Accept(freq, airtime)

GateSpec == GateInit /\ [][GateNext]_gateVars

-----------------------------------------------------------------------------
Allowance(band) ==
  (CHOOSE lim \in {for_frequency(freq) : freq \in {f \in Accepted : eu_band_key(f) = band}} :
     TRUE).allowance_ms

Charged(band, times) == SumFunctionOnSet(charged[band], times \cap (0 .. LastInstant))

(* The airtime accepted in each sub-band stays inside its allowance over   *)
(* any BucketCount - 1 buckets: all frequencies of a sub-band draw on one  *)
(* budget, whenever its limiter was created, and no sub-band is without    *)
(* one ("refused with a DUTY_CYCLE_OVERFLOW TX_ACK when the hourly budget  *)
(* is spent").                                                             *)
BandBudget ==
  \A band \in BandKeys, t \in 0 .. LastInstant :
    Charged(band, t .. t + (BucketCount - 1) * BucketMs) <= Allowance(band)

(* No sub-band pays for another, or for airtime that has left the window:  *)
(* DUTY_CYCLE_OVERFLOW is answered only when the airtime accepted in the   *)
(* downlink's own sub-band during the last hour leaves no room for it.     *)
OverflowIsOwn ==
  \A freq \in Accepted, airtime \in DownlinkTimes :
    LET band   == eu_band_key(freq)
        opened == WithLimiter(freq)
    IN  band \in DOMAIN opened /\ ~try_claim(opened[band], clock, airtime).ok
          => Charged(band, clock - BucketCount * BucketMs + 1 .. clock) + airtime
               > Allowance(band)
===============================================================================
