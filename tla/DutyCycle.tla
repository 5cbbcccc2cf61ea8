------------------------------- MODULE DutyCycle -------------------------------
(***************************************************************************)
(* One limiter in use: time passes, and a transmitter claims airtime       *)
(* before each transmission, as CommandDispatcher::handle_lora_tx and      *)
(* GatewayForwarder::accept do.  onAir is a history variable that only the *)
(* properties read: the airtime granted at each instant, kept where the    *)
(* sub-band has a limit.                                                   *)
(***************************************************************************)
EXTENDS DutyCycleLimiter

CONSTANTS
  Freqs,        \* frequencies the transmitter may be set to
  TableFreqs,   \* frequencies at which the sub-band tables are compared
  Airtimes,     \* times on air of the packets it may send, in ms
  MaxTime       \* bound: the clock stops here

ASSUME DutyCycleAssumption ==
  /\ Freqs \subseteq Nat /\ TableFreqs \subseteq Nat
  /\ Airtimes \subseteq Nat \ {0}
  /\ MaxTime \in Nat

VARIABLES
  freq,       \* the frequency that the limiter was made for
  limiter,    \* the DutyCycleLimiter
  now,        \* milliseconds since boot
  onAir       \* history: airtime granted at each instant

limiterVars == <<freq, limiter, now, onAir>>

LimiterInit ==
  /\ freq \in Freqs /\ limiter = for_frequency(freq)
  /\ now = 0
  /\ onAir = [t \in 0 .. MaxTime |-> 0]

LimiterTick ==
  /\ now < MaxTime
  /\ now' = now + 1
  /\ UNCHANGED <<freq, limiter, onAir>>

(* handle_lora_tx claims the airtime, then transmits when it was granted;  *)
(* a transmission that fails stays charged.                                *)
ClaimAirtime(airtime) ==
  LET answer == try_claim(limiter, now, airtime)
  IN  /\ limiter' = answer.lim
      /\ onAir' = IF answer.ok /\ limiter.allowance_ms # None
                  THEN [onAir EXCEPT ![now] = @ + airtime]
                  ELSE onAir
      /\ UNCHANGED <<freq, now>>

LimiterNext ==
  \/ LimiterTick
  \/ \E airtime \in Airtimes : ClaimAirtime(airtime)

LimiterSpec == LimiterInit /\ [][LimiterNext]_limiterVars

-----------------------------------------------------------------------------
(* Airtime granted at the instants of a set of times.                      *)
Granted(times) == SumFunctionOnSet(onAir, times \cap (0 .. MaxTime))

Limited == limiter.allowance_ms # None

(* The limiter, the clock and the history have the types of the code.      *)
LimiterTypeOK ==
  /\ freq \in Freqs
  /\ LimiterOK(limiter)
  /\ now \in 0 .. MaxTime
  /\ onAir \in [0 .. MaxTime -> Nat]

(* Whatever the claims and their times, the airtime granted within any     *)
(* BucketCount - 1 buckets' worth of time stays inside the allowance: the  *)
(* budget of try_claim really bounds what goes on the air.                 *)
WindowBudget ==
  Limited => \A t \in 0 .. MaxTime :
    Granted(t .. t + (BucketCount - 1) * BucketMs) <= limiter.allowance_ms

(* The ring is exact: each bucket holds the airtime granted in its minute, *)
(* so rotating and wiping it loses no minute that is still covered and     *)
(* keeps none that has expired.                                            *)
BucketsMatchHistory ==
  Limited => \A age \in Buckets :
    LET start == limiter.head_start_ms - age * BucketMs
    IN  limiter.buckets[(limiter.head - age) % BucketCount]
          = Granted(start .. start + BucketMs - 1)

(* The retry hint of a refusal is exact: the same claim is granted after   *)
(* that wait and at no instant before it, if nothing else is claimed; and  *)
(* only a packet longer than the whole allowance gets no hint.             *)
RetryHintExact ==
  \A airtime \in Airtimes :
    LET answer == try_claim(limiter, now, airtime)
        later(wait) == try_claim(answer.lim, now + wait, airtime).ok
    IN  ~answer.ok =>
          IF answer.retry_after_ms = None THEN airtime > limiter.allowance_ms
          ELSE /\ later(answer.retry_after_ms)
               /\ \A wait \in 0 .. answer.retry_after_ms - 1 : ~later(wait)

(* A refusal is never gratuitous: the airtime granted in the hour up to    *)
(* now leaves no room for the packet.                                      *)
RefusalJustified ==
  \A airtime \in Airtimes :
    ~try_claim(limiter, now, airtime).ok =>
      Granted(now - BucketCount * BucketMs + 1 .. now) + airtime > limiter.allowance_ms

(* The limiter's state and its decisions agree with what was granted: the  *)
(* ring is well formed and exact, and what try_claim refuses does not fit. *)
LimiterInv ==
  /\ LimiterTypeOK
  /\ BucketsMatchHistory
  /\ RefusalJustified

(* The two sub-band tables agree: a limiter made for one frequency has the *)
(* allowance of every frequency with the same eu_band_key, so that those   *)
(* frequencies can share it (GatewayForwarder::accept makes them), and     *)
(* claims never change that.                                               *)
LimiterFitsBand ==
  \A g \in TableFreqs :
    eu_band_key(g) = eu_band_key(freq) =>
      for_frequency(g).allowance_ms = limiter.allowance_ms
===============================================================================
