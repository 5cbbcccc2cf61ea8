--------------------------- MODULE DutyCycleLimiter ---------------------------
(***************************************************************************)
(* The EU 868 MHz duty cycle limiter of src/lora/duty_cycle.rs as pure     *)
(* operators: the table of sub-bands, and a limiter that keeps the airtime *)
(* spent in a ring of time buckets.  A limiter is a record with the fields *)
(* of DutyCycleLimiter; an operation returns the limiter it leaves behind. *)
(***************************************************************************)
EXTENDS Integers, Functions

CONSTANTS
  BucketCount,   \* BUCKET_COUNT: buckets in the ring (60 in the code)
  BucketMs,      \* BUCKET_MS: milliseconds per bucket (60 000 in the code)
  PermilleMs     \* airtime per permille of duty cycle (3 600 ms in the code)

ASSUME LimiterAssumption ==
  /\ BucketCount \in Nat \ {0}
  /\ BucketMs \in Nat \ {0}
  /\ PermilleMs \in Nat \ {0}

(* Option::None of a limit, an allowance or a retry hint. *)
None == -1

Buckets == 0 .. BucketCount - 1

-----------------------------------------------------------------------------
(* The sub-band table.  Frequencies are in Hz, limits in permille.         *)

In(freq, low, high) == low <= freq /\ freq <= high

eu_duty_cycle_permille(freq) ==
  CASE In(freq, 433050000, 434790000) -> 100
    [] In(freq, 868000000, 868600000) -> 10
    [] In(freq, 868700000, 869200000) -> 1
    [] In(freq, 869400000, 869650000) -> 100
    [] In(freq, 869700000, 870000000) -> 10
    [] OTHER -> IF In(freq, 863000000, 869999999) THEN 1 ELSE None

(* A boundary of the key table moved away from the limit table.            *)
KeyTableDrifted(freq) ==
  CASE In(freq, 433050000, 434790000) -> 1
    [] In(freq, 868000000, 868700000) -> 2
    [] In(freq, 868700001, 869200000) -> 3
    [] In(freq, 869400000, 869650000) -> 4
    [] In(freq, 869700000, 870000000) -> 5
    [] OTHER -> IF In(freq, 863000000, 869999999) THEN 6 ELSE 0

eu_band_key(freq) ==
  CASE In(freq, 433050000, 434790000) -> 1
    [] In(freq, 868000000, 868600000) -> 2
    [] In(freq, 868700000, 869200000) -> 3
    [] In(freq, 869400000, 869650000) -> 4
    [] In(freq, 869700000, 870000000) -> 5
    [] OTHER -> IF In(freq, 863000000, 869999999) THEN 6 ELSE 0

-----------------------------------------------------------------------------
(* The limiter.                                                            *)

for_frequency(freq) ==
  LET permille == eu_duty_cycle_permille(freq)
  IN  [buckets       |-> [b \in Buckets |-> 0],
       head          |-> 0,
       head_start_ms |-> 0,
       allowance_ms  |-> IF permille = None THEN None ELSE permille * PermilleMs]

spent_ms(lim) == SumFunction(lim.buckets)

saturating_sub(a, b) == IF a > b THEN a - b ELSE 0

(* One bucket too many is dropped: the ring is wiped one bucket early.     *)
AdvanceWipesEarly(lim, now) ==
  LET elapsed == saturating_sub(now, lim.head_start_ms) \div BucketMs
  IN  IF elapsed >= BucketCount - 1
      THEN [lim EXCEPT !.buckets = [b \in Buckets |-> 0], !.head = 0,
                       !.head_start_ms = now]
      ELSE [lim EXCEPT
              !.buckets = [b \in Buckets |->
                 IF b \in {(lim.head + k) % BucketCount : k \in 1 .. elapsed}
                 THEN 0 ELSE lim.buckets[b]],
              !.head = (lim.head + elapsed) % BucketCount,
              !.head_start_ms = @ + elapsed * BucketMs]

(* The bucket that head moves onto keeps the airtime of an hour ago.       *)
AdvanceKeepsOld(lim, now) ==
  LET elapsed == saturating_sub(now, lim.head_start_ms) \div BucketMs
  IN  IF elapsed >= BucketCount
      THEN [lim EXCEPT !.buckets = [b \in Buckets |-> 0], !.head = 0,
                       !.head_start_ms = now]
      ELSE [lim EXCEPT !.head = (lim.head + elapsed) % BucketCount,
                       !.head_start_ms = @ + elapsed * BucketMs]

(* Rotate the ring so that head covers now; expired buckets are zeroed.    *)
advance(lim, now) ==
  LET elapsed == saturating_sub(now, lim.head_start_ms) \div BucketMs
  IN  IF elapsed >= BucketCount
      THEN [lim EXCEPT !.buckets = [b \in Buckets |-> 0], !.head = 0,
                       !.head_start_ms = now]
      ELSE [lim EXCEPT
              !.buckets = [b \in Buckets |->
                 IF b \in {(lim.head + k) % BucketCount : k \in 1 .. elapsed}
                 THEN 0 ELSE lim.buckets[b]],
              !.head = (lim.head + elapsed) % BucketCount,
              !.head_start_ms = @ + elapsed * BucketMs]

(* The walk starts at the current bucket instead of the oldest one.        *)
FreedFromHead(lim, expired) ==
  SumFunctionOnSet(lim.buckets,
                   {(lim.head + k - 1) % BucketCount : k \in 1 .. expired})

(* Airtime that leaves the window when the oldest expired buckets do.      *)
Freed(lim, expired) ==
  SumFunctionOnSet(lim.buckets,
                   {(lim.head + k) % BucketCount : k \in 1 .. expired})

(* The first number of expired buckets that lets airtime in.               *)
ExpiredNeeded(lim, airtime) ==
  CHOOSE e \in 1 .. BucketCount :
    /\ spent_ms(lim) - Freed(lim, e) + airtime <= lim.allowance_ms
    /\ \A d \in 1 .. e - 1 :
         spent_ms(lim) - Freed(lim, d) + airtime > lim.allowance_ms

(* The answer to a claim: whether it is granted, the retry hint of a       *)
(* refusal, and the limiter afterwards.                                    *)
Answer(ok, retry, lim) == [ok |-> ok, retry_after_ms |-> retry, lim |-> lim]

try_claim(lim, now, airtime) ==
  IF lim.allowance_ms = None THEN Answer(TRUE, None, lim)
  ELSE IF airtime > lim.allowance_ms THEN Answer(FALSE, None, lim)
  ELSE LET adv == advance(lim, now)
       IN  IF spent_ms(adv) + airtime <= adv.allowance_ms
           THEN Answer(TRUE, None, [adv EXCEPT !.buckets[adv.head] = @ + airtime])
           ELSE Answer(FALSE,
                       saturating_sub(adv.head_start_ms
                                        + ExpiredNeeded(adv, airtime) * BucketMs, now),
                       adv)

(* A limiter is well formed: the fields have the types of the Rust struct. *)
LimiterOK(lim) ==
  /\ DOMAIN lim = {"buckets", "head", "head_start_ms", "allowance_ms"}
  /\ lim.buckets \in [Buckets -> Nat]
  /\ lim.head \in Buckets
  /\ lim.head_start_ms \in Nat
  /\ lim.allowance_ms \in Nat \cup {None}
===============================================================================
