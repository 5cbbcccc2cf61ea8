--------------------------------- MODULE Airtime --------------------------------
(***************************************************************************)
(* The time on air of a LoRa packet: time_on_air_ms_ext and the helpers it *)
(* shares with the driver's SetModulationParams.  The products of the code *)
(* are u64; here numerator and denominator of the symbol time are divided  *)
(* by 50 first, which divides every bandwidth.                             *)
(***************************************************************************)
EXTENDS Integers

bandwidth_hz(khz) ==
  CASE khz \in {7, 8}   -> 7800
    [] khz = 10         -> 10400
    [] khz \in {15, 16} -> 15600
    [] khz \in {20, 21} -> 20800
    [] khz = 31         -> 31250
    [] khz \in {41, 42} -> 41700
    [] khz \in {62, 63} -> 62500
    [] khz = 250        -> 250000
    [] khz = 500        -> 500000
    [] OTHER            -> 125000

ldro_enabled(sf, khz) == khz = 0 \/ (2 ^ sf * 1000) \div khz >= 16384

CeilDiv(a, b) == (a + b - 1) \div b

symbol_time_us(sf, khz) == (2 ^ sf * 20000) \div (bandwidth_hz(khz) \div 50)

(* LoRa coding rate 4/5 .. 4/8; anything else is 4/5.                      *)
CodingRate(cr) == IF cr \in 5 .. 8 THEN cr - 4 ELSE 1

Clamp(sf) == IF sf < 7 THEN 7 ELSE IF sf > 12 THEN 12 ELSE sf

(* The formula with an explicit header: 4.25 sync symbols, counted in      *)
(* quarters of a symbol, and 8 symbols before the blocks of the payload.   *)
time_on_air_ms_ext(spreading_factor, khz, coding_rate, len, preamble, crc_on) ==
  LET sf        == Clamp(spreading_factor)
      de        == IF ldro_enabled(sf, khz) THEN 1 ELSE 0
      bits      == 8 * len - 4 * sf + 28 + (IF crc_on THEN 16 ELSE 0)
      blocks    == IF bits > 0 THEN CeilDiv(bits, 4 * (sf - 2 * de)) ELSE 0
      payload   == 8 + blocks * (CodingRate(coding_rate) + 4)
      quarters  == (preamble + payload) * 4 + 17
  IN  CeilDiv((quarters * symbol_time_us(sf, khz)) \div 4, 1000)

(* The default packet: 8 preamble symbols and a CRC.                       *)
time_on_air_ms(sf, khz, cr, len) == time_on_air_ms_ext(sf, khz, cr, len, 8, TRUE)

-----------------------------------------------------------------------------
(* The bandwidths whose symbols last a whole number of microseconds.       *)
WholeMicroseconds(khz) == bandwidth_hz(khz) \in {31250, 62500, 125000, 250000, 500000}

(* What the SX1262 sends when it is configured as the driver does it, from *)
(* its datasheet: the smallest number of blocks that holds the bits, and   *)
(* other constants for SF5 and SF6.  The time is in microseconds, exact    *)
(* for 31, 62, 125, 250 and 500 kHz and rounded up for the others.         *)
OnAirUs(config, len) ==
  LET sf       == config.spreading_factor
      short    == sf < 7
      de       == IF ldro_enabled(sf, config.bandwidth_khz) /\ ~short THEN 1 ELSE 0
      bits     == 8 * len - 4 * sf + (IF short THEN 20 ELSE 28)
                    + (IF config.crc_on THEN 16 ELSE 0)
      perBlock == 4 * (sf - 2 * de)
      blocks   == CHOOSE n \in 0 .. 2 * len + 5 :
                    /\ n * perBlock >= bits
                    /\ \A k \in 0 .. n - 1 : k * perBlock < bits
      quarters == (config.preamble_len + 8 + blocks * (CodingRate(config.coding_rate) + 4)) * 4
                    + (IF short THEN 25 ELSE 17)
      symbol   == CeilDiv(2 ^ sf * 20000, bandwidth_hz(config.bandwidth_khz) \div 50)
  IN  CeilDiv(quarters * symbol, 4)
=============================================================================
