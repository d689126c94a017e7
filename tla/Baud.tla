-------------------------------- MODULE Baud --------------------------------
(***************************************************************************)
(* The line rates: baud_divisor of uart/glasgow/transport.rs and           *)
(* ftdi_high_speed_baud of uart/c232/vcp.rs, which the two backends of the *)
(* C232HD share.  A rate is refused when its divisor misses it by more     *)
(* than 2%.                                                                *)
(***************************************************************************)
EXTENDS Integers

CONSTANT Divisors   \* bound: the divisors around which rates are tried

ASSUME DivisorAssumption == Divisors \subseteq Nat \ {0}

Slowest == 9600
Fastest == 12000000
Offered == Slowest .. Fastest

Clamp(x, low, high) == IF x < low THEN low ELSE IF x > high THEN high ELSE x
Distance(a, b)      == IF a < b THEN b - a ELSE a - b

\* clock / rate rounded to the nearest, as the source does it.
Rounded(clock, rate) == (clock + rate \div 2) \div rate

\* The error in hundredths of a percent, rounded down: 10000 * Distance \div
\* rate, by long division, for the integers of TLC have 32 bits.
BasisPoints(actual, rate) ==
    LET hundredfold == 100 * Distance(actual, rate)
    IN  100 * (hundredfold \div rate) + (100 * (hundredfold % rate)) \div rate

Fits(actual, rate) == BasisPoints(actual, rate) <= 200

-----------------------------------------------------------------------------
(* The Glasgow. *)

GlasgowClock == 48000000

\* Mutant: the divisor is rounded down.
GlasgowDivisorDown(rate) == Clamp(GlasgowClock \div rate, 1, 2^20 - 1)

GlasgowDivisor(rate) == Clamp(Rounded(GlasgowClock, rate), 1, 2^20 - 1)
GlasgowActual(divisor) == GlasgowClock \div divisor

-----------------------------------------------------------------------------
(* The FT232H.  Its divisors count eighths; 8 and 12 have codes of their   *)
(* own, 9 to 11 and 13 to 15 have none.                                    *)

FtdiClock == 96000000

FtdiDivisor(rate) ==
    IF rate >= 12000000 THEN 8
    ELSE IF rate >= 8000000 THEN 12
    ELSE IF rate >= 6000000 THEN 16
    ELSE Clamp(Rounded(FtdiClock, rate), 16, 2^17 - 1)

FtdiActual(eighths) ==
    CASE eighths = 8  -> 12000000
      [] eighths = 12 -> 8000000
      [] OTHER        -> Rounded(FtdiClock, eighths)

FractionCode == [i \in 0 .. 7 |-> <<0, 3, 2, 4, 1, 5, 6, 7>>[i + 1]]

\* Mutant: the fraction is sent as it is.
FtdiEncodePlain(eighths) ==
    (CASE eighths = 8  -> 0
       [] eighths = 12 -> 1
       [] OTHER        -> (eighths \div 8) + (eighths % 8) * 2^14) + 2^17

\* The bits are disjoint, so that "|" is "+"; bit 17 selects the fast clock.
FtdiEncode(eighths) ==
    (CASE eighths = 8  -> 0
       [] eighths = 12 -> 1
       [] OTHER        -> (eighths \div 8) + FractionCode[eighths % 8] * 2^14) + 2^17

-----------------------------------------------------------------------------
(* The reference. *)

\* What the chip makes of the three bytes configure_ftdi sends it.
FractionOf(bits) == CHOOSE i \in 0 .. 7 : FractionCode[i] = bits

FtdiDecode(code) ==
    LET whole == code % 2^14
    IN  IF whole = 0 THEN 8 ELSE IF whole = 1 THEN 12
        ELSE 8 * whole + FractionOf((code \div 2^14) % 8)

\* The rates at which a rounding or a comparison with 2% changes its outcome.
Near(clock) ==
    {r + k : r \in UNION {{clock \div d, (2 * clock) \div (2 * d + 1),
                           ((clock \div d) \div 51) * 50, ((clock \div d) \div 49) * 50}
                              : d \in Divisors},
             k \in -1 .. 1}
    \cap Offered

\* The clock comes within 2% of the rate with one of these divisors.
Reachable(rate, actuals) == \E a \in actuals : 50 * Distance(a, rate) <= rate

\* Within 2.01%, to the next hertz.
Close(actual, rate) == 10 * (Distance(actual, rate) - rate \div 50) <= rate \div 1000 + 10

\* A rate that is taken is off by less than 2.01%, the tolerance of 2% on basis
\* points rounded down; a rate that is refused cannot be had within 2% with any
\* of these divisors.
GlasgowIsHonest(r, divisors) ==
    LET actual == GlasgowActual(GlasgowDivisor(r)) IN
    IF Fits(actual, r) THEN Close(actual, r)
    ELSE ~Reachable(r, {GlasgowActual(e) : e \in divisors})

\* The same, and the chip understands the divisor.  Above 6 Mbit/s the tiers
\* refuse rates just below 8 and 12 Mbit/s that the tier above them would meet,
\* and nothing is said of them.
FtdiIsHonest(r, divisors) ==
    LET d == FtdiDivisor(r) IN
    IF Fits(FtdiActual(d), r) THEN Close(FtdiActual(d), r) /\ FtdiDecode(FtdiEncode(d)) = d
    ELSE r < 6000000 => ~Reachable(r, {FtdiActual(e) : e \in divisors})

Beside(divisor, low) == {d \in divisor - 1 .. divisor + 1 : d >= low}

(* Both are so with the divisors beside the one that was chosen, at every place
   where a rounding or a clamp changes its mind. *)
EveryRateIsHonest ==
    /\ \A r \in Near(GlasgowClock) : GlasgowIsHonest(r, Beside(GlasgowDivisor(r), 1))
    /\ \A r \in Near(FtdiClock)    : FtdiIsHonest(r, Beside(FtdiDivisor(r), 16))

=============================================================================
