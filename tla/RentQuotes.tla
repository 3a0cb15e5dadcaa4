----------------------------- MODULE RentQuotes -----------------------------
(***************************************************************************)
(* What the quotes of ArcNSPriceOracle promise to the people who pay them, *)
(* while the owner of the oracle changes prices and time passes.           *)
(***************************************************************************)
EXTENDS ArcNSPriceOracle

CONSTANTS
    Durations,                   \* the durations quoted (a bound)
    Expiries,                    \* the expiries of the names quoted (a bound)
    Horizon,                     \* bound on the clock
    MIN_REGISTRATION_DURATION

ASSUME QuotesAssumption ==
    /\ YEAR \in Nat \ {0}
    /\ PREMIUM_START \in Nat
    /\ PREMIUM_DECAY_PERIOD \in Nat \ {0}
    /\ Durations \cup Expiries \subseteq Nat
    /\ Horizon \in Nat
    /\ MIN_REGISTRATION_DURATION \in Nat
    /\ DefaultPrices \in [Tier -> Nat]
    /\ PriceTable \subseteq [Tier -> Nat]
    /\ EarlyAdopterAnnual \in [Tier -> Nat]

Quoted == Oracle \X Tier

PricingInit == OracleInit /\ timestamp = 1
PricingNext ==
    \/ \E o \in Oracle, table \in PriceTable :
          SetPrices(OracleOwner, o, table) /\ UNCHANGED timestamp
    \/ timestamp < Horizon /\ timestamp' = timestamp + 1 /\ UNCHANGED prices
PricingSpec == PricingInit /\ [][PricingNext]_<<prices, timestamp>>

\* The premium of a lapsed name starts at no more than PREMIUM_START, never
\* rises as time passes, and is gone PREMIUM_DECAY_PERIOD after the expiry,
\* whatever the price table becomes (_premium).
PremiumOnlyDecays ==
    [][\A e \in Expiries \ {0} :
          /\ e <= timestamp => Premium(e)' <= Premium(e)
          /\ e = timestamp => Premium(e) = PREMIUM_START
          /\ e + PREMIUM_DECAY_PERIOD <= timestamp => Premium(e) = 0]_<<prices, timestamp>>

\* Buying a duration in two parts costs the same as buying it at once, up to
\* one unit lost to rounding, and no price table that charges at least one
\* unit for the minimum duration lets anybody register for nothing (price).
NoGainFromSplitting ==
    \A q \in Quoted, d1, d2 \in Durations :
        LET Base(d) == Price(q[1], q[2], 0, d).base IN
        /\ Base(d1) + Base(d2) <= Base(d1 + d2)
        /\ Base(d1 + d2) <= Base(d1) + Base(d2) + 1
        /\ /\ prices[q[1]][q[2]] * MIN_REGISTRATION_DURATION >= YEAR
           /\ d1 >= MIN_REGISTRATION_DURATION
           => Base(d1) > 0

\* While the discounted annual price is no higher than the standard one, the
\* early adopter pays at most one unit of rounding more than everybody else,
\* saves at most the difference for one year whatever the duration, and pays
\* the premium in full (discountRentPrice).
DiscountIsOneYears ==
    \A q \in Quoted, d \in Durations, e \in Expiries :
        LET annual == prices[q[1]][q[2]]
            full == Price(q[1], q[2], e, d)
            less == DiscountRentPrice(q[1], q[2], e, d)
        IN  EarlyAdopterAnnual[q[2]] <= annual =>
               /\ less.base <= full.base + 1
               /\ full.base <= less.base + (annual - EarlyAdopterAnnual[q[2]])
               /\ less.premium = full.premium

\* A longer registration is never cheaper, on either route and across the
\* boundary of the first year.
LongerIsNotCheaper ==
    \A q \in Quoted, d \in Durations :
        /\ Price(q[1], q[2], 0, d).base <= Price(q[1], q[2], 0, d + 1).base
        /\ DiscountRentPrice(q[1], q[2], 0, d).base
              <= DiscountRentPrice(q[1], q[2], 0, d + 1).base
==============================================================================
