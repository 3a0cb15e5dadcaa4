--------------------------- MODULE ArcNSPriceOracle ---------------------------
(***************************************************************************)
(* Rent prices: contracts/v3/registrar/ArcNSPriceOracle.sol and the quote  *)
(* for early adopters that ArcNSController puts on top of it               *)
(* (discountRentPrice).  Amounts are in units of USDC.                     *)
(*                                                                         *)
(* The tier of a name is its length, 5 standing for everything longer: the *)
(* oracle counts code points and the controller bytes, which is the same   *)
(* number for the ASCII names that can be registered.  A quote that        *)
(* overflows uint256 reverts, so the arithmetic is that of the naturals.   *)
(***************************************************************************)
EXTENDS Naturals

CONSTANTS
    Oracle,               \* the deployed price oracles
    OracleOwner,          \* Ownable owner of the oracles
    Tier,                 \* 1..5
    DefaultPrices,        \* annual prices of a new oracle, by tier
    PriceTable,           \* the tables setPrices is called with (a bound)
    EarlyAdopterAnnual,   \* _earlyAdopterAnnualPrice, by tier
    YEAR,                 \* 365 days
    PREMIUM_START,
    PREMIUM_DECAY_PERIOD

VARIABLES
    prices,      \* oracle -> tier -> annual price
    timestamp    \* block.timestamp

------------------------------------------------------------------------------
(***************************************************************************)
(* Quotes.  expires is the expiry of the name, 0 if it was never           *)
(* registered; the duration is not 0 (ZeroDuration).                       *)
(***************************************************************************)
\* Fault: the premium grows with the time elapsed.
PremiumGrowing(expires) ==
    IF expires = 0 \/ expires > timestamp \/ timestamp - expires >= PREMIUM_DECAY_PERIOD
    THEN 0
    ELSE (PREMIUM_START * (timestamp - expires)) \div PREMIUM_DECAY_PERIOD

Premium(expires) ==
    IF expires = 0 \/ expires > timestamp \/ timestamp - expires >= PREMIUM_DECAY_PERIOD
    THEN 0
    ELSE (PREMIUM_START * (PREMIUM_DECAY_PERIOD - (timestamp - expires)))
            \div PREMIUM_DECAY_PERIOD

\* Fault: the division comes first.
ProRataEarly(annual, duration) == (annual \div YEAR) * duration

ProRata(annual, duration) == (annual * duration) \div YEAR

Price(o, tier, expires, duration) ==
    [base |-> ProRata(prices[o][tier], duration), premium |-> Premium(expires)]

\* Math.mulDiv(annual, duration, ONE_YEAR, Ceil).
ProRataUp(annual, duration) == (annual * duration + YEAR - 1) \div YEAR

\* Fault: the discount never ends.
DiscountAllYears(o, tier, expires, duration) ==
    [base |-> ProRataUp(EarlyAdopterAnnual[tier], duration),
     premium |-> Premium(expires)]

\* Fault: the first year is forgotten in longer registrations.
DiscountFreeYear(o, tier, expires, duration) ==
    [base |-> IF duration <= YEAR
              THEN ProRataUp(EarlyAdopterAnnual[tier], duration)
              ELSE ProRataUp(ProRata(prices[o][tier], YEAR), duration - YEAR),
     premium |-> Premium(expires)]

\* The discount is on the first year; the rest is at the standard price.
DiscountRentPrice(o, tier, expires, duration) ==
    [base |-> IF duration <= YEAR
              THEN ProRataUp(EarlyAdopterAnnual[tier], duration)
              ELSE EarlyAdopterAnnual[tier]
                     + ProRataUp(ProRata(prices[o][tier], YEAR), duration - YEAR),
     premium |-> Price(o, tier, expires, duration).premium]

Total(quote) == quote.base + quote.premium

------------------------------------------------------------------------------
SetPrices(s, o, table) ==
    /\ s = OracleOwner
    /\ prices' = [prices EXCEPT ![o] = table]

OracleInit == prices = [o \in Oracle |-> DefaultPrices]
==============================================================================
