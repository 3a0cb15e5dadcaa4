---------------------------- MODULE Offers_proofs -----------------------------
(***************************************************************************)
(* What a name costs and who has the discount, for every price table,      *)
(* duration, expiry, snapshot, wallet and controller.                      *)
(*                                                                         *)
(*   - The quotes.  The arithmetic is that of truncating division: a       *)
(*     quotient is known by the two multiples of the divisor it lies       *)
(*     between, and inequalities between quotients follow from those       *)
(*     between multiples.                                                  *)
(*   - The proofs of the snapshot.  A proof, folded from two leaves, ends  *)
(*     in the same hash only if the leaves are the same, since a pair      *)
(*     determines its other half; the recursive definitions of the tree    *)
(*     and of the fold are reached through a smallest counterexample.      *)
(*   - The campaign.  What a script or the client has read stays as it     *)
(*     was read, since the root moves only to the finalized one and only   *)
(*     until it is frozen; of the events that are not indexed, the last    *)
(*     about each value says what that value is.                           *)
(***************************************************************************)
EXTENDS RentQuotes, EarlyAdopterCampaign, Integers, TLAPS,
        SequenceTheorems, WellFoundedInduction, FiniteSetTheorems

\* The laws of multiplication the proofs cite.
LEMMA MulMonotone ==
    ASSUME NEW a \in Nat, NEW b \in Nat, NEW c \in Nat, a <= b
    PROVE  a * c \in Nat /\ b * c \in Nat /\ c * a = a * c /\ a * c <= b * c
OBVIOUS

LEMMA MulCancel ==
    ASSUME NEW a \in Nat, NEW b \in Nat, NEW j \in Nat \ {0}, j * a < j * b
    PROVE  a < b
OBVIOUS

LEMMA Distribute ==
    ASSUME NEW a \in Nat, NEW b \in Nat, NEW c \in Nat
    PROVE  /\ a * (b + c) = a * b + a * c
           /\ a * b \in Nat /\ a * c \in Nat
OBVIOUS

\* The two multiples a quotient lies between, and that they determine it.
LEMMA DivBounds ==
    ASSUME NEW k \in Nat, NEW j \in Nat \ {0}
    PROVE  /\ k \div j \in Nat
           /\ j * (k \div j) \in Nat
           /\ j * (k \div j) <= k /\ k < j * (k \div j) + j
OBVIOUS

\* A multiple of j below the successor of j * b is at most j * b.
LEMMA WithinOne ==
    ASSUME NEW a \in Nat, NEW b \in Nat, NEW j \in Nat \ {0}, j * a < j * b + j
    PROVE  a <= b
<1>1. j * (b + 1) = j * b + j BY Distribute
<1>2. a < b + 1 BY <1>1, MulCancel
<1> QED BY <1>2

LEMMA DivExact ==
    ASSUME NEW a \in Nat, NEW j \in Nat \ {0}
    PROVE  (a * j) \div j = a
<1> DEFINE e == (a * j) \div j
<1>1. a * j \in Nat /\ j * a = a * j BY Distribute
<1>2. e \in Nat /\ j * e \in Nat /\ j * e <= a * j /\ a * j < j * e + j
  BY <1>1, DivBounds
<1> HIDE DEF e
<1>3. j * e < j * a + j /\ j * a < j * e + j BY <1>1, <1>2
<1>4. e <= a /\ a <= e BY <1>2, <1>3, WithinOne
<1> QED BY <1>2, <1>4 DEF e

LEMMA DivMonotone ==
    ASSUME NEW k \in Nat, NEW l \in Nat, NEW j \in Nat \ {0}, k <= l
    PROVE  k \div j <= l \div j
<1> DEFINE e == k \div j
           f == l \div j
<1>1. /\ e \in Nat /\ f \in Nat /\ j * e \in Nat /\ j * f \in Nat
      /\ j * e <= k /\ l < j * f + j
  BY DivBounds
<1> HIDE DEF e, f
<1>2. j * e < j * f + j BY <1>1
<1>3. e <= f BY <1>1, <1>2, WithinOne
<1> QED BY <1>3 DEF e, f

------------------------------------------------------------------------------
(***************************************************************************)
(* The parts of a quote.                                                   *)
(***************************************************************************)
LEMMA ProRataBounds ==
    ASSUME NEW a \in Nat, NEW d \in Nat
    PROVE  /\ ProRata(a, d) \in Nat /\ YEAR * ProRata(a, d) \in Nat
           /\ YEAR * ProRata(a, d) <= a * d
           /\ a * d < YEAR * ProRata(a, d) + YEAR
           /\ a * d \in Nat
<1>1. a * d \in Nat BY Distribute
<1> QED BY <1>1, DivBounds, QuotesAssumption DEF ProRata

LEMMA ProRataUpBounds ==
    ASSUME NEW a \in Nat, NEW d \in Nat
    PROVE  /\ ProRataUp(a, d) \in Nat /\ YEAR * ProRataUp(a, d) \in Nat
           /\ a * d <= YEAR * ProRataUp(a, d)
           /\ YEAR * ProRataUp(a, d) < a * d + YEAR
<1> DEFINE k == a * d + YEAR - 1
           u == k \div YEAR
<1>1. a * d \in Nat BY Distribute
<1>2. k \in Nat BY <1>1, QuotesAssumption
<1> HIDE DEF k
<1>3. u \in Nat /\ YEAR * u \in Nat /\ YEAR * u <= k /\ k < YEAR * u + YEAR
  BY <1>2, DivBounds, QuotesAssumption
<1>4. u = ProRataUp(a, d) BY DEF ProRataUp, k
<1> HIDE DEF u
<1>5. a * d <= YEAR * u /\ YEAR * u < a * d + YEAR
  BY <1>1, <1>3, QuotesAssumption DEF k
<1> QED BY <1>3, <1>4, <1>5

\* A year at an annual price costs the annual price, however it is rounded.
LEMMA OneYear ==
    ASSUME NEW a \in Nat PROVE ProRata(a, YEAR) = a /\ ProRataUp(a, YEAR) = a
<1>1. ProRata(a, YEAR) = a BY DivExact, QuotesAssumption DEF ProRata
<1> DEFINE u == ProRataUp(a, YEAR)
<1>2. u \in Nat /\ YEAR * u \in Nat /\ a * YEAR <= YEAR * u /\ YEAR * u < a * YEAR + YEAR
  BY ProRataUpBounds, QuotesAssumption
<1> HIDE DEF u
<1>3. YEAR * a = a * YEAR /\ YEAR * a \in Nat BY MulMonotone, QuotesAssumption
<1>4. YEAR * u < YEAR * a + YEAR /\ YEAR * a < YEAR * u + YEAR
  BY <1>2, <1>3, QuotesAssumption
<1>5. u <= a /\ a <= u BY <1>2, <1>4, WithinOne, QuotesAssumption
<1> QED BY <1>1, <1>2, <1>5 DEF u

\* The parts of the two quotes, by name.
LEMMA QuoteParts ==
    ASSUME NEW o \in Oracle, NEW t \in Tier, NEW e \in Nat, NEW d \in Nat
    PROVE  /\ Price(o, t, e, d).base = ProRata(prices[o][t], d)
           /\ DiscountRentPrice(o, t, e, d).premium = Price(o, t, e, d).premium
           /\ d <= YEAR => DiscountRentPrice(o, t, e, d).base
                              = ProRataUp(EarlyAdopterAnnual[t], d)
           /\ (d > YEAR /\ prices[o][t] \in Nat)
                 => DiscountRentPrice(o, t, e, d).base
                       = EarlyAdopterAnnual[t] + ProRataUp(prices[o][t], d - YEAR)
<1>1. Price(o, t, e, d).base = ProRata(prices[o][t], d) BY DEF Price
<1>2. DiscountRentPrice(o, t, e, d).premium = Price(o, t, e, d).premium
  BY DEF DiscountRentPrice
<1>3. ASSUME d <= YEAR
      PROVE  DiscountRentPrice(o, t, e, d).base = ProRataUp(EarlyAdopterAnnual[t], d)
  BY <1>3 DEF DiscountRentPrice
<1>4. ASSUME d > YEAR, prices[o][t] \in Nat
      PROVE  DiscountRentPrice(o, t, e, d).base
                = EarlyAdopterAnnual[t] + ProRataUp(prices[o][t], d - YEAR)
  <2>1. ~(d <= YEAR) BY <1>4, QuotesAssumption
  <2>2. ProRata(prices[o][t], YEAR) = prices[o][t] BY <1>4, OneYear
  <2> QED BY <2>1, <2>2 DEF DiscountRentPrice
<1> QED BY <1>1, <1>2, <1>3, <1>4

\* A rounded-up price never falls as the duration grows.
LEMMA ProRataUpMonotone ==
    ASSUME NEW a \in Nat, NEW d \in Nat
    PROVE  ProRataUp(a, d) <= ProRataUp(a, d + 1)
<1>1. d + 1 \in Nat /\ a * (d + 1) = a * d + a * 1 /\ a * d \in Nat /\ a * 1 = a
  BY Distribute
<1>2. /\ a * d + YEAR - 1 \in Nat /\ a * (d + 1) + YEAR - 1 \in Nat
      /\ a * d + YEAR - 1 <= a * (d + 1) + YEAR - 1
  BY <1>1, QuotesAssumption
<1> QED BY <1>2, DivMonotone, QuotesAssumption DEF ProRataUp

\* So does the rounded-down one.
LEMMA ProRataMonotone ==
    ASSUME NEW a \in Nat, NEW d \in Nat
    PROVE  ProRata(a, d) <= ProRata(a, d + 1)
<1>1. d + 1 \in Nat /\ a * (d + 1) = a * d + a * 1 /\ a * d \in Nat /\ a * 1 = a
  BY Distribute
<1>2. a * (d + 1) \in Nat /\ a * d <= a * (d + 1) BY <1>1
<1> QED BY <1>1, <1>2, DivMonotone, QuotesAssumption DEF ProRata

\* While a premium is asked it falls with the time since the expiry.
LEMMA PremiumBounds ==
    ASSUME NEW k \in Nat, k <= PREMIUM_DECAY_PERIOD
    PROVE  /\ PREMIUM_START * (PREMIUM_DECAY_PERIOD - k) \in Nat
           /\ (PREMIUM_START * (PREMIUM_DECAY_PERIOD - k)) \div PREMIUM_DECAY_PERIOD \in Nat
           /\ \A l \in Nat : l <= k =>
                (PREMIUM_START * (PREMIUM_DECAY_PERIOD - k)) \div PREMIUM_DECAY_PERIOD
                <= (PREMIUM_START * (PREMIUM_DECAY_PERIOD - l)) \div PREMIUM_DECAY_PERIOD
<1> USE QuotesAssumption
<1> DEFINE left(j) == PREMIUM_DECAY_PERIOD - j
           part(j) == PREMIUM_START * left(j)
<1>1. left(k) \in Nat OBVIOUS
<1>2. ASSUME NEW l \in Nat, l <= k
      PROVE  part(l) \in Nat /\ part(k) \in Nat /\ part(k) <= part(l)
  <2>1. left(l) \in Nat /\ left(k) <= left(l) BY <1>2
  <2> HIDE DEF left
  <2> QED BY <1>1, <2>1, MulMonotone
<1> HIDE DEF part
<1>3. ASSUME NEW l \in Nat, l <= k
      PROVE  part(k) \div PREMIUM_DECAY_PERIOD <= part(l) \div PREMIUM_DECAY_PERIOD
  BY <1>2, <1>3, DivMonotone
<1>4. part(k) \in Nat /\ part(k) \div PREMIUM_DECAY_PERIOD \in Nat BY <1>2, DivBounds
<1> QED BY <1>3, <1>4 DEF part

------------------------------------------------------------------------------
(***************************************************************************)
(* The promises.  They need no more of a state than amounts and a clock.   *)
(***************************************************************************)
PricingTypeOK ==
    /\ prices \in [Oracle -> [Tier -> Nat]]
    /\ timestamp \in Nat

LEMMA PricingInvariant == PricingSpec => []PricingTypeOK
<1>1. PricingInit => PricingTypeOK
  BY QuotesAssumption DEF PricingInit, OracleInit, PricingTypeOK
<1>2. PricingTypeOK /\ [PricingNext]_<<prices, timestamp>> => PricingTypeOK'
  BY QuotesAssumption DEF PricingTypeOK, PricingNext, SetPrices
<1> QED BY <1>1, <1>2, PTL DEF PricingSpec

\* A longer registration is never cheaper, at any price (price,
\* discountRentPrice).
THEOREM LongerIsNotCheaperHolds == PricingSpec => []LongerIsNotCheaper
<1>1. ASSUME PricingTypeOK, NEW o \in Oracle, NEW t \in Tier, NEW d \in Durations
      PROVE  /\ Price(o, t, 0, d).base <= Price(o, t, 0, d + 1).base
             /\ DiscountRentPrice(o, t, 0, d).base <= DiscountRentPrice(o, t, 0, d + 1).base
  <2> DEFINE annual == prices[o][t]
             early == EarlyAdopterAnnual[t]
  <2>1. /\ annual \in Nat /\ early \in Nat /\ d \in Nat /\ d + 1 \in Nat
        /\ YEAR \in Nat \ {0}
    BY <1>1, QuotesAssumption DEF PricingTypeOK
  <2> HIDE DEF early
  <2>2. Price(o, t, 0, d).base <= Price(o, t, 0, d + 1).base
    <3>1. Price(o, t, 0, d).base = ProRata(annual, d) BY <2>1, QuoteParts
    <3>2. Price(o, t, 0, d + 1).base = ProRata(annual, d + 1) BY <2>1, QuoteParts
    <3> HIDE DEF annual
    <3>3. ProRata(annual, d) <= ProRata(annual, d + 1) BY <2>1, ProRataMonotone
    <3> QED BY <3>1, <3>2, <3>3
  <2>3. CASE d + 1 <= YEAR
    <3>1. ProRataUp(early, d) <= ProRataUp(early, d + 1) BY <2>1, ProRataUpMonotone
    <3>2. d <= YEAR BY <2>1, <2>3
    <3> QED BY <2>1, <2>2, <2>3, <3>1, <3>2, QuoteParts DEF early
  <2>4. CASE d = YEAR
    <3>1. ProRataUp(early, YEAR) = early BY <2>1, OneYear
    <3>2. d + 1 > YEAR /\ (d + 1) - YEAR = 1 /\ d <= YEAR BY <2>1, <2>4
    <3>3. ProRataUp(annual, 1) \in Nat BY <2>1, ProRataUpBounds
    <3>4. /\ DiscountRentPrice(o, t, 0, d).base = early
          /\ DiscountRentPrice(o, t, 0, d + 1).base = early + ProRataUp(annual, 1)
      BY <2>1, <2>4, <3>1, <3>2, QuoteParts DEF early
    <3> QED BY <2>1, <2>2, <3>3, <3>4
  <2>5. CASE d > YEAR
    <3> DEFINE m == d - YEAR
    <3>1. m \in Nat /\ (d + 1) - YEAR = m + 1 /\ d + 1 > YEAR BY <2>1, <2>5
    <3>2. /\ DiscountRentPrice(o, t, 0, d).base = early + ProRataUp(annual, m)
          /\ DiscountRentPrice(o, t, 0, d + 1).base = early + ProRataUp(annual, m + 1)
      BY <2>1, <2>5, <3>1, QuoteParts DEF early
    <3> HIDE DEF m, annual
    <3>3. m + 1 \in Nat BY <3>1
    <3>4. ProRataUp(annual, m) <= ProRataUp(annual, m + 1)
      BY <2>1, <3>1, ProRataUpMonotone
    <3>5. ProRataUp(annual, m) \in Nat /\ ProRataUp(annual, m + 1) \in Nat
      BY <2>1, <3>1, <3>3, ProRataUpBounds
    <3> QED BY <2>1, <2>2, <3>2, <3>4, <3>5
  <2> QED BY <2>1, <2>3, <2>4, <2>5
<1>2. PricingTypeOK => LongerIsNotCheaper BY <1>1 DEF LongerIsNotCheaper, Quoted
<1> QED BY <1>2, PricingInvariant, PTL

\* Two parts cost what the whole costs, up to the unit that rounding loses,
\* and a tier that charges for the minimum duration charges always (price).
THEOREM NoGainFromSplittingHolds == PricingSpec => []NoGainFromSplitting
<1>1. ASSUME PricingTypeOK, NEW o \in Oracle, NEW t \in Tier,
             NEW d1 \in Durations, NEW d2 \in Durations
      PROVE  LET Base(d) == Price(o, t, 0, d).base IN
             /\ Base(d1) + Base(d2) <= Base(d1 + d2)
             /\ Base(d1 + d2) <= Base(d1) + Base(d2) + 1
             /\ /\ prices[o][t] * MIN_REGISTRATION_DURATION >= YEAR
                /\ d1 >= MIN_REGISTRATION_DURATION
                => Base(d1) > 0
  <2> DEFINE a == prices[o][t]
             b1 == ProRata(a, d1)
             b2 == ProRata(a, d2)
             b == ProRata(a, d1 + d2)
  <2>1. /\ a \in Nat /\ d1 \in Nat /\ d2 \in Nat /\ d1 + d2 \in Nat
        /\ YEAR \in Nat \ {0} /\ MIN_REGISTRATION_DURATION \in Nat
    BY <1>1, QuotesAssumption DEF PricingTypeOK
  <2>2. /\ Price(o, t, 0, d1).base = b1 /\ Price(o, t, 0, d2).base = b2
        /\ Price(o, t, 0, d1 + d2).base = b
    BY <2>1, QuoteParts
  <2> HIDE DEF a
  <2>3. /\ b1 \in Nat /\ YEAR * b1 \in Nat
        /\ YEAR * b1 <= a * d1 /\ a * d1 < YEAR * b1 + YEAR
    BY <2>1, ProRataBounds
  <2>4. /\ b2 \in Nat /\ YEAR * b2 \in Nat
        /\ YEAR * b2 <= a * d2 /\ a * d2 < YEAR * b2 + YEAR
    BY <2>1, ProRataBounds
  <2>5. /\ b \in Nat /\ YEAR * b \in Nat
        /\ YEAR * b <= a * (d1 + d2) /\ a * (d1 + d2) < YEAR * b + YEAR
    BY <2>1, ProRataBounds
  <2> HIDE DEF b1, b2, b
  <2>6. a * (d1 + d2) = a * d1 + a * d2 /\ a * d1 \in Nat /\ a * d2 \in Nat
    BY <2>1, Distribute
  <2>7. YEAR * (b1 + b2) = YEAR * b1 + YEAR * b2
    BY <2>1, <2>3, <2>4, Distribute
  <2>8. YEAR * (b1 + b2 + 1) = YEAR * b1 + YEAR * b2 + YEAR
    <3>1. YEAR * ((b1 + b2) + 1) = YEAR * (b1 + b2) + YEAR * 1
      BY <2>1, <2>3, <2>4, Distribute
    <3> QED BY <2>1, <2>7, <3>1
  <2>9. b1 + b2 <= b
    <3>1. YEAR * (b1 + b2) < YEAR * b + YEAR
      BY <2>1, <2>3, <2>4, <2>5, <2>6, <2>7
    <3>2. b1 + b2 \in Nat BY <2>3, <2>4
    <3> QED BY <2>1, <2>5, <3>1, <3>2, WithinOne
  <2>10. b <= b1 + b2 + 1
    <3>1. YEAR * b < YEAR * (b1 + b2 + 1) + YEAR
      BY <2>1, <2>3, <2>4, <2>5, <2>6, <2>8
    <3>2. b1 + b2 + 1 \in Nat BY <2>3, <2>4
    <3> QED BY <2>1, <2>5, <3>1, <3>2, WithinOne
  <2>11. ASSUME a * MIN_REGISTRATION_DURATION >= YEAR, d1 >= MIN_REGISTRATION_DURATION
         PROVE  b1 > 0
    <3>1. /\ MIN_REGISTRATION_DURATION * a <= d1 * a
          /\ d1 * a = a * d1
          /\ MIN_REGISTRATION_DURATION * a = a * MIN_REGISTRATION_DURATION
      BY <2>1, <2>11, MulMonotone
    <3>2. a * d1 >= YEAR
      <4>1. MIN_REGISTRATION_DURATION * a \in Nat /\ d1 * a \in Nat
        BY <2>1, <2>11, MulMonotone
      <4> QED BY <2>1, <2>11, <3>1, <4>1
    <3>3. YEAR * b1 > 0 BY <2>1, <2>3, <2>6, <3>2
    <3> QED BY <2>1, <2>3, <3>3
  <2> QED BY <2>2, <2>9, <2>10, <2>11 DEF a
<1>2. PricingTypeOK => NoGainFromSplitting BY <1>1 DEF NoGainFromSplitting, Quoted
<1> QED BY <1>2, PricingInvariant, PTL

\* The discount is on one year only, at most one unit dearer than the public
\* price, and leaves the premium alone (discountRentPrice).
THEOREM DiscountIsOneYearsHolds == PricingSpec => []DiscountIsOneYears
<1>1. ASSUME PricingTypeOK, NEW o \in Oracle, NEW t \in Tier,
             NEW d \in Durations, NEW e \in Expiries,
             EarlyAdopterAnnual[t] <= prices[o][t]
      PROVE  /\ DiscountRentPrice(o, t, e, d).base <= Price(o, t, e, d).base + 1
             /\ Price(o, t, e, d).base <= DiscountRentPrice(o, t, e, d).base
                                            + (prices[o][t] - EarlyAdopterAnnual[t])
             /\ DiscountRentPrice(o, t, e, d).premium = Price(o, t, e, d).premium
  <2> DEFINE a == prices[o][t]
             c == EarlyAdopterAnnual[t]
             full == ProRata(a, d)
  <2>1. /\ a \in Nat /\ c \in Nat /\ d \in Nat /\ e \in Nat /\ c <= a
        /\ YEAR \in Nat \ {0}
    BY <1>1, QuotesAssumption DEF PricingTypeOK
  <2>2. /\ Price(o, t, e, d).base = full
        /\ DiscountRentPrice(o, t, e, d).premium = Price(o, t, e, d).premium
        /\ d <= YEAR => DiscountRentPrice(o, t, e, d).base = ProRataUp(c, d)
        /\ d > YEAR => DiscountRentPrice(o, t, e, d).base = c + ProRataUp(a, d - YEAR)
    BY <2>1, QuoteParts
  <2> HIDE DEF a, c
  <2>3. /\ full \in Nat /\ YEAR * full \in Nat /\ a * d \in Nat
        /\ YEAR * full <= a * d /\ a * d < YEAR * full + YEAR
    BY <2>1, ProRataBounds
  <2> HIDE DEF full
  <2>4. PICK x \in Nat : a = c + x
    <3>1. a - c \in Nat /\ a = c + (a - c) BY <2>1
    <3> QED BY <3>1
  <2>5. CASE d <= YEAR
    <3> DEFINE less == ProRataUp(c, d)
    <3>1. /\ less \in Nat /\ YEAR * less \in Nat /\ c * d \in Nat
          /\ c * d <= YEAR * less /\ YEAR * less < c * d + YEAR
      BY <2>1, ProRataUpBounds, ProRataBounds
    <3> HIDE DEF less
    <3>2. less <= full + 1
      <4>1. c * d <= a * d BY <2>1, MulMonotone
      <4>2. YEAR * (full + 1) = YEAR * full + YEAR BY <2>1, <2>3, Distribute
      <4>3. YEAR * less < YEAR * (full + 1) + YEAR
        BY <2>1, <2>3, <3>1, <4>1, <4>2
      <4> QED BY <2>1, <2>3, <3>1, <4>3, WithinOne
    <3>3. full <= less + x
      <4>1. a * d = c * d + x * d /\ x * d \in Nat
        BY <2>1, <2>4, Distribute, MulMonotone
      <4>2. x * d <= YEAR * x
        <5>1. d * x <= YEAR * x /\ x * d = d * x BY <2>1, <2>4, <2>5, MulMonotone
        <5> QED BY <5>1
      <4>3. YEAR * (less + x) = YEAR * less + YEAR * x /\ YEAR * x \in Nat
        BY <2>1, <2>4, <3>1, Distribute
      <4>4. YEAR * full < YEAR * (less + x) + YEAR
        BY <2>1, <2>3, <3>1, <4>1, <4>2, <4>3
      <4>5. less + x \in Nat BY <2>4, <3>1
      <4> QED BY <2>1, <2>3, <4>4, <4>5, WithinOne
    <3> QED BY <2>1, <2>2, <2>4, <2>5, <3>2, <3>3 DEF less, a, c
  <2>6. CASE d > YEAR
    <3>1. PICK m \in Nat : m = d - YEAR /\ d = YEAR + m
      <4>1. d - YEAR \in Nat /\ d = YEAR + (d - YEAR) BY <2>1, <2>6
      <4> QED BY <4>1
    <3> DEFINE rest == ProRataUp(a, m)
    <3>2. /\ rest \in Nat /\ YEAR * rest \in Nat /\ a * m \in Nat
          /\ a * m <= YEAR * rest /\ YEAR * rest < a * m + YEAR
      BY <2>1, <3>1, ProRataUpBounds, ProRataBounds
    <3> HIDE DEF rest
    <3>3. a * d = YEAR * a + a * m /\ YEAR * a \in Nat
      BY <2>1, <3>1, Distribute, MulMonotone
    <3>4. a + rest <= full + 1
      <4>1. /\ YEAR * (a + rest) = YEAR * a + YEAR * rest
            /\ YEAR * (full + 1) = YEAR * full + YEAR
        BY <2>1, <2>3, <3>2, Distribute
      <4>2. YEAR * (a + rest) < YEAR * (full + 1) + YEAR
        BY <2>1, <2>3, <3>2, <3>3, <4>1
      <4>3. a + rest \in Nat /\ full + 1 \in Nat BY <2>1, <2>3, <3>2
      <4> QED BY <2>1, <4>2, <4>3, WithinOne
    <3>5. full <= a + rest
      <4>1. YEAR * (a + rest) = YEAR * a + YEAR * rest BY <2>1, <3>2, Distribute
      <4>2. YEAR * full < YEAR * (a + rest) + YEAR
        BY <2>1, <2>3, <3>2, <3>3, <4>1
      <4>3. a + rest \in Nat BY <2>1, <3>2
      <4> QED BY <2>1, <2>3, <4>2, <4>3, WithinOne
    <3>6. DiscountRentPrice(o, t, e, d).base = c + rest
      BY <2>2, <2>6, <3>1 DEF rest
    <3> QED BY <2>1, <2>2, <2>3, <3>2, <3>4, <3>5, <3>6 DEF a, c
  <2> QED BY <2>1, <2>5, <2>6
<1>2. PricingTypeOK => DiscountIsOneYears BY <1>1 DEF DiscountIsOneYears, Quoted
<1> QED BY <1>2, PricingInvariant, PTL

\* The premium starts at PREMIUM_START, never rises, and is gone in time,
\* however the price table changes (_premium).
THEOREM PremiumOnlyDecaysHolds == PricingSpec => PremiumOnlyDecays
<1>1. ASSUME PricingTypeOK, [PricingNext]_<<prices, timestamp>>, NEW e \in Expiries \ {0}
      PROVE  /\ e <= timestamp => Premium(e)' <= Premium(e)
             /\ e = timestamp => Premium(e) = PREMIUM_START
             /\ e + PREMIUM_DECAY_PERIOD <= timestamp => Premium(e) = 0
  <2>1. /\ e \in Nat \ {0} /\ timestamp \in Nat
        /\ timestamp' = timestamp \/ timestamp' = timestamp + 1
        /\ PREMIUM_START \in Nat /\ PREMIUM_DECAY_PERIOD \in Nat \ {0}
    BY <1>1, QuotesAssumption DEF PricingTypeOK, PricingNext, SetPrices
  <2> DEFINE asked(k) == (PREMIUM_START * (PREMIUM_DECAY_PERIOD - k)) \div PREMIUM_DECAY_PERIOD
  <2>2. ASSUME e <= timestamp PROVE Premium(e)' <= Premium(e)
    <3>1. PICK k \in Nat : k = timestamp - e /\ timestamp' - e \in {k, k + 1}
                           /\ ~(e > timestamp) /\ ~(e > timestamp')
      <4>1. timestamp - e \in Nat BY <2>1, <2>2
      <4>2. timestamp' - e \in {timestamp - e, (timestamp - e) + 1}
            /\ ~(e > timestamp) /\ ~(e > timestamp')
        BY <2>1, <2>2
      <4> QED BY <4>1, <4>2
    <3>2. Premium(e) = IF k >= PREMIUM_DECAY_PERIOD THEN 0 ELSE asked(k)
      BY <2>1, <3>1 DEF Premium
    <3>3. PICK j \in {k, k + 1} :
             Premium(e)' = IF j >= PREMIUM_DECAY_PERIOD THEN 0 ELSE asked(j)
      BY <2>1, <3>1 DEF Premium
    <3>4. j \in Nat /\ k <= j BY <3>1, <3>3
    <3>5. j < PREMIUM_DECAY_PERIOD => asked(j) <= asked(k)
      BY <2>1, <3>1, <3>4, PremiumBounds
    <3>6. k < PREMIUM_DECAY_PERIOD => asked(k) \in Nat
      BY <2>1, <3>1, PremiumBounds
    <3> HIDE DEF asked
    <3> QED BY <2>1, <3>1, <3>2, <3>3, <3>4, <3>5, <3>6
  <2>3. ASSUME e = timestamp PROVE Premium(e) = PREMIUM_START
    <3>1. PREMIUM_DECAY_PERIOD - (timestamp - e) = PREMIUM_DECAY_PERIOD
          /\ ~(e = 0 \/ e > timestamp \/ timestamp - e >= PREMIUM_DECAY_PERIOD)
      BY <2>1, <2>3
    <3>2. (PREMIUM_START * PREMIUM_DECAY_PERIOD) \div PREMIUM_DECAY_PERIOD = PREMIUM_START
      BY <2>1, DivExact
    <3> QED BY <3>1, <3>2 DEF Premium
  <2>4. ASSUME e + PREMIUM_DECAY_PERIOD <= timestamp PROVE Premium(e) = 0
    BY <2>1, <2>4 DEF Premium
  <2> QED BY <2>2, <2>3, <2>4
<1>2. PricingTypeOK /\ [PricingNext]_<<prices, timestamp>> =>
         \A e \in Expiries \ {0} :
            /\ e <= timestamp => Premium(e)' <= Premium(e)
            /\ e = timestamp => Premium(e) = PREMIUM_START
            /\ e + PREMIUM_DECAY_PERIOD <= timestamp => Premium(e) = 0
  BY <1>1
<1> QED BY <1>2, PricingInvariant, PTL DEF PricingSpec, PremiumOnlyDecays

------------------------------------------------------------------------------
(* A proof of the snapshot is good for one wallet.                            *)

\* A set of naturals has a smallest one.
LEMMA SmallestOf ==
    ASSUME NEW T, T \subseteq Nat, T # {}
    PROVE  \E x \in T : \A y \in T : ~(y < x)
<1> DEFINE R == {ss \in Nat \X Nat : ss[1] < ss[2]}
<1>1. IsWellFoundedOn(R, Nat)
  BY NatLessThanWellFounded, Zenon DEF OpToRel
<1>2. PICK x \in T : \A y \in T : ~(<<y, x>> \in R)
  <2> HIDE DEF R
  <2> QED
    BY <1>1, WFMin
<1> QED
  BY <1>2

\* Two hashes paired with the same third are the same.
LEMMA PairInjective ==
    ASSUME NEW a, NEW b, NEW h, hashPair(a, h) = hashPair(b, h)
    PROVE  a = b
<1>1. {a, h} = {b, h}
  BY DEF hashPair
<1>2. a \in {b, h} /\ b \in {a, h}
  BY <1>1
<1> QED
  BY <1>2

\* Different wallets have different leaves.
LEMMA LeafInjective == \A v, w : leafFor(v) = leafFor(w) => v = w
  BY DEF leafFor

-----------------------------------------------------------------------------
\* The largest of a set of positions.
LEMMA MaxOfTop ==
    ASSUME NEW n \in Nat, NEW s, s \subseteq 1..n, n \in s
    PROVE  Max(s) = n
<1> DEFINE m == CHOOSE x \in s : \A y \in s : x >= y
<1>1. Max(s) = m
  BY DEF Max
<1>2. \A y \in s : y \in Nat /\ n >= y
  OBVIOUS
<1>3. \E x \in s : \A y \in s : x >= y
  BY <1>2
<1>4. m \in s /\ \A y \in s : m >= y
  BY <1>3, Zenon
<1> HIDE DEF m
<1> QED
  BY <1>1, <1>2, <1>4

FoldOver(base, p, n, f) ==
    f = [s \in SUBSET (1..n) |-> IF s = {} THEN base ELSE hashPair(f[s \ {Max(s)}], p[Max(s)])]

\* A fold over the first n positions goes on to the next.
LEMMA FoldExtends ==
    ASSUME NEW base, NEW p, NEW n \in Nat, NEW g, FoldOver(base, p, n, g)
    PROVE  \E f : FoldOver(base, p, n + 1, f)
<1> DEFINE f == [s \in SUBSET (1..n + 1) |-> IF n + 1 \in s THEN hashPair(g[s \ {n + 1}], p[n + 1]) ELSE g[s]]
<1>1. ASSUME NEW s \in SUBSET (1..n + 1)
      PROVE  f[s] = IF s = {} THEN base ELSE hashPair(f[s \ {Max(s)}], p[Max(s)])
  <2>1. CASE n + 1 \in s
    <3>1. Max(s) = n + 1
      <4>1. n + 1 \in Nat /\ s \subseteq 1..(n + 1)
        OBVIOUS
      <4> QED
        BY <2>1, <4>1, MaxOfTop
    <3>2. s \ {n + 1} \in SUBSET (1..n + 1) /\ n + 1 \notin s \ {n + 1}
      OBVIOUS
    <3>3. f[s \ {n + 1}] = g[s \ {n + 1}]
      BY <3>2
    <3> QED
      BY <2>1, <3>1, <3>3
  <2>2. CASE n + 1 \notin s
    <3>1. s \in SUBSET (1..n)
      BY <2>2
    <3>2. f[s] = g[s]
      BY <2>2
    <3>3. g[s] = IF s = {} THEN base ELSE hashPair(g[s \ {Max(s)}], p[Max(s)])
      BY <3>1 DEF FoldOver
    <3>4. s \ {Max(s)} \in SUBSET (1..n + 1) /\ n + 1 \notin s \ {Max(s)}
      BY <2>2
    <3>5. f[s \ {Max(s)}] = g[s \ {Max(s)}]
      BY <3>4
    <3> QED
      BY <3>2, <3>3, <3>5
  <2> QED
    BY <2>1, <2>2
<1>2. FoldOver(base, p, n + 1, f)
  <2> HIDE DEF f
  <2> SUFFICES f = [s \in SUBSET (1..n + 1) |->
                      IF s = {} THEN base ELSE hashPair(f[s \ {Max(s)}], p[Max(s)])]
    BY DEF FoldOver
  <2> QED
    BY <1>1 DEF f
<1> QED
  BY <1>2

\* The recursive fold over a set of positions exists, whatever is folded.
LEMMA FoldExists ==
    ASSUME NEW base, NEW p, NEW n \in Nat
    PROVE  \E f : FoldOver(base, p, n, f)
<1> DEFINE T == {k \in Nat : ~\E f : FoldOver(base, p, k, f)}
<1> SUFFICES ASSUME T # {} PROVE FALSE
  OBVIOUS
<1>1. PICK k \in T : \A y \in T : ~(y < k)
  BY SmallestOf
<1>2. k \in Nat /\ ~\E f : FoldOver(base, p, k, f)
  OBVIOUS
<1>3. k # 0
  <2> DEFINE f == [s \in SUBSET (1..0) |-> base]
  <2>1. \A s \in SUBSET (1..0) : s = {}
    OBVIOUS
  <2>2. FoldOver(base, p, 0, f)
    BY <2>1 DEF FoldOver
  <2> QED
    BY <1>2, <2>2
<1>4. k - 1 \in Nat /\ k - 1 < k /\ (k - 1) + 1 = k
  BY <1>2, <1>3
<1>5. PICK g : FoldOver(base, p, k - 1, g)
  BY <1>1, <1>4
<1>6. \E f : FoldOver(base, p, (k - 1) + 1, f)
  BY <1>4, <1>5, FoldExtends
<1> QED
  BY <1>2, <1>4, <1>6

\* The fold of a proof, and that it tells leaves apart.
LEMMA FoldIs ==
    ASSUME NEW base, NEW p, NEW n \in Nat, DOMAIN p = 1..n
    PROVE  \E f : FoldOver(base, p, n, f) /\ FoldLeft(hashPair, base, p) = f[1..n]
<1> DEFINE F == CHOOSE f : f = [s \in SUBSET (1..n) |->
                    IF s = {} THEN base ELSE hashPair(f[s \ {Max(s)}], p[Max(s)])]
<1>1. FoldLeft(hashPair, base, p) = F[1..n]
  BY Zenon DEF FoldLeft, MapThenFoldSet
<1>2. \E f : f = [s \in SUBSET (1..n) |->
                    IF s = {} THEN base ELSE hashPair(f[s \ {Max(s)}], p[Max(s)])]
  <2>1. PICK g : FoldOver(base, p, n, g)
    BY FoldExists
  <2> QED
    BY <2>1, Zenon DEF FoldOver
<1>3. FoldOver(base, p, n, F)
  BY <1>2, Zenon DEF FoldOver
<1> HIDE DEF F
<1> QED
  BY <1>1, <1>3

\* A proof takes different hashes to different roots.
LEMMA FoldInjective ==
    ASSUME NEW a, NEW b, NEW p, NEW n \in Nat, DOMAIN p = 1..n,
           FoldLeft(hashPair, a, p) = FoldLeft(hashPair, b, p)
    PROVE  a = b
<1>1. PICK f : FoldOver(a, p, n, f) /\ FoldLeft(hashPair, a, p) = f[1..n]
  BY FoldIs
<1>2. PICK g : FoldOver(b, p, n, g) /\ FoldLeft(hashPair, b, p) = g[1..n]
  BY FoldIs
<1> DEFINE T == {k \in Nat : k <= n /\ f[1..k] = g[1..k]}
<1>3. n \in T
  <2>1. f[1..n] = g[1..n]
    BY <1>1, <1>2, Zenon
  <2> QED
    BY <2>1
<1>4. PICK m \in T : \A y \in T : ~(y < m)
  <2> HIDE DEF T
  <2>1. T \subseteq Nat
    BY DEF T
  <2> QED
    BY <1>3, <2>1, SmallestOf
<1>5. m \in Nat /\ m <= n /\ f[1..m] = g[1..m] /\ 1..m \in SUBSET (1..n)
  OBVIOUS
<1>6. CASE m = 0
  <2>1. 1..m = {}
    BY <1>6
  <2>2. f[{}] = a /\ g[{}] = b
    BY <1>1, <1>2 DEF FoldOver
  <2> QED
    BY <1>5, <2>1, <2>2
<1>7. CASE m # 0
  <2>1. Max(1..m) = m
    <3>1. 1..m \subseteq 1..m /\ m \in 1..m
      BY <1>5, <1>7
    <3> QED
      BY <1>5, <3>1, MaxOfTop
  <2>2. 1..m # {} /\ (1..m) \ {m} = 1..(m - 1) /\ m - 1 \in Nat /\ m - 1 <= n /\ m - 1 < m
    <3>1. m - 1 \in Nat /\ m - 1 <= n /\ m - 1 < m /\ m \in 1..m
      BY <1>5, <1>7
    <3>2. \A x : x \in (1..m) \ {m} <=> x \in 1..(m - 1)
      BY <1>5, <3>1
    <3>3. (1..m) \ {m} = 1..(m - 1)
      BY <3>2
    <3> QED
      BY <3>1, <3>3
  <2>3. f[1..m] = hashPair(f[1..(m - 1)], p[m])
    BY <1>1, <1>5, <2>1, <2>2 DEF FoldOver
  <2>4. g[1..m] = hashPair(g[1..(m - 1)], p[m])
    BY <1>2, <1>5, <2>1, <2>2 DEF FoldOver
  <2>5. f[1..(m - 1)] = g[1..(m - 1)]
    BY <1>5, <2>3, <2>4, PairInjective
  <2> QED
    BY <1>4, <2>2, <2>5
<1> QED
  BY <1>6, <1>7

-----------------------------------------------------------------------------
\* One after the other.
FlatOver(u, n, f) == f = [i \in 1..n |-> IF i = 1 THEN u[i] ELSE f[i - 1] \o u[i]]

\* The sequence of the first i sequences, joined, exists for every i.
LEMMA FlatExists ==
    ASSUME NEW u, NEW n \in Nat
    PROVE  \E f : FlatOver(u, n, f)
<1> DEFINE T == {k \in Nat : ~\E f : FlatOver(u, k, f)}
<1> SUFFICES ASSUME T # {} PROVE FALSE
  OBVIOUS
<1>1. PICK k \in T : \A y \in T : ~(y < k)
  BY SmallestOf
<1>2. k \in Nat /\ ~\E f : FlatOver(u, k, f)
  OBVIOUS
<1>3. k # 0
  <2> DEFINE f == [i \in 1..0 |-> u[i]]
  <2>1. FlatOver(u, 0, f)
    BY DEF FlatOver
  <2> QED
    BY <1>2, <2>1
<1>4. k - 1 \in Nat /\ k - 1 < k
  BY <1>2, <1>3
<1>5. PICK g : FlatOver(u, k - 1, g)
  BY <1>1, <1>4
<1> DEFINE h == [i \in 1..k |-> IF i = k THEN (IF k = 1 THEN u[k] ELSE g[k - 1] \o u[k]) ELSE g[i]]
<1>6. ASSUME NEW i \in 1..k PROVE h[i] = IF i = 1 THEN u[i] ELSE h[i - 1] \o u[i]
  <2>1. CASE i = k
    <3>1. CASE k = 1
      BY <2>1, <3>1
    <3>2. CASE k # 1
      <4>1. k - 1 \in 1..k /\ k - 1 # k
        BY <1>2, <1>3, <3>2
      <4> QED
        BY <2>1, <3>2, <4>1
    <3> QED
      BY <3>1, <3>2
  <2>2. CASE i # k
    <3>1. i \in 1..(k - 1)
      BY <1>2, <2>2
    <3>2. g[i] = IF i = 1 THEN u[i] ELSE g[i - 1] \o u[i]
      BY <1>5, <3>1 DEF FlatOver
    <3>3. i # 1 => i - 1 \in 1..k /\ i - 1 # k
      BY <1>2, <3>1
    <3> QED
      BY <2>2, <3>2, <3>3
  <2> QED
    BY <2>1, <2>2
<1>7. FlatOver(u, k, h)
  <2> HIDE DEF h
  <2> SUFFICES h = [i \in 1..k |-> IF i = 1 THEN u[i] ELSE h[i - 1] \o u[i]]
    BY DEF FlatOver
  <2> QED
    BY <1>6 DEF h
<1> QED
  BY <1>2, <1>7

\* Sequences of hashes joined are a sequence of hashes.
LEMMA FlattenIsSeq ==
    ASSUME NEW X, NEW n \in Nat, NEW u \in [1..n -> Seq(X)]
    PROVE  FlattenSeq(u) \in Seq(X)
<1>1. u \in Seq(Seq(X)) /\ Len(u) = n
  <2>1. u \in Seq(Seq(X))
    BY SeqDef
  <2> QED
    BY <2>1, LenProperties
<1>2. CASE n = 0
  <2>1. u = <<>>
    BY <1>1, <1>2, EmptySeq
  <2> QED
    BY <1>1, <1>2, <2>1 DEF FlattenSeq
<1>3. CASE n # 0
  <2> DEFINE F == CHOOSE f : f = [i \in 1..Len(u) |-> IF i = 1 THEN u[i] ELSE f[i - 1] \o u[i]]
  <2>1. FlattenSeq(u) = F[n]
    BY <1>1, <1>3, Zenon DEF FlattenSeq
  <2>2. FlatOver(u, n, F)
    <3>1. \E f : f = [i \in 1..Len(u) |-> IF i = 1 THEN u[i] ELSE f[i - 1] \o u[i]]
      BY <1>1, FlatExists, Zenon DEF FlatOver
    <3> QED
      BY <1>1, <3>1, Zenon DEF FlatOver
  <2> HIDE DEF F
  <2> DEFINE T == {i \in 1..n : F[i] \notin Seq(X)}
  <2>3. T = {}
    <3> SUFFICES ASSUME T # {} PROVE FALSE
      OBVIOUS
    <3>1. PICK i \in T : \A j \in T : ~(j < i)
      <4>1. T \subseteq Nat
        OBVIOUS
      <4> HIDE DEF T
      <4> QED
        BY <4>1, SmallestOf
    <3>2. i \in 1..n /\ u[i] \in Seq(X) /\ F[i] = IF i = 1 THEN u[i] ELSE F[i - 1] \o u[i]
      BY <2>2 DEF FlatOver
    <3>3. i # 1
      BY <3>2
    <3>4. i - 1 \in 1..n /\ i - 1 < i
      BY <3>2, <3>3
    <3>5. F[i - 1] \in Seq(X)
      BY <3>1, <3>4
    <3>6. F[i - 1] \o u[i] \in Seq(X)
      BY <3>2, <3>5, ConcatProperties
    <3> QED
      BY <3>2, <3>3, <3>6
  <2> QED
    BY <1>3, <2>1, <2>3
<1> QED
  BY <1>2, <1>3

-----------------------------------------------------------------------------
\* The levels of the tree.
Higher(below) == IF Len(Last(below)) > 1 THEN Append(below, NextLevel(Last(below))) ELSE below
LevelsOver(leaves, n, f) == f = [k \in 0..n |-> IF k = 0 THEN <<leaves>> ELSE Higher(f[k - 1])]

\* The levels of the tree exist, up to every height.
LEMMA LevelsExist ==
    ASSUME NEW leaves, NEW n \in Nat
    PROVE  \E f : LevelsOver(leaves, n, f)
<1> DEFINE T == {k \in Nat : ~\E f : LevelsOver(leaves, k, f)}
<1> SUFFICES ASSUME T # {} PROVE FALSE
  OBVIOUS
<1>1. PICK k \in T : \A y \in T : ~(y < k)
  BY SmallestOf
<1>2. k \in Nat /\ ~\E f : LevelsOver(leaves, k, f)
  OBVIOUS
<1>3. k # 0
  <2> DEFINE f == [i \in 0..0 |-> <<leaves>>]
  <2>1. LevelsOver(leaves, 0, f)
    BY DEF LevelsOver
  <2> QED
    BY <1>2, <2>1
<1>4. k - 1 \in Nat /\ k - 1 < k
  BY <1>2, <1>3
<1>5. PICK g : LevelsOver(leaves, k - 1, g)
  BY <1>1, <1>4
<1> DEFINE h == [i \in 0..k |-> IF i = k THEN Higher(g[k - 1]) ELSE g[i]]
<1>6. ASSUME NEW i \in 0..k PROVE h[i] = IF i = 0 THEN <<leaves>> ELSE Higher(h[i - 1])
  <2>1. CASE i = k
    <3>1. k - 1 \in 0..k /\ k - 1 # k
      BY <1>2, <1>3
    <3> QED
      BY <1>3, <2>1, <3>1
  <2>2. CASE i # k
    <3>1. i \in 0..(k - 1)
      BY <1>2, <2>2
    <3>2. g[i] = IF i = 0 THEN <<leaves>> ELSE Higher(g[i - 1])
      BY <1>5, <3>1 DEF LevelsOver
    <3>3. i # 0 => i - 1 \in 0..k /\ i - 1 # k
      BY <1>2, <3>1
    <3> QED
      BY <2>2, <3>2, <3>3
  <2> QED
    BY <2>1, <2>2
<1>7. LevelsOver(leaves, k, h)
  <2> HIDE DEF h
  <2> SUFFICES h = [i \in 0..k |-> IF i = 0 THEN <<leaves>> ELSE Higher(h[i - 1])]
    BY DEF LevelsOver
  <2> QED
    BY <1>6 DEF h
<1> QED
  BY <1>2, <1>7

\* The levels of a tree are a sequence of sequences.
LEMMA LevelsAreSeq ==
    ASSUME NEW leaves, Len(leaves) \in Nat
    PROVE  \E X : levelsOf(leaves) \in Seq(X)
<1> DEFINE n == Len(leaves)
           F == CHOOSE f : f = [k \in 0..n |-> IF k = 0 THEN <<leaves>> ELSE Higher(f[k - 1])]
<1>1. levelsOf(leaves) = F[n]
  BY Zenon DEF levelsOf, Higher
<1>2. LevelsOver(leaves, n, F)
  <2>1. \E f : f = [k \in 0..n |-> IF k = 0 THEN <<leaves>> ELSE Higher(f[k - 1])]
    BY LevelsExist, Zenon DEF LevelsOver
  <2> QED
    BY <2>1, Zenon DEF LevelsOver
<1> HIDE DEF F
<1> DEFINE T == {k \in 0..n : ~\E X : F[k] \in Seq(X)}
<1>3. T = {}
  <2> SUFFICES ASSUME T # {} PROVE FALSE
    OBVIOUS
  <2>1. PICK k \in T : \A j \in T : ~(j < k)
    <3>1. T \subseteq Nat
      OBVIOUS
    <3> HIDE DEF T
    <3> QED
      BY <3>1, SmallestOf
  <2>2. k \in 0..n /\ F[k] = IF k = 0 THEN <<leaves>> ELSE Higher(F[k - 1])
    BY <1>2 DEF LevelsOver
  <2>3. k # 0
    <3>1. <<leaves>> \in Seq({leaves})
      OBVIOUS
    <3> QED
      BY <2>1, <2>2, <3>1
  <2>4. k - 1 \in 0..n /\ k - 1 < k
    BY <2>2, <2>3
  <2>5. PICK X : F[k - 1] \in Seq(X)
    BY <2>1, <2>4
  <2>6. \E Y : Higher(F[k - 1]) \in Seq(Y)
    <3>1. PICK up : up = NextLevel(Last(F[k - 1]))
      OBVIOUS
    <3>2. F[k - 1] \in Seq(X \cup {up})
      BY <2>5, LenProperties, ElementOfSeq
    <3>3. Append(F[k - 1], up) \in Seq(X \cup {up})
      BY <3>2, AppendProperties
    <3> QED
      BY <2>5, <3>1, <3>3 DEF Higher
  <2> QED
    BY <2>1, <2>2, <2>3, <2>6
<1> QED
  BY <1>1, <1>3

\* A proof is a sequence of hashes.
LEMMA ProofIsSeq ==
    ASSUME NEW S, IsFiniteSet(S), NEW w
    PROVE  \E n \in Nat : DOMAIN proofOf(S, w) = 1..n
<1>1. Len(leavesOf(S)) \in Nat
  <2>1. Cardinality(S) \in Nat
    BY FS_CardinalityType
  <2>2. PICK f : f = leavesOf(S)
    OBVIOUS
  <2>3. f = [i \in 1..Cardinality(S) |-> leafFor(uniqueWallets(S)[i])]
    BY <2>2 DEF leavesOf, uniqueWallets
  <2>4. PICK R : \A i \in 1..Cardinality(S) : f[i] \in R
    <3> DEFINE R == {f[i] : i \in 1..Cardinality(S)}
    <3>1. \A i \in 1..Cardinality(S) : f[i] \in R
      OBVIOUS
    <3> QED
      BY <3>1
  <2>5. f \in Seq(R)
    BY <2>1, <2>3, <2>4
  <2> QED
    BY <2>2, <2>5, LenProperties
<1>2. PICK levels : levels = levelsOf(leavesOf(S))
  OBVIOUS
<1>3. Len(levels) \in Nat
  <2>1. PICK X : levels \in Seq(X)
    BY <1>1, <1>2, LevelsAreSeq
  <2> QED
    BY <2>1, LenProperties
<1>4. PICK n \in Nat : 1..Len(levels) - 1 = 1..n
  <2>1. CASE Len(levels) = 0
    <3>1. 1..Len(levels) - 1 = 1..0
      BY <2>1
    <3> QED
      BY <3>1
  <2>2. CASE Len(levels) # 0
    BY <1>3, <2>2
  <2> QED
    BY <2>1, <2>2
<1>5. PICK u : u = [k \in 1..n |-> Sibling(levels[k], Cardinality({v \in S : v < w}) \div 2 ^ (k - 1))]
  OBVIOUS
<1>6. proofOf(S, w) = FlattenSeq(u)
  BY <1>2, <1>4, <1>5, Zenon DEF proofOf
<1> DEFINE X == {u[k][1] : k \in 1..n}
<1>7. u \in [1..n -> Seq(X)]
  <2>1. ASSUME NEW k \in 1..n PROVE u[k] \in Seq(X)
    <3>1. u[k] = <<>> \/ \E h : u[k] = <<h>>
      BY <1>5 DEF Sibling
    <3>2. ASSUME NEW h, u[k] = <<h>> PROVE u[k] \in Seq(X)
      <4>1. u[k][1] = h
        BY <3>2
      <4>2. h \in X
        BY <4>1
      <4> HIDE DEF X
      <4> QED
        BY <3>2, <4>2
    <3>3. <<>> \in Seq(X)
      OBVIOUS
    <3> QED
      BY <3>1, <3>2, <3>3
  <2> HIDE DEF X
  <2> QED
    BY <1>5, <2>1
<1> HIDE DEF X
<1>8. FlattenSeq(u) \in Seq(X)
  BY <1>7, FlattenIsSeq
<1> QED
  BY <1>6, <1>8, LenProperties

\* A proof is good for one wallet at most (proofFor and verifyProof in the artifact's
\* scripts), for every finite snapshot and whatever root it is checked against.
THEOREM ProvesOne ==
    ASSUME NEW S, IsFiniteSet(S), NEW w, NEW root, NEW v1, NEW v2,
           verifyProof(leafFor(v1), proofOf(S, w), root),
           verifyProof(leafFor(v2), proofOf(S, w), root)
    PROVE  v1 = v2
<1>1. PICK n \in Nat : DOMAIN proofOf(S, w) = 1..n
  BY ProofIsSeq
<1>2. leafFor(v1) = leafFor(v2)
  <2>1. FoldLeft(hashPair, leafFor(v1), proofOf(S, w)) = FoldLeft(hashPair, leafFor(v2), proofOf(S, w))
    BY DEF verifyProof
  <2> QED
    BY <1>1, <2>1, FoldInjective
<1> QED
  BY <1>2, LeafInjective

------------------------------------------------------------------------------
(* The campaign: what holds throughout.                                      *)

CampaignRoots == {NoRoot, Final, Previous}
CampaignEvent ==
    [kind : {"root", "frozen"}, value : CampaignRoots] \cup [kind : {"active"}, value : BOOLEAN]
      \cup [kind : {"owner"}, value : {"safe"}] \cup [kind : {"authorized"}, value : Caller \X BOOLEAN]
      \cup [kind : {"used"}, value : Wallet]
ToolKinds == Writes \cup STAGES \cup {"prepare", "verify-preparation", "none"}
ToolStages == {"idle", "reading", "sent", "reading back"}
ToolValues == {"owner", "root", "frozen", "active", "wired", "implementation"}
OfferValues == {"wired", "root", "frozen", "active", "used"}
IndexShape ==
    [root : CampaignRoots, frozen : BOOLEAN, active : BOOLEAN, owner : {"nobody", "deployer", "safe"},
     authorized : SUBSET Caller, consumed : SUBSET Wallet]

CampaignTyped ==
    /\ chainOf \in {"mainnet", "testnet"}
    /\ merkleRoot \in CampaignRoots /\ rootFrozen \in BOOLEAN /\ discountActive \in BOOLEAN
    /\ used \subseteq Wallet /\ authorizedControllers \subseteq Caller
    /\ registryOwner \in {"nobody", "deployer", "safe"}
    /\ pointing \subseteq Caller
    /\ tool \in [kind : ToolKinds, left : SUBSET ToolValues, at : ToolStages]
    /\ visit \in [at : {"idle", "reading", "offered"}, wallet : Wallet \cup {0}, left : SUBSET OfferValues]
    /\ emitted \in Seq(CampaignEvent) /\ indexed \in IndexShape
    /\ batches \subseteq Writes

\* A tool that has read the root it expects, or its seal.
RootRead ==
    tool.kind \in {"freeze-root", "activate", "root-set", "frozen", "active"} /\ "root" \notin tool.left
SealRead == tool.kind \in {"activate", "frozen", "active"} /\ "frozen" \notin tool.left

ToolIsRight ==
    /\ tool.at = "idle" => tool.kind = "none"
    /\ tool.kind \in Writes \cup STAGES => chainOf = "mainnet" /\ ToolRoot = Final
    /\ tool.kind = "prepare" => chainOf = "testnet"
    /\ tool.at = "reading" => (RootRead => merkleRoot = Final) /\ (SealRead => rootFrozen)
    /\ tool.at \in {"sent", "reading back"} =>
          /\ tool.kind \in {"freeze-root", "activate"} => merkleRoot = Final
          /\ tool.kind = "activate" => rootFrozen
    /\ tool.at = "reading back" =>
          tool.kind \in Writes \cup {"prepare"} /\ (tool.kind = "freeze-root" => rootFrozen)
    /\ passed \in {"freeze-root", "activate", "frozen", "active"} => rootFrozen /\ merkleRoot = Final

BatchesAreRight ==
    /\ batches # {} /\ chainOf = "mainnet" => ToolRoot = Final
    /\ "freeze-root" \in batches /\ "set-root" \notin batches => merkleRoot = Final
    /\ chainOf = "testnet" => merkleRoot \in {NoRoot, Final} /\ batches = {}
    /\ rootFrozen /\ merkleRoot # Final => "set-root" \in batches /\ "freeze-root" \notin batches

OfferIsRight ==
    /\ visit.at # "idle" =>
          /\ visit.wallet \in Final \cap Wallet /\ Final \in published
          /\ "root" \notin visit.left => merkleRoot = Final
          /\ "frozen" \notin visit.left => rootFrozen
    /\ visit.at = "offered" => visit.left = {}
    /\ Final \in published => \A w \in Final : w \in provenBy[Final][w]

\* What an event is about and says of it.
EventTopic(e) ==
    CASE e.kind \in {"root", "frozen"} -> <<"root", NoRoot>>
      [] e.kind = "authorized"         -> <<"authorized", e.value[1]>>
      [] e.kind = "used"               -> <<"used", e.value>>
      [] OTHER                         -> <<e.kind, NoRoot>>
EventSays(e) ==
    CASE e.kind = "authorized" -> IF e.value[2] THEN {e.value[1]} ELSE {}
      [] e.kind = "used"       -> {e.value}
      [] OTHER                 -> e.value

\* The last of the events q about topic says v; without one, v is what it was before.
LastSays(q, topic, v, before) ==
    \/ v = before /\ \A i \in 1..Len(q) : EventTopic(q[i]) # topic
    \/ \E i \in 1..Len(q) :
          /\ EventTopic(q[i]) = topic /\ EventSays(q[i]) = v
          /\ \A j \in 1..Len(q) : i < j => EventTopic(q[j]) # topic

IndexIsBehind ==
    chainOf = "mainnet" =>
       /\ LastSays(emitted, <<"root", NoRoot>>, merkleRoot, indexed.root)
       /\ LastSays(emitted, <<"active", NoRoot>>, discountActive, indexed.active)
       /\ LastSays(emitted, <<"owner", NoRoot>>, registryOwner, indexed.owner)
       /\ \A c \in Caller : LastSays(emitted, <<"authorized", c>>,
                                     authorizedControllers \cap {c}, indexed.authorized \cap {c})
       /\ \A w \in Wallet : LastSays(emitted, <<"used", w>>, used \cap {w}, indexed.consumed \cap {w})
       /\ rootFrozen <=> indexed.frozen \/ \E i \in 1..Len(emitted) : emitted[i].kind = "frozen"

CampaignInv ==
    CampaignTyped /\ ToolIsRight /\ BatchesAreRight /\ OfferIsRight /\ IndexIsBehind

\* A script uses the finalized root or none.
LEMMA ToolRootIs == ToolRoot \in {Final, NoRoot}
  BY DEF ToolRoot

\* One more event: it says what its topic is now, and nothing about the others.
LEMMA LastSaysAppend ==
    ASSUME NEW q \in Seq(CampaignEvent), NEW e \in CampaignEvent, NEW topic, NEW v, NEW before, NEW w,
           LastSays(q, topic, v, before),
           IF EventTopic(e) = topic THEN w = EventSays(e) ELSE w = v
    PROVE  LastSays(Append(q, e), topic, w, before)
  <1>1. PICK r \in Seq(CampaignEvent) : r = Append(q, e)
    BY AppendProperties
  <1>2. PICK n \in Nat : n = Len(q)
    OBVIOUS
  <1>3. Len(r) = n + 1 /\ r[n + 1] = e /\ \A i \in 1..n : r[i] = q[i]
    BY <1>1, <1>2
  <1> SUFFICES LastSays(r, topic, w, before)
    BY <1>1
  <1>4. CASE EventTopic(e) = topic
    <2>1. n + 1 \in 1..Len(r) /\ \A j \in 1..Len(r) : ~(n + 1 < j)
      BY <1>3
    <2> QED
      BY <1>3, <1>4, <2>1 DEF LastSays
  <1>5. CASE EventTopic(e) # topic
    <2>1. \A i \in 1..Len(r) : i \in 1..n \/ i = n + 1
      BY <1>3
    <2>2. \A i \in 1..n : i \in 1..Len(r) /\ i \in 1..Len(q)
      BY <1>2, <1>3
    <2>3. CASE v = before /\ \A i \in 1..Len(q) : EventTopic(q[i]) # topic
      <3>1. \A i \in 1..Len(r) : EventTopic(r[i]) # topic
        BY <1>3, <1>5, <2>1, <2>2, <2>3
      <3> QED
        BY <1>5, <2>3, <3>1 DEF LastSays
    <2>4. CASE \E i \in 1..Len(q) :
                  /\ EventTopic(q[i]) = topic /\ EventSays(q[i]) = v
                  /\ \A j \in 1..Len(q) : i < j => EventTopic(q[j]) # topic
      <3>1. PICK i \in 1..n :
                  /\ EventTopic(q[i]) = topic /\ EventSays(q[i]) = v
                  /\ \A j \in 1..n : i < j => EventTopic(q[j]) # topic
        BY <1>2, <2>4
      <3>2. \A j \in 1..Len(r) : i < j => EventTopic(r[j]) # topic
        BY <1>3, <1>5, <2>1, <3>1
      <3>3. i \in 1..Len(r) /\ EventTopic(r[i]) = topic /\ EventSays(r[i]) = w
        BY <1>3, <1>5, <2>2, <3>1
      <3> QED
        BY <3>2, <3>3 DEF LastSays
    <2> QED
      BY <2>3, <2>4 DEF LastSays
  <1> QED
    BY <1>4, <1>5

\* One event indexed: its topic is indexed as it said, the others as they were.
LEMMA LastSaysTail ==
    ASSUME NEW q \in Seq(CampaignEvent), q # <<>>, NEW topic, NEW v, NEW before, NEW b,
           LastSays(q, topic, v, before),
           IF EventTopic(q[1]) = topic THEN b = EventSays(q[1]) ELSE b = before
    PROVE  LastSays(Tail(q), topic, v, b)
  <1>1. PICK r \in Seq(CampaignEvent) : r = Tail(q)
    BY HeadTailProperties
  <1>2. PICK n \in Nat : Len(q) = n + 1
    <2>1. Len(q) \in Nat /\ Len(q) # 0
      OBVIOUS
    <2> QED
      BY <2>1
  <1>3. Len(r) = n /\ \A i \in 1..n : r[i] = q[i + 1]
    BY <1>1, <1>2
  <1> SUFFICES LastSays(r, topic, v, b)
    BY <1>1
  <1>4. \A i \in 1..n : i + 1 \in 1..Len(q)
    BY <1>2
  <1>5. CASE v = before /\ \A i \in 1..Len(q) : EventTopic(q[i]) # topic
    <2>1. \A i \in 1..Len(r) : EventTopic(r[i]) # topic
      BY <1>3, <1>4, <1>5
    <2>2. b = before
      <3>1. 1 \in 1..Len(q)
        BY <1>2
      <3> QED
        BY <1>5, <3>1
    <2> QED
      BY <1>5, <2>1, <2>2 DEF LastSays
  <1>6. CASE \E i \in 1..Len(q) :
                  /\ EventTopic(q[i]) = topic /\ EventSays(q[i]) = v
                  /\ \A j \in 1..Len(q) : i < j => EventTopic(q[j]) # topic
    <2>1. PICK i \in 1..(n + 1) :
                  /\ EventTopic(q[i]) = topic /\ EventSays(q[i]) = v
                  /\ \A j \in 1..(n + 1) : i < j => EventTopic(q[j]) # topic
      BY <1>2, <1>6
    <2>2. CASE i = 1
      <3>1. \A j \in 1..n : j + 1 \in 1..(n + 1) /\ 1 < j + 1
        BY <1>2
      <3>2. \A j \in 1..Len(r) : EventTopic(r[j]) # topic
        BY <1>3, <2>1, <2>2, <3>1
      <3>3. v = b
        BY <2>1, <2>2
      <3> QED
        BY <3>2, <3>3 DEF LastSays
    <2>3. CASE i # 1
      <3>1. i - 1 \in 1..Len(r) /\ r[i - 1] = q[i]
        BY <1>3, <2>1, <2>3
      <3>2. \A j \in 1..Len(r) : i - 1 < j => i < j + 1 /\ j + 1 \in 1..(n + 1) /\ r[j] = q[j + 1]
        BY <1>3
      <3>3. \A j \in 1..Len(r) : i - 1 < j => EventTopic(r[j]) # topic
        BY <2>1, <3>2
      <3> QED
        BY <2>1, <3>1, <3>3 DEF LastSays
    <2> QED
      BY <2>2, <2>3
  <1> QED
    BY <1>5, <1>6 DEF LastSays

\* What the invariant of the campaign is for.
LEMMA CampaignInvGives ==
    ASSUME CampaignInv
    PROVE  CampaignIsFinal
  <1> USE DEF CampaignInv
  <1>1. ASSUME visit.at = "offered"
        PROVE  rootFrozen /\ merkleRoot = Final /\ provenBy[merkleRoot][visit.wallet] = {visit.wallet}
    <2>1. /\ visit.wallet \in Final /\ Final \in published /\ rootFrozen /\ merkleRoot = Final
          /\ visit.wallet \in provenBy[Final][visit.wallet]
      BY <1>1 DEF OfferIsRight
    <2>2. PICK w \in Final : w = visit.wallet
      BY <2>1
    <2>3. tree[Final].proofs[w] = proofOf(Final, w)
      BY DEF tree
    <2>4. provenBy[Final][w] = {v \in Wallet : verifyProof(leafFor(v), proofOf(Final, w), tree[Final].root)}
      BY <2>3 DEF provenBy, tree
    <2>5. \A v \in provenBy[Final][w] : v = w
      BY <2>1, <2>2, <2>4, ProvesOne, CampaignAssumption
    <2>6. provenBy[Final][w] = {w}
      BY <2>1, <2>2, <2>5
    <2> QED
      BY <2>1, <2>2, <2>6
  <1>2. ASSUME emitted = <<>>, chainOf = "mainnet"
        PROVE  indexed = [root |-> merkleRoot, frozen |-> rootFrozen, active |-> discountActive,
                          owner |-> registryOwner, authorized |-> authorizedControllers, consumed |-> used]
    <2>1. Len(emitted) = 0
      BY <1>2
    <2>2. ASSUME NEW topic, NEW v, NEW before, LastSays(emitted, topic, v, before) PROVE v = before
      BY <2>1, <2>2 DEF LastSays
    <2>3. indexed.root = merkleRoot /\ indexed.active = discountActive /\ indexed.owner = registryOwner
      BY <1>2, <2>2 DEF IndexIsBehind
    <2>4. indexed \in IndexShape /\ used \subseteq Wallet /\ authorizedControllers \subseteq Caller
          /\ rootFrozen \in BOOLEAN
      BY DEF CampaignTyped
    <2>5. indexed.frozen = rootFrozen
      <3>1. rootFrozen <=> indexed.frozen
        BY <1>2, <2>1 DEF IndexIsBehind
      <3>2. indexed.frozen \in BOOLEAN
        BY <2>4 DEF IndexShape
      <3> QED
        BY <2>4, <3>1, <3>2
    <2>6. indexed.authorized = authorizedControllers
      <3>1. indexed.authorized \subseteq Caller
        BY <2>4 DEF IndexShape
      <3>2. \A c \in Caller : authorizedControllers \cap {c} = indexed.authorized \cap {c}
        BY <1>2, <2>2 DEF IndexIsBehind
      <3> QED
        BY <2>4, <3>1, <3>2
    <2>7. indexed.consumed = used
      <3>1. indexed.consumed \subseteq Wallet
        BY <2>4 DEF IndexShape
      <3>2. \A w \in Wallet : used \cap {w} = indexed.consumed \cap {w}
        BY <1>2, <2>2 DEF IndexIsBehind
      <3> QED
        BY <2>4, <3>1, <3>2
    <2> QED
      BY <2>3, <2>4, <2>5, <2>6, <2>7 DEF IndexShape
  <1>3. passed \in {"freeze-root", "activate", "frozen", "active"} => rootFrozen /\ merkleRoot = Final
    BY DEF ToolIsRight
  <1>4. rootFrozen /\ merkleRoot # Final => "set-root" \in batches /\ "freeze-root" \notin batches
    BY DEF BatchesAreRight
  <1> QED
    BY <1>1, <1>2, <1>3, <1>4 DEF CampaignIsFinal

\* The campaign starts with it.
LEMMA CampaignStart ==
    ASSUME CampaignInit
    PROVE  CampaignInv
  <1>1. indexed = [root |-> merkleRoot, frozen |-> FALSE, active |-> FALSE, owner |-> registryOwner,
                   authorized |-> authorizedControllers, consumed |-> {}]
    BY DEF CampaignInit
  <1>2. /\ merkleRoot \in CampaignRoots /\ registryOwner \in {"nobody", "deployer", "safe"}
        /\ pointing \subseteq Caller /\ authorizedControllers = pointing
        /\ discountActive = FALSE /\ rootFrozen = FALSE /\ used = {} /\ Len(emitted) = 0
    BY DEF CampaignInit, CampaignRoots
  <1>3. CampaignTyped
    <2>1. tool \in [kind : ToolKinds, left : SUBSET ToolValues, at : ToolStages]
      BY DEF CampaignInit, NoTool, ToolKinds, ToolStages
    <2>2. visit \in [at : {"idle", "reading", "offered"}, wallet : Wallet \cup {0}, left : SUBSET OfferValues]
      BY DEF CampaignInit, NoVisit
    <2>3. indexed \in IndexShape
      BY <1>1, <1>2 DEF IndexShape
    <2>4. chainOf \in {"mainnet", "testnet"} /\ batches = {} /\ emitted = <<>>
      BY DEF CampaignInit
    <2>5. emitted \in Seq(CampaignEvent)
      BY <2>4
    <2>6. used \subseteq Wallet /\ authorizedControllers \subseteq Caller /\ batches \subseteq Writes
      BY <1>2, <2>4
    <2> QED
      BY <1>2, <2>1, <2>2, <2>3, <2>4, <2>5, <2>6 DEF CampaignTyped
  <1>4. ToolIsRight
    BY DEF CampaignInit, ToolIsRight, NoTool, Writes, STAGES
  <1>5. BatchesAreRight
    BY DEF CampaignInit, BatchesAreRight
  <1>6. OfferIsRight
    BY CampaignAssumption DEF CampaignInit, OfferIsRight, NoVisit
  <1>7. IndexIsBehind
    <2>1. ASSUME NEW topic, NEW v PROVE LastSays(emitted, topic, v, v)
      BY <1>2 DEF LastSays
    <2>2. /\ indexed.root = merkleRoot /\ indexed.active = discountActive /\ indexed.owner = registryOwner
          /\ indexed.authorized = authorizedControllers /\ indexed.consumed = used
          /\ ~rootFrozen /\ indexed.frozen = FALSE
      BY <1>1, <1>2
    <2>3. ~(rootFrozen \/ indexed.frozen \/ \E i \in 1..Len(emitted) : emitted[i].kind = "frozen")
      BY <1>2, <2>2
    <2>4. LastSays(emitted, <<"root", NoRoot>>, merkleRoot, indexed.root)
      BY <2>1, <2>2
    <2>5. LastSays(emitted, <<"active", NoRoot>>, discountActive, indexed.active)
      BY <2>1, <2>2
    <2>6. LastSays(emitted, <<"owner", NoRoot>>, registryOwner, indexed.owner)
      BY <2>1, <2>2
    <2>7. ASSUME NEW c \in Caller
          PROVE  LastSays(emitted, <<"authorized", c>>,
                          authorizedControllers \cap {c}, indexed.authorized \cap {c})
      BY <2>1, <2>2
    <2>8. ASSUME NEW w \in Wallet
          PROVE  LastSays(emitted, <<"used", w>>, used \cap {w}, indexed.consumed \cap {w})
      BY <2>1, <2>2
    <2> QED
      BY <2>3, <2>4, <2>5, <2>6, <2>7, <2>8 DEF IndexIsBehind
  <1> QED
    BY <1>3, <1>4, <1>5, <1>6, <1>7 DEF CampaignInv

\* What a step may do to root and seal.
RootMoves ==
    \/ UNCHANGED <<merkleRoot, rootFrozen>>
    \/ ~rootFrozen /\ merkleRoot' = Final /\ UNCHANGED rootFrozen
    \/ ~rootFrozen /\ rootFrozen' = TRUE /\ merkleRoot # NoRoot /\ UNCHANGED merkleRoot

\* What a script has read stays so while root and seal move as they may.
LEMMA ToolStays ==
    ASSUME ToolIsRight, RootMoves, UNCHANGED <<tool, passed, manifest, chainOf>>
    PROVE  ToolIsRight'
  <1>1. (ToolRoot' = ToolRoot) /\ (RootRead' = RootRead) /\ (SealRead' = SealRead)
    BY DEF ToolRoot, RootRead, SealRead
  <1>2. merkleRoot = Final => merkleRoot' = Final
    BY DEF RootMoves
  <1>3. rootFrozen => rootFrozen'
    BY DEF RootMoves
  <1> QED
    BY <1>1, <1>2, <1>3 DEF ToolIsRight

\* So does what the client has read.
LEMMA OfferStays ==
    ASSUME OfferIsRight, RootMoves, UNCHANGED <<visit, published>>
    PROVE  OfferIsRight'
  <1>1. merkleRoot = Final => merkleRoot' = Final
    BY DEF RootMoves
  <1>2. rootFrozen => rootFrozen'
    BY DEF RootMoves
  <1> QED
    BY <1>1, <1>2 DEF OfferIsRight

\* The batches are about root and seal.
LEMMA BatchesStay ==
    ASSUME BatchesAreRight, UNCHANGED <<merkleRoot, rootFrozen, batches, manifest, chainOf>>
    PROVE  BatchesAreRight'
  BY DEF BatchesAreRight, ToolRoot

\* The subgraph is about the registry.
LEMMA IndexStays ==
    ASSUME IndexIsBehind, UNCHANGED <<discountVars, chainOf, registryOwner, indexVars>>
    PROVE  IndexIsBehind'
  BY DEF IndexIsBehind, discountVars, indexVars

\* A transaction that emits an event.
LEMMA EmitKeeps ==
    ASSUME CampaignTyped, IndexIsBehind, NEW kind, NEW value, EmitEvent(kind, value),
           [kind |-> kind, value |-> value] \in CampaignEvent, UNCHANGED <<chainOf, indexed>>,
           IF kind = "root" THEN merkleRoot' = value ELSE UNCHANGED merkleRoot,
           IF kind = "frozen" THEN rootFrozen' = TRUE /\ value = merkleRoot ELSE UNCHANGED rootFrozen,
           IF kind = "active" THEN discountActive' = value ELSE UNCHANGED discountActive,
           IF kind = "owner" THEN registryOwner' = value ELSE UNCHANGED registryOwner,
           IF kind = "used" THEN used' = used \cup {value} ELSE UNCHANGED used,
           IF kind = "authorized"
             THEN authorizedControllers' = IF value[2] THEN authorizedControllers \cup {value[1]}
                                                       ELSE authorizedControllers \ {value[1]}
             ELSE UNCHANGED authorizedControllers
    PROVE  IndexIsBehind' /\ emitted' \in Seq(CampaignEvent)
  <1>1. CASE chainOf = "testnet"
    BY <1>1 DEF EmitEvent, IndexIsBehind, CampaignTyped
  <1>2. CASE chainOf = "mainnet"
    <2>1. PICK e \in CampaignEvent : e = [kind |-> kind, value |-> value]
      OBVIOUS
    <2>2. e.kind = kind /\ e.value = value
      BY <2>1
    <2>3. emitted \in Seq(CampaignEvent) /\ emitted' = Append(emitted, e)
      BY <1>2, <2>1 DEF EmitEvent, CampaignTyped
    <2>4. emitted' \in Seq(CampaignEvent)
      BY <2>3, AppendProperties
    <2>5. kind \in {"root", "frozen", "active", "owner", "authorized", "used"}
      BY <2>1 DEF CampaignEvent
    <2>6. ASSUME NEW topic, NEW v, NEW w, NEW before, LastSays(emitted, topic, v, before),
                 IF EventTopic(e) = topic THEN w = EventSays(e) ELSE w = v
          PROVE  LastSays(emitted', topic, w, before)
      BY <2>3, <2>6, LastSaysAppend
    <2>7. LastSays(emitted', <<"root", NoRoot>>, merkleRoot', indexed.root)
      <3>1. LastSays(emitted, <<"root", NoRoot>>, merkleRoot, indexed.root)
        BY <1>2 DEF IndexIsBehind
      <3>2. IF EventTopic(e) = <<"root", NoRoot>> THEN merkleRoot' = EventSays(e) ELSE merkleRoot' = merkleRoot
        BY <2>2, <2>5 DEF EventTopic, EventSays
      <3> QED
        BY <2>6, <3>1, <3>2
    <2>8. LastSays(emitted', <<"active", NoRoot>>, discountActive', indexed.active)
      <3>1. LastSays(emitted, <<"active", NoRoot>>, discountActive, indexed.active)
        BY <1>2 DEF IndexIsBehind
      <3>2. IF EventTopic(e) = <<"active", NoRoot>> THEN discountActive' = EventSays(e)
                                                    ELSE discountActive' = discountActive
        BY <2>2, <2>5 DEF EventTopic, EventSays
      <3> QED
        BY <2>6, <3>1, <3>2
    <2>9. LastSays(emitted', <<"owner", NoRoot>>, registryOwner', indexed.owner)
      <3>1. LastSays(emitted, <<"owner", NoRoot>>, registryOwner, indexed.owner)
        BY <1>2 DEF IndexIsBehind
      <3>2. IF EventTopic(e) = <<"owner", NoRoot>> THEN registryOwner' = EventSays(e)
                                                   ELSE registryOwner' = registryOwner
        BY <2>2, <2>5 DEF EventTopic, EventSays
      <3> QED
        BY <2>6, <3>1, <3>2
    <2>10. ASSUME NEW c \in Caller
           PROVE  LastSays(emitted', <<"authorized", c>>,
                           authorizedControllers' \cap {c}, indexed.authorized \cap {c})
      <3>1. LastSays(emitted, <<"authorized", c>>, authorizedControllers \cap {c}, indexed.authorized \cap {c})
        BY <1>2 DEF IndexIsBehind
      <3>2. CASE kind = "authorized" /\ value[1] = c
        <4>1. EventTopic(e) = <<"authorized", c>> /\ EventSays(e) = IF value[2] THEN {c} ELSE {}
          BY <2>2, <3>2 DEF EventTopic, EventSays
        <4>2. authorizedControllers' \cap {c} = IF value[2] THEN {c} ELSE {}
          BY <3>2
        <4> QED
          BY <2>6, <3>1, <4>1, <4>2
      <3>3. CASE ~(kind = "authorized" /\ value[1] = c)
        <4>1. EventTopic(e) # <<"authorized", c>>
          BY <2>2, <2>5, <3>3 DEF EventTopic
        <4>2. authorizedControllers' \cap {c} = authorizedControllers \cap {c}
          BY <3>3
        <4> QED
          BY <2>6, <3>1, <4>1, <4>2
      <3> QED
        BY <3>2, <3>3
    <2>11. ASSUME NEW w \in Wallet
           PROVE  LastSays(emitted', <<"used", w>>, used' \cap {w}, indexed.consumed \cap {w})
      <3>1. LastSays(emitted, <<"used", w>>, used \cap {w}, indexed.consumed \cap {w})
        BY <1>2 DEF IndexIsBehind
      <3>2. CASE kind = "used" /\ value = w
        <4>1. EventTopic(e) = <<"used", w>> /\ EventSays(e) = {w} /\ used' \cap {w} = {w}
          BY <2>2, <3>2 DEF EventTopic, EventSays
        <4> QED
          BY <2>6, <3>1, <4>1
      <3>3. CASE ~(kind = "used" /\ value = w)
        <4>1. EventTopic(e) # <<"used", w>>
          BY <2>2, <2>5, <3>3 DEF EventTopic
        <4>2. used' \cap {w} = used \cap {w}
          BY <3>3
        <4> QED
          BY <2>6, <3>1, <4>1, <4>2
      <3> QED
        BY <3>2, <3>3
    <2>12. rootFrozen' <=> indexed.frozen \/ \E i \in 1..Len(emitted') : emitted'[i].kind = "frozen"
      <3>1. PICK n \in Nat : n = Len(emitted)
        BY <2>3
      <3>2. Len(emitted') = n + 1 /\ emitted'[n + 1] = e /\ \A i \in 1..n : emitted'[i] = emitted[i]
        BY <2>3, <3>1
      <3>3. (\E i \in 1..Len(emitted') : emitted'[i].kind = "frozen")
               <=> kind = "frozen" \/ \E i \in 1..n : emitted[i].kind = "frozen"
        <4>1. \A i \in 1..(n + 1) : i \in 1..n \/ i = n + 1
          OBVIOUS
        <4>2. n + 1 \in 1..(n + 1) /\ \A i \in 1..n : i \in 1..(n + 1)
          OBVIOUS
        <4> QED
          BY <2>2, <3>2, <4>1, <4>2
      <3>4. rootFrozen <=> indexed.frozen \/ \E i \in 1..n : emitted[i].kind = "frozen"
        BY <1>2, <3>1 DEF IndexIsBehind
      <3> QED
        BY <3>3, <3>4
    <2> QED
      BY <2>4, <2>7, <2>8, <2>9, <2>10, <2>11, <2>12 DEF IndexIsBehind
  <1> QED
    BY <1>1, <1>2 DEF CampaignTyped

\* The subgraph's handlers.
LEMMA IndexKeeps ==
    ASSUME CampaignTyped, IndexIsBehind, IndexEvent
    PROVE  IndexIsBehind' /\ emitted' \in Seq(CampaignEvent) /\ indexed' \in IndexShape
  <1>1. emitted # <<>> /\ emitted \in Seq(CampaignEvent) /\ emitted' = Tail(emitted)
    BY DEF IndexEvent, CampaignTyped
  <1>2. PICK e \in CampaignEvent : e = Head(emitted) /\ e = emitted[1]
    BY <1>1
  <1>3. UNCHANGED <<chainOf, merkleRoot, rootFrozen, discountActive, registryOwner, used, authorizedControllers>>
    BY DEF IndexEvent, discountVars, wiringVars
  <1>4. emitted' \in Seq(CampaignEvent)
    BY <1>1, HeadTailProperties
  <1>5. e.kind \in {"root", "frozen", "active", "owner", "authorized", "used"}
    BY DEF CampaignEvent
  <1>6. indexed \in IndexShape
    BY DEF CampaignTyped
  <1>7. indexed' = CASE e.kind = "root"   -> [indexed EXCEPT !.root = e.value]
                     [] e.kind = "frozen" -> [indexed EXCEPT !.root = e.value, !.frozen = TRUE]
                     [] e.kind = "active" -> [indexed EXCEPT !.active = e.value]
                     [] e.kind = "owner"  -> [indexed EXCEPT !.owner = e.value]
                     [] e.kind = "used"   -> [indexed EXCEPT !.consumed = @ \cup {e.value}]
                     [] e.kind = "authorized" ->
                          [indexed EXCEPT !.authorized = IF e.value[2] THEN @ \cup {e.value[1]}
                                                                       ELSE @ \ {e.value[1]}]
    BY <1>2 DEF IndexEvent
  <1>8. /\ e.kind \in {"root", "frozen"} => e.value \in CampaignRoots
        /\ e.kind = "active" => e.value \in BOOLEAN
        /\ e.kind = "owner" => e.value = "safe"
        /\ e.kind = "used" => e.value \in Wallet
        /\ e.kind = "authorized" => e.value \in Caller \X BOOLEAN
    BY DEF CampaignEvent
  <1>9. indexed' \in IndexShape
    <2>1. CASE e.kind \in {"root", "frozen"}
      BY <1>6, <1>7, <1>8, <2>1 DEF IndexShape
    <2>2. CASE e.kind \in {"active", "owner"}
      BY <1>6, <1>7, <1>8, <2>2 DEF IndexShape
    <2>3. CASE e.kind = "used"
      BY <1>6, <1>7, <1>8, <2>3 DEF IndexShape
    <2>4. CASE e.kind = "authorized"
      BY <1>6, <1>7, <1>8, <2>4 DEF IndexShape
    <2> QED
      BY <1>5, <2>1, <2>2, <2>3, <2>4
  <1>10. /\ indexed'.root = IF e.kind \in {"root", "frozen"} THEN e.value ELSE indexed.root
         /\ indexed'.frozen = IF e.kind = "frozen" THEN TRUE ELSE indexed.frozen
         /\ indexed'.active = IF e.kind = "active" THEN e.value ELSE indexed.active
         /\ indexed'.owner = IF e.kind = "owner" THEN e.value ELSE indexed.owner
    BY <1>5, <1>6, <1>7 DEF IndexShape
  <1>11. /\ indexed'.consumed = IF e.kind = "used" THEN indexed.consumed \cup {e.value} ELSE indexed.consumed
         /\ indexed'.authorized = IF e.kind = "authorized"
                                    THEN IF e.value[2] THEN indexed.authorized \cup {e.value[1]}
                                                       ELSE indexed.authorized \ {e.value[1]}
                                    ELSE indexed.authorized
    BY <1>5, <1>6, <1>7 DEF IndexShape
  <1>12. CASE chainOf = "testnet"
    BY <1>3, <1>4, <1>9, <1>12 DEF IndexIsBehind
  <1>13. CASE chainOf = "mainnet"
    <2>1. ASSUME NEW topic, NEW v, NEW before, NEW b, LastSays(emitted, topic, v, before),
                 IF EventTopic(e) = topic THEN b = EventSays(e) ELSE b = before
          PROVE  LastSays(emitted', topic, v, b)
      BY <1>1, <1>2, <2>1, LastSaysTail
    <2>2. LastSays(emitted', <<"root", NoRoot>>, merkleRoot', indexed'.root)
      <3>1. LastSays(emitted, <<"root", NoRoot>>, merkleRoot, indexed.root)
        BY <1>13 DEF IndexIsBehind
      <3>2. IF EventTopic(e) = <<"root", NoRoot>> THEN indexed'.root = EventSays(e)
                                                  ELSE indexed'.root = indexed.root
        BY <1>5, <1>10 DEF EventTopic, EventSays
      <3> QED
        BY <1>3, <2>1, <3>1, <3>2
    <2>3. LastSays(emitted', <<"active", NoRoot>>, discountActive', indexed'.active)
      <3>1. LastSays(emitted, <<"active", NoRoot>>, discountActive, indexed.active)
        BY <1>13 DEF IndexIsBehind
      <3>2. IF EventTopic(e) = <<"active", NoRoot>> THEN indexed'.active = EventSays(e)
                                                    ELSE indexed'.active = indexed.active
        BY <1>5, <1>10 DEF EventTopic, EventSays
      <3> QED
        BY <1>3, <2>1, <3>1, <3>2
    <2>4. LastSays(emitted', <<"owner", NoRoot>>, registryOwner', indexed'.owner)
      <3>1. LastSays(emitted, <<"owner", NoRoot>>, registryOwner, indexed.owner)
        BY <1>13 DEF IndexIsBehind
      <3>2. IF EventTopic(e) = <<"owner", NoRoot>> THEN indexed'.owner = EventSays(e)
                                                   ELSE indexed'.owner = indexed.owner
        BY <1>5, <1>10 DEF EventTopic, EventSays
      <3> QED
        BY <1>3, <2>1, <3>1, <3>2
    <2>5. ASSUME NEW c \in Caller
          PROVE  LastSays(emitted', <<"authorized", c>>,
                          authorizedControllers' \cap {c}, indexed'.authorized \cap {c})
      <3>1. LastSays(emitted, <<"authorized", c>>, authorizedControllers \cap {c}, indexed.authorized \cap {c})
        BY <1>13 DEF IndexIsBehind
      <3>2. CASE e.kind = "authorized" /\ e.value[1] = c
        <4>1. EventTopic(e) = <<"authorized", c>> /\ EventSays(e) = IF e.value[2] THEN {c} ELSE {}
          BY <3>2 DEF EventTopic, EventSays
        <4>2. indexed'.authorized \cap {c} = IF e.value[2] THEN {c} ELSE {}
          BY <1>11, <3>2
        <4> QED
          BY <1>3, <2>1, <3>1, <4>1, <4>2
      <3>3. CASE ~(e.kind = "authorized" /\ e.value[1] = c)
        <4>1. EventTopic(e) # <<"authorized", c>>
          BY <1>5, <3>3 DEF EventTopic
        <4>2. indexed'.authorized \cap {c} = indexed.authorized \cap {c}
          BY <1>11, <3>3
        <4> QED
          BY <1>3, <2>1, <3>1, <4>1, <4>2
      <3> QED
        BY <3>2, <3>3
    <2>6. ASSUME NEW w \in Wallet
          PROVE  LastSays(emitted', <<"used", w>>, used' \cap {w}, indexed'.consumed \cap {w})
      <3>1. LastSays(emitted, <<"used", w>>, used \cap {w}, indexed.consumed \cap {w})
        BY <1>13 DEF IndexIsBehind
      <3>2. CASE e.kind = "used" /\ e.value = w
        <4>1. EventTopic(e) = <<"used", w>> /\ EventSays(e) = {w} /\ indexed'.consumed \cap {w} = {w}
          BY <1>11, <3>2 DEF EventTopic, EventSays
        <4> QED
          BY <1>3, <2>1, <3>1, <4>1
      <3>3. CASE ~(e.kind = "used" /\ e.value = w)
        <4>1. EventTopic(e) # <<"used", w>>
          BY <1>5, <3>3 DEF EventTopic
        <4>2. indexed'.consumed \cap {w} = indexed.consumed \cap {w}
          BY <1>11, <3>3
        <4> QED
          BY <1>3, <2>1, <3>1, <4>1, <4>2
      <3> QED
        BY <3>2, <3>3
    <2>7. rootFrozen' <=> indexed'.frozen \/ \E i \in 1..Len(emitted') : emitted'[i].kind = "frozen"
      <3>1. PICK n \in Nat : Len(emitted) = n + 1
        <4>1. Len(emitted) \in Nat /\ Len(emitted) # 0
          BY <1>1
        <4> QED
          BY <4>1
      <3>2. Len(emitted') = n /\ \A i \in 1..n : emitted'[i] = emitted[i + 1]
        BY <1>1, <3>1
      <3>3. (\E i \in 1..(n + 1) : emitted[i].kind = "frozen")
               <=> e.kind = "frozen" \/ \E i \in 1..n : emitted'[i].kind = "frozen"
        <4>1. ASSUME NEW i \in 1..(n + 1), emitted[i].kind = "frozen", e.kind # "frozen"
              PROVE  \E j \in 1..n : emitted'[j].kind = "frozen"
          <5>1. i # 1
            BY <1>2, <4>1
          <5>2. i - 1 \in 1..n /\ emitted'[i - 1] = emitted[i]
            BY <3>2, <5>1
          <5> QED
            BY <4>1, <5>2
        <4>2. ASSUME NEW i \in 1..n, emitted'[i].kind = "frozen"
              PROVE  i + 1 \in 1..(n + 1) /\ emitted[i + 1].kind = "frozen"
          BY <3>2, <4>2
        <4>3. 1 \in 1..(n + 1)
          OBVIOUS
        <4> QED
          BY <1>2, <4>1, <4>2, <4>3
      <3>4. rootFrozen <=> indexed.frozen \/ \E i \in 1..(n + 1) : emitted[i].kind = "frozen"
        BY <1>13, <3>1 DEF IndexIsBehind
      <3> QED
        BY <1>3, <1>10, <3>2, <3>3, <3>4
    <2> QED
      BY <1>3, <1>4, <1>9, <2>2, <2>3, <2>4, <2>5, <2>6, <2>7 DEF IndexIsBehind
  <1> QED
    BY <1>12, <1>13 DEF CampaignTyped
------------------------------------------------------------------------------
(* What each step of the campaign keeps.                                     *)

\* The three calls, with the finalized root.
LEMMA CallKeeps ==
    ASSUME CampaignTyped, IndexIsBehind, NEW op \in Writes, CampaignCall(op, Final),
           UNCHANGED <<chainOf, registryOwner, indexed>>
    PROVE  /\ RootMoves /\ IndexIsBehind' /\ emitted' \in Seq(CampaignEvent)
           /\ merkleRoot' \in CampaignRoots /\ rootFrozen' \in BOOLEAN /\ discountActive' \in BOOLEAN
           /\ UNCHANGED <<used, authorizedControllers>>
           /\ op = "set-root" => merkleRoot' = Final
           /\ op = "freeze-root" => rootFrozen' = TRUE /\ merkleRoot # NoRoot /\ UNCHANGED merkleRoot
           /\ op = "activate" => UNCHANGED <<merkleRoot, rootFrozen>>
           /\ op # "freeze-root" => UNCHANGED rootFrozen
  <1>1. merkleRoot \in CampaignRoots /\ rootFrozen \in BOOLEAN /\ discountActive \in BOOLEAN
    BY DEF CampaignTyped
  <1>2. CASE op = "set-root"
    <2>1. SetMerkleRoot(DiscountOwner, Final) /\ EmitEvent("root", Final)
      BY <1>2 DEF CampaignCall
    <2>2. [kind |-> "root", value |-> Final] \in CampaignEvent
      BY DEF CampaignEvent, CampaignRoots
    <2>3. ~rootFrozen /\ merkleRoot' = Final
          /\ UNCHANGED <<discountActive, rootFrozen, used, authorizedControllers>>
      BY <2>1 DEF SetMerkleRoot
    <2>4. IndexIsBehind' /\ emitted' \in Seq(CampaignEvent)
      BY <2>1, <2>2, <2>3, EmitKeeps
    <2> QED
      BY <1>1, <1>2, <2>3, <2>4 DEF RootMoves, CampaignRoots
  <1>3. CASE op = "freeze-root"
    <2>1. FreezeRoot(DiscountOwner) /\ EmitEvent("frozen", merkleRoot)
      BY <1>3 DEF CampaignCall
    <2>2. [kind |-> "frozen", value |-> merkleRoot] \in CampaignEvent
      BY <1>1 DEF CampaignEvent
    <2>3. ~rootFrozen /\ merkleRoot # NoRoot /\ rootFrozen' = TRUE
          /\ UNCHANGED <<merkleRoot, discountActive, used, authorizedControllers>>
      BY <2>1 DEF FreezeRoot
    <2>4. IndexIsBehind' /\ emitted' \in Seq(CampaignEvent)
      BY <2>1, <2>2, <2>3, EmitKeeps
    <2> QED
      BY <1>1, <1>3, <2>3, <2>4 DEF RootMoves
  <1>4. CASE op = "activate"
    <2>1. SetDiscountActive(DiscountOwner, TRUE) /\ EmitEvent("active", TRUE)
      BY <1>4 DEF CampaignCall
    <2>2. [kind |-> "active", value |-> TRUE] \in CampaignEvent
      BY DEF CampaignEvent
    <2>3. discountActive' = TRUE /\ UNCHANGED <<merkleRoot, rootFrozen, used, authorizedControllers>>
      BY <2>1 DEF SetDiscountActive
    <2>4. IndexIsBehind' /\ emitted' \in Seq(CampaignEvent)
      BY <2>1, <2>2, <2>3, EmitKeeps
    <2> QED
      BY <1>1, <1>4, <2>3, <2>4 DEF RootMoves
  <1> QED
    BY <1>2, <1>3, <1>4 DEF Writes

\* A script that only reads.
LEMMA ReadingKeeps ==
    ASSUME CampaignInv, ToolOnly, ToolIsRight',
           tool' \in [kind : ToolKinds, left : SUBSET ToolValues, at : ToolStages]
    PROVE  CampaignInv'
  <1> USE DEF ToolOnly, discountVars, wiringVars, visitVars, indexVars
  <1>1. CampaignTyped'
    BY DEF CampaignInv, CampaignTyped
  <1>2. BatchesAreRight'
    BY BatchesStay DEF CampaignInv
  <1>3. OfferIsRight'
    BY OfferStays DEF CampaignInv, RootMoves
  <1>4. IndexIsBehind'
    BY IndexStays DEF CampaignInv
  <1> QED
    BY <1>1, <1>2, <1>3, <1>4 DEF CampaignInv

\* A script starts and has read nothing.
LEMMA StartToolKeeps ==
    ASSUME CampaignInv, NEW kind \in Writes \cup STAGES \cup {"prepare", "verify-preparation"}, StartTool(kind)
    PROVE  CampaignInv'
  <1>1. tool' = [kind |-> kind, at |-> "reading",
                 left |-> IF kind = "prepare" THEN {"implementation"} ELSE Checks(kind)]
        /\ passed' = passed /\ ToolOnly
    BY DEF StartTool
  <1>2. Checks(kind) \subseteq ToolValues /\ "root" \in Checks(kind) /\ "frozen" \in Checks(kind)
    <2>1. \A value \in Checks(kind) : value \in ToolValues
      BY SMT DEF Checks, ToolValues
    <2>2. "root" \in Checks(kind) /\ "frozen" \in Checks(kind)
      BY SMT DEF Checks
    <2> QED
      BY <2>1, <2>2
  <1>3. kind \in Writes \cup STAGES => chainOf = "mainnet" /\ ToolRoot # NoRoot
    BY DEF StartTool, Writes, STAGES
  <1>4. kind = "prepare" => chainOf = "testnet"
    BY DEF StartTool, Writes, STAGES
  <1>5. tool' \in [kind : ToolKinds, left : SUBSET ToolValues, at : ToolStages]
    BY <1>1, <1>2 DEF ToolKinds, ToolStages, ToolValues
  <1>6. UNCHANGED <<merkleRoot, rootFrozen, chainOf, manifest>>
    BY <1>1 DEF ToolOnly, discountVars, wiringVars
  <1>7. ToolRoot' = ToolRoot /\ (ToolRoot # NoRoot => ToolRoot = Final)
    BY <1>6 DEF ToolRoot
  <1>8. ToolIsRight'
    <2>1. tool'.kind = kind /\ tool'.at = "reading"
      BY <1>1
    <2>2. kind # "prepare" => "root" \in tool'.left /\ "frozen" \in tool'.left
      BY <1>1, <1>2
    <2>3. ~RootRead' /\ ~SealRead'
      BY <2>1, <2>2 DEF RootRead, SealRead
    <2>4. passed \in {"freeze-root", "activate", "frozen", "active"} => rootFrozen /\ merkleRoot = Final
      BY DEF CampaignInv, ToolIsRight
    <2> QED
      BY <1>1, <1>3, <1>4, <1>6, <1>7, <2>1, <2>3, <2>4 DEF ToolIsRight
  <1> QED
    BY <1>1, <1>5, <1>8, ReadingKeeps

\* A script reads one value, which is as expected or ends it.
LEMMA ReadValueKeeps ==
    ASSUME CampaignInv, NEW value \in ToolValues, ReadValue(value)
    PROVE  CampaignInv'
  <1>1. tool.at \in {"reading", "reading back"} /\ passed' = passed /\ ToolOnly
    BY DEF ReadValue
  <1>2. tool \in [kind : ToolKinds, left : SUBSET ToolValues, at : ToolStages]
    BY DEF CampaignInv, CampaignTyped
  <1>3. UNCHANGED <<merkleRoot, rootFrozen, chainOf, manifest>>
    BY <1>1 DEF ToolOnly, discountVars, wiringVars
  <1>4. ToolRoot' = ToolRoot
    BY <1>3 DEF ToolRoot
  <1>5. ToolIsRight
    BY DEF CampaignInv
  <1>6. CASE tool' = NoTool
    <2>1. tool' \in [kind : ToolKinds, left : SUBSET ToolValues, at : ToolStages]
      BY <1>6 DEF NoTool, ToolKinds, ToolStages
    <2>2. tool'.kind = "none" /\ tool'.at = "idle"
      BY <1>6 DEF NoTool
    <2>3. ToolIsRight'
      BY <1>1, <1>3, <1>5, <2>2 DEF ToolIsRight, Writes, STAGES
    <2> QED
      BY <1>1, <2>1, <2>3, ReadingKeeps
  <1>7. CASE tool' # NoTool
    <2>1. /\ tool' = [tool EXCEPT !.left = @ \ {value}]
          /\ IF tool.at = "reading" THEN Holds(tool.kind, value) ELSE HoldsAfter(tool.kind, value)
      BY <1>7 DEF ReadValue
    <2>2. tool'.kind = tool.kind /\ tool'.at = tool.at /\ tool'.left = tool.left \ {value}
      BY <1>2, <2>1
    <2>3. tool' \in [kind : ToolKinds, left : SUBSET ToolValues, at : ToolStages]
      BY <1>2, <2>1
    <2>4. ASSUME tool.at = "reading", RootRead'
          PROVE  merkleRoot = Final
      <3>1. CASE RootRead
        BY <1>5, <2>4, <3>1 DEF ToolIsRight
      <3>2. CASE ~RootRead
        <4>1. value = "root" /\ tool.kind \in {"freeze-root", "activate", "root-set", "frozen", "active"}
          BY <2>2, <2>4, <3>2 DEF RootRead
        <4>2. Holds(tool.kind, "root")
          BY <2>1, <2>4, <4>1
        <4>3. merkleRoot = ToolRoot
          BY <4>1, <4>2 DEF Holds
        <4>4. ToolRoot = Final
          BY <1>5, <4>1 DEF ToolIsRight, Writes, STAGES
        <4> QED
          BY <4>3, <4>4
      <3> QED
        BY <3>1, <3>2
    <2>5. ASSUME tool.at = "reading", SealRead'
          PROVE  rootFrozen
      <3>1. CASE SealRead
        BY <1>5, <2>5, <3>1 DEF ToolIsRight
      <3>2. CASE ~SealRead
        <4>1. value = "frozen" /\ tool.kind \in {"activate", "frozen", "active"}
          BY <2>2, <2>5, <3>2 DEF SealRead
        <4>2. Holds(tool.kind, "frozen")
          BY <2>1, <2>5, <4>1
        <4> QED
          BY <4>1, <4>2 DEF Holds
      <3> QED
        BY <3>1, <3>2
    <2>6. ToolIsRight'
      BY <1>1, <1>3, <1>4, <1>5, <2>2, <2>4, <2>5 DEF ToolIsRight
    <2> QED
      BY <1>1, <2>3, <2>6, ReadingKeeps
  <1> QED
    BY <1>6, <1>7

\* A script has read everything: it sends, or passes.
LEMMA EndReadingKeeps ==
    ASSUME CampaignInv, EndReading
    PROVE  CampaignInv'
  <1>1. tool.at \in {"reading", "reading back"} /\ tool.left = {} /\ ToolOnly
    BY DEF EndReading
  <1>2. tool \in [kind : ToolKinds, left : SUBSET ToolValues, at : ToolStages]
    BY DEF CampaignInv, CampaignTyped
  <1>3. UNCHANGED <<merkleRoot, rootFrozen, chainOf, manifest>>
    BY <1>1 DEF ToolOnly, discountVars, wiringVars
  <1>4. ToolRoot' = ToolRoot
    BY <1>3 DEF ToolRoot
  <1>5. ToolIsRight
    BY DEF CampaignInv
  <1>6. DOMAIN ReadBack = Writes \cup {"prepare"}
    BY DEF ReadBack
  <1>7. tool.at = "reading" =>
          /\ tool.kind \in {"freeze-root", "activate", "frozen", "active"} => merkleRoot = Final
          /\ tool.kind \in {"activate", "frozen", "active"} => rootFrozen
    BY <1>1, <1>5 DEF ToolIsRight, RootRead, SealRead
  <1>8. CASE tool.at = "reading" /\ tool.kind \in Writes \cup {"prepare"}
    <2>1. tool' = [tool EXCEPT !.at = "sent"] /\ passed' = passed
      BY <1>6, <1>8 DEF EndReading
    <2>2. tool'.kind = tool.kind /\ tool'.at = "sent"
      BY <1>2, <2>1
    <2>3. tool' \in [kind : ToolKinds, left : SUBSET ToolValues, at : ToolStages]
      BY <1>2, <2>1 DEF ToolStages
    <2>4. ToolIsRight'
      BY <1>3, <1>4, <1>5, <1>7, <1>8, <2>1, <2>2 DEF ToolIsRight
    <2> QED
      BY <1>1, <2>3, <2>4, ReadingKeeps
  <1>9. CASE ~(tool.at = "reading" /\ tool.kind \in Writes \cup {"prepare"})
    <2>1. tool' = NoTool /\ passed' = tool.kind
      BY <1>6, <1>9 DEF EndReading
    <2>2. tool' \in [kind : ToolKinds, left : SUBSET ToolValues, at : ToolStages]
      BY <2>1 DEF NoTool, ToolKinds, ToolStages
    <2>3. tool'.kind = "none" /\ tool'.at = "idle"
      BY <2>1 DEF NoTool
    <2>4. passed' \in {"freeze-root", "activate", "frozen", "active"} => rootFrozen /\ merkleRoot = Final
      <3>1. CASE tool.at = "reading"
        BY <1>7, <1>9, <2>1, <3>1 DEF Writes
      <3>2. CASE tool.at = "reading back"
        BY <1>5, <2>1, <3>2 DEF ToolIsRight, Writes
      <3> QED
        BY <1>1, <3>1, <3>2
    <2>5. ToolIsRight'
      BY <1>3, <2>3, <2>4 DEF ToolIsRight, Writes, STAGES
    <2> QED
      BY <1>1, <2>2, <2>5, ReadingKeeps
  <1> QED
    BY <1>8, <1>9

\* The deployer's transaction is included, after what the script has read.
LEMMA IncludeKeeps ==
    ASSUME CampaignInv, Include
    PROVE  CampaignInv'
  <1> DEFINE sent == registryOwner = "deployer" /\ ~Reverted(tool.kind)
  <1>1. /\ tool.at = "sent" /\ tool.kind \in Writes
        /\ UNCHANGED <<chainOf, manifest, registryOwner, pointing, passed,
                       batches, published, visit, indexed>>
    BY DEF Include, wiringVars, visitVars
  <1>2. ToolIsRight /\ BatchesAreRight /\ OfferIsRight /\ IndexIsBehind /\ CampaignTyped
    BY DEF CampaignInv
  <1>3. /\ chainOf = "mainnet" /\ ToolRoot = Final
        /\ tool.kind \in {"freeze-root", "activate"} => merkleRoot = Final
        /\ tool.kind = "activate" => rootFrozen
    BY <1>1, <1>2 DEF ToolIsRight
  <1>4. ToolRoot' = ToolRoot
    BY <1>1 DEF ToolRoot
  <1>5. tool \in [kind : ToolKinds, left : SUBSET ToolValues, at : ToolStages]
    BY <1>2 DEF CampaignTyped
  <1>6. CASE sent
    <2>1. CampaignCall(tool.kind, Final)
      BY <1>3, <1>6 DEF Include
    <2>2. /\ RootMoves /\ IndexIsBehind' /\ emitted' \in Seq(CampaignEvent)
          /\ merkleRoot' \in CampaignRoots /\ rootFrozen' \in BOOLEAN /\ discountActive' \in BOOLEAN
          /\ UNCHANGED <<used, authorizedControllers>>
          /\ tool.kind = "set-root" => merkleRoot' = Final
          /\ tool.kind = "freeze-root" => rootFrozen' = TRUE /\ merkleRoot # NoRoot /\ UNCHANGED merkleRoot
          /\ tool.kind = "activate" => UNCHANGED <<merkleRoot, rootFrozen>>
          /\ tool.kind # "freeze-root" => UNCHANGED rootFrozen
      BY <1>1, <1>2, <2>1, CallKeeps
    <2>3. tool' \in {NoTool, [tool EXCEPT !.at = "reading back", !.left = ReadBack[tool.kind]]}
      BY <1>6 DEF Include
    <2>4. ReadBack[tool.kind] \subseteq ToolValues
      <3>1. ReadBack["set-root"] = {"root"}
        BY DEF ReadBack, Writes
      <3>2. ReadBack["freeze-root"] = {"root", "frozen"}
        BY DEF ReadBack, Writes
      <3>3. ReadBack["activate"] = {"active"}
        BY DEF ReadBack, Writes
      <3> QED
        BY <1>1, <3>1, <3>2, <3>3 DEF Writes, ToolValues
    <2>5. \/ tool'.kind = "none" /\ tool'.at = "idle"
          \/ tool'.kind = tool.kind /\ tool'.at = "reading back"
      <3>1. CASE tool' = NoTool
        BY <3>1 DEF NoTool
      <3>2. CASE tool' = [tool EXCEPT !.at = "reading back", !.left = ReadBack[tool.kind]]
        BY <1>5, <3>2
      <3> QED
        BY <2>3, <3>1, <3>2
    <2>6. tool' \in [kind : ToolKinds, left : SUBSET ToolValues, at : ToolStages]
      <3>1. CASE tool' = NoTool
        BY <3>1 DEF NoTool, ToolKinds, ToolStages
      <3>2. CASE tool' = [tool EXCEPT !.at = "reading back", !.left = ReadBack[tool.kind]]
        BY <1>5, <2>4, <3>2 DEF ToolStages
      <3> QED
        BY <2>3, <3>1, <3>2
    <2>7. rootFrozen /\ merkleRoot = Final => rootFrozen' /\ merkleRoot' = Final
      BY <2>2 DEF RootMoves
    <2>8. ToolIsRight'
      <3>1. passed' \in {"freeze-root", "activate", "frozen", "active"} => rootFrozen' /\ merkleRoot' = Final
        BY <1>1, <1>2, <2>7 DEF ToolIsRight
      <3>2. CASE tool'.kind = "none" /\ tool'.at = "idle"
        BY <3>1, <3>2 DEF ToolIsRight, Writes, STAGES
      <3>3. CASE tool'.kind = tool.kind /\ tool'.at = "reading back"
        <4>1. tool.kind \in {"freeze-root", "activate"} => merkleRoot' = Final /\ rootFrozen'
          BY <1>3, <2>2
        <4> QED
          BY <1>1, <1>3, <1>4, <3>1, <3>3, <4>1 DEF ToolIsRight, Writes
      <3> QED
        BY <2>5, <3>2, <3>3
    <2>9. BatchesAreRight'
      <3>1. merkleRoot = Final => merkleRoot' = Final
        BY <2>2 DEF RootMoves
      <3>2. rootFrozen' /\ merkleRoot' # Final => rootFrozen /\ merkleRoot # Final
        BY <1>1, <1>3, <2>2, <3>1 DEF Writes
      <3> QED
        BY <1>1, <1>2, <1>3, <1>4, <3>1, <3>2 DEF BatchesAreRight
    <2>10. OfferIsRight'
      BY <1>1, <1>2, <2>2, OfferStays
    <2>11. CampaignTyped'
      BY <1>1, <1>2, <2>2, <2>6 DEF CampaignTyped
    <2> QED
      BY <2>2, <2>8, <2>9, <2>10, <2>11 DEF CampaignInv
  <1>7. CASE ~sent
    <2>1. tool' = NoTool /\ UNCHANGED <<discountVars, emitted>>
      BY <1>7 DEF Include
    <2>2. tool'.kind = "none" /\ tool'.at = "idle"
      BY <2>1 DEF NoTool
    <2>3. tool' \in [kind : ToolKinds, left : SUBSET ToolValues, at : ToolStages]
      BY <2>1 DEF NoTool, ToolKinds, ToolStages
    <2>4. UNCHANGED <<merkleRoot, rootFrozen, discountActive, used, authorizedControllers>>
      BY <2>1 DEF discountVars
    <2>5. ToolIsRight'
      BY <1>1, <1>2, <2>2, <2>4 DEF ToolIsRight, Writes, STAGES
    <2>6. BatchesAreRight'
      BY <1>1, <1>2, <2>4, BatchesStay
    <2>7. OfferIsRight'
      BY <1>1, <1>2, <2>4, OfferStays DEF RootMoves
    <2>8. IndexIsBehind'
      BY <1>1, <1>2, <2>1, IndexStays DEF indexVars
    <2>9. CampaignTyped'
      BY <1>1, <1>2, <2>1, <2>3, <2>4 DEF CampaignTyped
    <2> QED
      BY <2>5, <2>6, <2>7, <2>8, <2>9 DEF CampaignInv
  <1> QED
    BY <1>6, <1>7

\* The testnet's registry.
LEMMA PrepareTestnetKeeps ==
    ASSUME CampaignInv, PrepareTestnet
    PROVE  CampaignInv'
  <1>1. /\ tool.at = "sent" /\ tool.kind = "prepare"
        /\ tool' = [tool EXCEPT !.at = "reading back", !.left = ReadBack["prepare"]]
        /\ registryOwner' = "safe"
        /\ UNCHANGED <<merkleRoot, rootFrozen, discountActive, used, authorizedControllers>>
        /\ UNCHANGED <<chainOf, manifest, pointing, passed, batches,
                       published, visit, emitted, indexed>>
    BY DEF PrepareTestnet, discountVars, visitVars, indexVars
  <1>2. ToolIsRight /\ BatchesAreRight /\ OfferIsRight /\ IndexIsBehind /\ CampaignTyped
    BY DEF CampaignInv
  <1>3. tool \in [kind : ToolKinds, left : SUBSET ToolValues, at : ToolStages]
    BY <1>2 DEF CampaignTyped
  <1>4. tool'.kind = "prepare" /\ tool'.at = "reading back"
    BY <1>1, <1>3
  <1>5. ReadBack["prepare"] \subseteq ToolValues
    BY DEF ReadBack, Writes, ToolValues
  <1>6. tool' \in [kind : ToolKinds, left : SUBSET ToolValues, at : ToolStages]
    BY <1>1, <1>3, <1>5 DEF ToolStages
  <1>7. chainOf = "testnet"
    BY <1>1, <1>2 DEF ToolIsRight
  <1>8. ToolIsRight'
    BY <1>1, <1>2, <1>4, <1>7 DEF ToolIsRight, Writes, STAGES
  <1>9. BatchesAreRight'
    BY <1>1, <1>2, BatchesStay
  <1>10. OfferIsRight'
    BY <1>1, <1>2, OfferStays DEF RootMoves
  <1>11. IndexIsBehind'
    BY <1>1, <1>7 DEF IndexIsBehind
  <1>12. CampaignTyped'
    BY <1>1, <1>2, <1>6 DEF CampaignTyped
  <1> QED
    BY <1>8, <1>9, <1>10, <1>11, <1>12 DEF CampaignInv

\* The registry goes to the Safe.
LEMMA HandOverKeeps ==
    ASSUME CampaignInv, HandOver
    PROVE  CampaignInv'
  <1>1. /\ registryOwner' = "safe" /\ EmitEvent("owner", "safe")
        /\ UNCHANGED <<merkleRoot, rootFrozen, discountActive, used, authorizedControllers>>
        /\ UNCHANGED <<chainOf, manifest, pointing, tool, passed,
                       batches, published, visit, indexed>>
    BY DEF HandOver, discountVars, toolVars, visitVars
  <1>2. ToolIsRight /\ BatchesAreRight /\ OfferIsRight /\ IndexIsBehind /\ CampaignTyped
    BY DEF CampaignInv
  <1>3. [kind |-> "owner", value |-> "safe"] \in CampaignEvent
    BY DEF CampaignEvent
  <1>4. IndexIsBehind' /\ emitted' \in Seq(CampaignEvent)
    BY <1>1, <1>2, <1>3, EmitKeeps
  <1>5. ToolIsRight'
    BY <1>1, <1>2, ToolStays DEF RootMoves
  <1>6. BatchesAreRight'
    BY <1>1, <1>2, BatchesStay
  <1>7. OfferIsRight'
    BY <1>1, <1>2, OfferStays DEF RootMoves
  <1>8. CampaignTyped'
    BY <1>1, <1>2, <1>4 DEF CampaignTyped
  <1> QED
    BY <1>4, <1>5, <1>6, <1>7, <1>8 DEF CampaignInv

\* The controllers are upgraded, or name the registry or another.
LEMMA WiringKeeps ==
    ASSUME CampaignInv, pointing' \subseteq Caller,
           UNCHANGED <<discountVars, chainOf, manifest, registryOwner, toolVars, visitVars, indexVars>>
    PROVE  CampaignInv'
  <1>1. /\ UNCHANGED <<merkleRoot, rootFrozen, discountActive, used, authorizedControllers>>
        /\ UNCHANGED <<chainOf, manifest, registryOwner, tool, passed, batches,
                       published, visit, emitted, indexed>>
    BY DEF discountVars, toolVars, visitVars, indexVars
  <1>2. ToolIsRight /\ BatchesAreRight /\ OfferIsRight /\ IndexIsBehind /\ CampaignTyped
    BY DEF CampaignInv
  <1>3. ToolIsRight'
    BY <1>1, <1>2, ToolStays DEF RootMoves
  <1>4. BatchesAreRight'
    BY <1>1, <1>2, BatchesStay
  <1>5. OfferIsRight'
    BY <1>1, <1>2, OfferStays DEF RootMoves
  <1>6. IndexIsBehind'
    BY <1>1, <1>2, IndexStays DEF discountVars, indexVars
  <1>7. CampaignTyped'
    BY <1>1, <1>2 DEF CampaignTyped
  <1> QED
    BY <1>3, <1>4, <1>5, <1>6, <1>7 DEF CampaignInv

\* A controller may consume the discount or not.
LEMMA AuthorizeKeeps ==
    ASSUME CampaignInv, NEW c \in Caller, NEW ok \in BOOLEAN, Authorize(c, ok)
    PROVE  CampaignInv'
  <1>1. /\ authorizedControllers' = IF ok THEN authorizedControllers \cup {c} ELSE authorizedControllers \ {c}
        /\ EmitEvent("authorized", <<c, ok>>)
        /\ UNCHANGED <<merkleRoot, rootFrozen, discountActive, used>>
        /\ UNCHANGED <<chainOf, manifest, registryOwner, pointing, tool, passed,
                       batches, published, visit, indexed>>
    BY DEF Authorize, SetControllerAuthorization, wiringVars, toolVars, visitVars
  <1>2. ToolIsRight /\ BatchesAreRight /\ OfferIsRight /\ IndexIsBehind /\ CampaignTyped
    BY DEF CampaignInv
  <1>3. [kind |-> "authorized", value |-> <<c, ok>>] \in CampaignEvent
    BY DEF CampaignEvent
  <1>4. IndexIsBehind' /\ emitted' \in Seq(CampaignEvent)
    BY <1>1, <1>2, <1>3, EmitKeeps
  <1>5. ToolIsRight'
    BY <1>1, <1>2, ToolStays DEF RootMoves
  <1>6. BatchesAreRight'
    BY <1>1, <1>2, BatchesStay
  <1>7. OfferIsRight'
    BY <1>1, <1>2, OfferStays DEF RootMoves
  <1>8. CampaignTyped'
    BY <1>1, <1>2, <1>4 DEF CampaignTyped
  <1> QED
    BY <1>4, <1>5, <1>6, <1>7, <1>8 DEF CampaignInv

\* The campaign wires a controller.
LEMMA WireKeeps ==
    ASSUME CampaignInv, NEW c \in Caller, Wire(c)
    PROVE  CampaignInv'
  <1>1. CASE setDiscountRegistry(c, TRUE)
    <2>1. pointing' \subseteq Caller
      BY <1>1 DEF setDiscountRegistry, CampaignInv, CampaignTyped
    <2> QED
      BY <1>1, <2>1, WiringKeeps DEF setDiscountRegistry
  <1>2. CASE Authorize(c, TRUE)
    BY <1>2, AuthorizeKeeps
  <1> QED
    BY <1>1, <1>2 DEF Wire

\* Something is undone by hand.
LEMMA UndoKeeps ==
    ASSUME CampaignInv, Undo
    PROVE  CampaignInv'
  <1>1. pointing \subseteq Caller /\ authorizedControllers \subseteq Caller
    BY DEF CampaignInv, CampaignTyped
  <1>2. CASE \E c \in pointing : setDiscountRegistry(c, FALSE)
    <2>1. pointing' \subseteq Caller
      BY <1>1, <1>2 DEF setDiscountRegistry
    <2>2. UNCHANGED <<discountVars, chainOf, manifest, registryOwner, toolVars, visitVars, indexVars>>
      BY <1>2 DEF setDiscountRegistry
    <2> QED
      BY <2>1, <2>2, WiringKeeps
  <1>3. CASE \E c \in authorizedControllers : Authorize(c, FALSE)
    BY <1>1, <1>3, AuthorizeKeeps
  <1>4. CASE /\ discountActive /\ SetDiscountActive(DiscountOwner, FALSE) /\ EmitEvent("active", FALSE)
             /\ UNCHANGED <<wiringVars, toolVars, visitVars, indexed>>
    <2>1. /\ discountActive' = FALSE /\ EmitEvent("active", FALSE)
          /\ UNCHANGED <<merkleRoot, rootFrozen, used, authorizedControllers>>
          /\ UNCHANGED <<chainOf, manifest, registryOwner, pointing, tool, passed,
                         batches, published, visit, indexed>>
      BY <1>4 DEF SetDiscountActive, wiringVars, toolVars, visitVars
    <2>2. ToolIsRight /\ BatchesAreRight /\ OfferIsRight /\ IndexIsBehind /\ CampaignTyped
      BY DEF CampaignInv
    <2>3. [kind |-> "active", value |-> FALSE] \in CampaignEvent
      BY DEF CampaignEvent
    <2>4. IndexIsBehind' /\ emitted' \in Seq(CampaignEvent)
      BY <2>1, <2>2, <2>3, EmitKeeps
    <2>5. ToolIsRight'
      BY <2>1, <2>2, ToolStays DEF RootMoves
    <2>6. BatchesAreRight'
      BY <2>1, <2>2, BatchesStay
    <2>7. OfferIsRight'
      BY <2>1, <2>2, OfferStays DEF RootMoves
    <2>8. CampaignTyped'
      BY <2>1, <2>2, <2>4 DEF CampaignTyped
    <2> QED
      BY <2>4, <2>5, <2>6, <2>7, <2>8 DEF CampaignInv
  <1> QED
    BY <1>2, <1>3, <1>4 DEF Undo

\* The batches are written for the finalized root.
LEMMA GenerateBatchesKeeps ==
    ASSUME CampaignInv, GenerateBatches
    PROVE  CampaignInv'
  <1>1. /\ chainOf = "mainnet" /\ ToolRoot # NoRoot /\ batches = {} /\ batches' = Writes
        /\ UNCHANGED <<merkleRoot, rootFrozen, discountActive, used, authorizedControllers>>
        /\ UNCHANGED <<chainOf, manifest, registryOwner, pointing, tool, passed,
                       published, visit, emitted, indexed>>
    BY DEF GenerateBatches, discountVars, wiringVars, visitVars, indexVars
  <1>2. ToolIsRight /\ BatchesAreRight /\ OfferIsRight /\ IndexIsBehind /\ CampaignTyped
    BY DEF CampaignInv
  <1>3. ToolIsRight'
    BY <1>1, <1>2, ToolStays DEF RootMoves
  <1>4. BatchesAreRight'
    <2>1. ToolRoot' = Final
      BY <1>1 DEF ToolRoot
    <2>2. rootFrozen => merkleRoot = Final
      BY <1>1, <1>2 DEF BatchesAreRight
    <2> QED
      BY <1>1, <2>1, <2>2 DEF BatchesAreRight, Writes
  <1>5. OfferIsRight'
    BY <1>1, <1>2, OfferStays DEF RootMoves
  <1>6. IndexIsBehind'
    BY <1>1, <1>2, IndexStays DEF discountVars, indexVars
  <1>7. CampaignTyped'
    BY <1>1, <1>2 DEF CampaignTyped
  <1> QED
    BY <1>3, <1>4, <1>5, <1>6, <1>7 DEF CampaignInv

\* The Safe executes a batch, in whatever order.
LEMMA ExecuteBatchKeeps ==
    ASSUME CampaignInv, NEW b \in Writes, ExecuteBatch(b)
    PROVE  CampaignInv'
  <1>1. /\ chainOf = "testnet" \/ b \in batches
        /\ ~Reverted(b) /\ batches' = batches \ {b}
        /\ UNCHANGED <<chainOf, manifest, registryOwner, pointing, tool,
                       passed, published, visit, indexed>>
    BY DEF ExecuteBatch, wiringVars, visitVars
  <1>2. ToolIsRight /\ BatchesAreRight /\ OfferIsRight /\ IndexIsBehind /\ CampaignTyped
    BY DEF CampaignInv
  <1>3. chainOf # "testnet" => chainOf = "mainnet" /\ ToolRoot = Final
    BY <1>1, <1>2 DEF CampaignTyped, BatchesAreRight
  <1>4. CampaignCall(b, Final)
    BY <1>3 DEF ExecuteBatch
  <1>5. /\ RootMoves /\ IndexIsBehind' /\ emitted' \in Seq(CampaignEvent)
        /\ merkleRoot' \in CampaignRoots /\ rootFrozen' \in BOOLEAN /\ discountActive' \in BOOLEAN
        /\ UNCHANGED <<used, authorizedControllers>>
        /\ b = "set-root" => merkleRoot' = Final
        /\ b = "freeze-root" => rootFrozen' = TRUE /\ merkleRoot # NoRoot /\ UNCHANGED merkleRoot
        /\ b = "activate" => UNCHANGED <<merkleRoot, rootFrozen>>
        /\ b # "freeze-root" => UNCHANGED rootFrozen
    BY <1>1, <1>2, <1>4, CallKeeps
  <1>6. ToolIsRight'
    BY <1>1, <1>2, <1>5, ToolStays
  <1>7. BatchesAreRight'
    <2>1. ToolRoot' = ToolRoot
      BY <1>1 DEF ToolRoot
    <2>2. (merkleRoot = Final => merkleRoot' = Final) /\ (merkleRoot' # Final => merkleRoot' = merkleRoot)
      BY <1>5 DEF RootMoves
    <2>3. batches' # {} /\ chainOf' = "mainnet" => ToolRoot' = Final
      BY <1>1, <1>3, <2>1
    <2>4. "freeze-root" \in batches' /\ "set-root" \notin batches' => merkleRoot' = Final
      BY <1>1, <1>2, <1>5, <2>2 DEF BatchesAreRight
    <2>5. chainOf' = "testnet" => merkleRoot' \in {NoRoot, Final} /\ batches' = {}
      BY <1>1, <1>2, <2>2 DEF BatchesAreRight
    <2>6. ASSUME rootFrozen', merkleRoot' # Final
          PROVE  "set-root" \in batches' /\ "freeze-root" \notin batches'
      <3>1. b # "set-root" /\ merkleRoot # Final
        BY <1>5, <2>2, <2>6
      <3>2. CASE rootFrozen
        BY <1>1, <1>2, <3>1, <3>2 DEF BatchesAreRight
      <3>3. CASE ~rootFrozen
        <4>1. b = "freeze-root" /\ merkleRoot # NoRoot
          BY <1>5, <2>6, <3>3
        <4>2. b \in batches
          BY <1>1, <1>2, <3>1, <4>1 DEF BatchesAreRight
        <4> QED
          BY <1>1, <1>2, <3>1, <4>1, <4>2 DEF BatchesAreRight
      <3> QED
        BY <3>2, <3>3
    <2> QED
      BY <2>3, <2>4, <2>5, <2>6 DEF BatchesAreRight
  <1>8. OfferIsRight'
    BY <1>1, <1>2, <1>5, OfferStays
  <1>9. CampaignTyped'
    BY <1>1, <1>2, <1>5 DEF CampaignTyped
  <1> QED
    BY <1>5, <1>6, <1>7, <1>8, <1>9 DEF CampaignInv

\* A visitor registers with the discount.
LEMMA ClaimKeeps ==
    ASSUME CampaignInv, NEW c \in Caller, Claim(c)
    PROVE  CampaignInv'
  <1>1. /\ visit.at = "offered" /\ used' = used \cup {visit.wallet} /\ visit.wallet \notin used
        /\ EmitEvent("used", visit.wallet)
        /\ UNCHANGED <<merkleRoot, rootFrozen, discountActive, authorizedControllers>>
        /\ UNCHANGED <<chainOf, manifest, registryOwner, pointing, tool, passed,
                       batches, published, visit, indexed>>
    BY DEF Claim, Consume, wiringVars, toolVars, visitVars
  <1>2. ToolIsRight /\ BatchesAreRight /\ OfferIsRight /\ IndexIsBehind /\ CampaignTyped
    BY DEF CampaignInv
  <1>3. visit.wallet \in Wallet
    BY <1>1, <1>2 DEF OfferIsRight
  <1>4. [kind |-> "used", value |-> visit.wallet] \in CampaignEvent
    BY <1>3 DEF CampaignEvent
  <1>5. IndexIsBehind' /\ emitted' \in Seq(CampaignEvent)
    BY <1>1, <1>2, <1>4, EmitKeeps
  <1>6. ToolIsRight'
    BY <1>1, <1>2, ToolStays DEF RootMoves
  <1>7. BatchesAreRight'
    BY <1>1, <1>2, BatchesStay
  <1>8. OfferIsRight'
    BY <1>1, <1>2, OfferStays DEF RootMoves
  <1>9. CampaignTyped'
    BY <1>1, <1>2, <1>3, <1>5 DEF CampaignTyped
  <1> QED
    BY <1>5, <1>6, <1>7, <1>8, <1>9 DEF CampaignInv
\* What the client does changes nothing else.
LEMMA VisitKeeps ==
    ASSUME CampaignInv, OfferIsRight', UNCHANGED <<discountVars, wiringVars, toolVars, indexVars>>,
           visit' \in [at : {"idle", "reading", "offered"}, wallet : Wallet \cup {0}, left : SUBSET OfferValues]
    PROVE  CampaignInv'
  <1>1. /\ UNCHANGED <<merkleRoot, rootFrozen, discountActive, used, authorizedControllers>>
        /\ UNCHANGED <<chainOf, manifest, registryOwner, pointing, tool,
                       passed, batches, emitted, indexed>>
    BY DEF discountVars, wiringVars, toolVars, indexVars
  <1>2. ToolIsRight /\ BatchesAreRight /\ IndexIsBehind /\ CampaignTyped
    BY DEF CampaignInv
  <1>3. ToolIsRight'
    BY <1>1, <1>2, ToolStays DEF RootMoves
  <1>4. BatchesAreRight'
    BY <1>1, <1>2, BatchesStay
  <1>5. IndexIsBehind'
    BY <1>1, <1>2, IndexStays DEF discountVars, indexVars
  <1>6. CampaignTyped'
    BY <1>1, <1>2 DEF CampaignTyped
  <1> QED
    BY <1>3, <1>4, <1>5, <1>6 DEF CampaignInv

\* The artifact is written once its proofs are good.
LEMMA GenerateArtifactKeeps ==
    ASSUME CampaignInv, GenerateArtifact
    PROVE  CampaignInv'
  <1>1. /\ ToolRoot # NoRoot /\ \A w \in ToolRoot : w \in provenBy[ToolRoot][w]
        /\ published' = published \cup {ToolRoot} /\ visit' = visit
        /\ UNCHANGED <<discountVars, wiringVars, toolVars, indexVars>>
    BY DEF GenerateArtifact
  <1>2. ToolRoot = Final
    BY <1>1, ToolRootIs
  <1>3. OfferIsRight /\ CampaignTyped
    BY DEF CampaignInv
  <1>4. UNCHANGED <<merkleRoot, rootFrozen>>
    BY <1>1 DEF discountVars
  <1>5. OfferIsRight'
    BY <1>1, <1>2, <1>3, <1>4 DEF OfferIsRight
  <1>6. visit' \in [at : {"idle", "reading", "offered"}, wallet : Wallet \cup {0}, left : SUBSET OfferValues]
    BY <1>1, <1>3 DEF CampaignTyped
  <1> QED
    BY <1>1, <1>5, <1>6, VisitKeeps

\* The client finds a proof for the wallet.
LEMMA LookUpProofKeeps ==
    ASSUME CampaignInv, NEW w \in Visitor, LookUpProof(w)
    PROVE  CampaignInv'
  <1>1. /\ Final \in published /\ w \in Final
        /\ visit' = [at |-> "reading", wallet |-> w, left |-> {"wired", "root", "frozen", "active", "used"}]
        /\ published' = published /\ UNCHANGED <<discountVars, wiringVars, toolVars, indexVars>>
    BY DEF LookUpProof, VisitOnly
  <1>2. OfferIsRight
    BY DEF CampaignInv
  <1>3. w \in Wallet
    BY CampaignAssumption
  <1>4. OfferIsRight'
    BY <1>1, <1>2, <1>3 DEF OfferIsRight
  <1>5. visit' \in [at : {"idle", "reading", "offered"}, wallet : Wallet \cup {0}, left : SUBSET OfferValues]
    BY <1>1, <1>3 DEF OfferValues
  <1> QED
    BY <1>1, <1>4, <1>5, VisitKeeps

\* The client reads one value, which is as expected or ends the offer.
LEMMA ReadForOfferKeeps ==
    ASSUME CampaignInv, NEW value \in OfferValues, ReadForOffer(value)
    PROVE  CampaignInv'
  <1>1. /\ visit.at = "reading" /\ value \in visit.left /\ published' = published
        /\ UNCHANGED <<discountVars, wiringVars, toolVars, indexVars>>
    BY DEF ReadForOffer, VisitOnly
  <1>2. /\ OfferIsRight
        /\ visit \in [at : {"idle", "reading", "offered"}, wallet : Wallet \cup {0}, left : SUBSET OfferValues]
    BY DEF CampaignInv, CampaignTyped
  <1>3. UNCHANGED <<merkleRoot, rootFrozen>>
    BY <1>1 DEF discountVars
  <1>4. CASE ~Offered(value)
    <2>1. visit' = [at |-> "idle", wallet |-> 0, left |-> {}]
      BY <1>4 DEF ReadForOffer, NoVisit
    <2>2. OfferIsRight'
      BY <1>1, <1>2, <2>1 DEF OfferIsRight
    <2>3. visit' \in [at : {"idle", "reading", "offered"}, wallet : Wallet \cup {0}, left : SUBSET OfferValues]
      BY <2>1
    <2> QED
      BY <1>1, <2>2, <2>3, VisitKeeps
  <1>5. CASE Offered(value)
    <2>1. visit' = [visit EXCEPT !.left = @ \ {value},
                                 !.at = IF visit.left = {value} THEN "offered" ELSE "reading"]
      BY <1>5 DEF ReadForOffer
    <2>2. /\ visit'.left = visit.left \ {value} /\ visit'.wallet = visit.wallet
          /\ visit'.at = IF visit.left = {value} THEN "offered" ELSE "reading"
      BY <1>2, <2>1
    <2>3. /\ value = "root" => merkleRoot = Final
          /\ value = "frozen" => rootFrozen
      BY <1>5 DEF Offered
    <2>4. /\ visit.wallet \in Final \cap Wallet /\ Final \in published
          /\ "root" \notin visit.left => merkleRoot = Final
          /\ "frozen" \notin visit.left => rootFrozen
          /\ \A w \in Final : w \in provenBy[Final][w]
      BY <1>1, <1>2 DEF OfferIsRight
    <2>5. visit'.at = "offered" => visit'.left = {}
      BY <2>2
    <2>6. OfferIsRight'
      BY <1>1, <1>3, <2>2, <2>3, <2>4, <2>5 DEF OfferIsRight
    <2>7. visit' \in [at : {"idle", "reading", "offered"}, wallet : Wallet \cup {0}, left : SUBSET OfferValues]
      BY <1>2, <2>1
    <2> QED
      BY <1>1, <2>6, <2>7, VisitKeeps
  <1> QED
    BY <1>4, <1>5

\* The visitor changes wallet, name or duration.
LEMMA LeaveKeeps ==
    ASSUME CampaignInv, Leave
    PROVE  CampaignInv'
  <1>1. /\ visit' = [at |-> "idle", wallet |-> 0, left |-> {}] /\ published' = published
        /\ UNCHANGED <<discountVars, wiringVars, toolVars, indexVars>>
    BY DEF Leave, VisitOnly, NoVisit
  <1>2. OfferIsRight
    BY DEF CampaignInv
  <1>3. OfferIsRight'
    BY <1>1, <1>2 DEF OfferIsRight
  <1>4. visit' \in [at : {"idle", "reading", "offered"}, wallet : Wallet \cup {0}, left : SUBSET OfferValues]
    BY <1>1
  <1> QED
    BY <1>1, <1>3, <1>4, VisitKeeps

\* An event is indexed.
LEMMA IndexEventKeeps ==
    ASSUME CampaignInv, IndexEvent
    PROVE  CampaignInv'
  <1>1. /\ UNCHANGED <<merkleRoot, rootFrozen, discountActive, used, authorizedControllers>>
        /\ UNCHANGED <<chainOf, manifest, registryOwner, pointing, tool,
                       passed, batches, published, visit>>
    BY DEF IndexEvent, discountVars, wiringVars, toolVars, visitVars
  <1>2. ToolIsRight /\ BatchesAreRight /\ OfferIsRight /\ IndexIsBehind /\ CampaignTyped
    BY DEF CampaignInv
  <1>3. IndexIsBehind' /\ emitted' \in Seq(CampaignEvent) /\ indexed' \in IndexShape
    BY <1>2, IndexKeeps
  <1>4. ToolIsRight'
    BY <1>1, <1>2, ToolStays DEF RootMoves
  <1>5. BatchesAreRight'
    BY <1>1, <1>2, BatchesStay
  <1>6. OfferIsRight'
    BY <1>1, <1>2, OfferStays DEF RootMoves
  <1>7. CampaignTyped'
    BY <1>1, <1>2, <1>3 DEF CampaignTyped
  <1> QED
    BY <1>3, <1>4, <1>5, <1>6, <1>7 DEF CampaignInv

\* The upgrade of the controllers.
LEMMA UpgradeControllersKeeps ==
    ASSUME CampaignInv, UpgradeControllers
    PROVE  CampaignInv'
  <1>1. pointing' = pointing
        /\ UNCHANGED <<discountVars, chainOf, manifest,
                       registryOwner, toolVars, visitVars, indexVars>>
    BY DEF UpgradeControllers
  <1>2. pointing' \subseteq Caller
    BY <1>1 DEF CampaignInv, CampaignTyped
  <1> QED
    BY <1>1, <1>2, WiringKeeps

\* Nothing happens.
LEMMA CampaignStutters ==
    ASSUME CampaignInv, UNCHANGED campaignVars
    PROVE  CampaignInv'
  <1>1. pointing' = pointing
        /\ UNCHANGED <<discountVars, chainOf, manifest,
                       registryOwner, toolVars, visitVars, indexVars>>
    BY DEF campaignVars, wiringVars
  <1>2. pointing' \subseteq Caller
    BY <1>1 DEF CampaignInv, CampaignTyped
  <1> QED
    BY <1>1, <1>2, WiringKeeps

\* The inductive invariant of the campaign: what a running script has read stays so,
\* a batch is written for the finalized root only, what the client has read stays so,
\* and the last event about each value of the registry says what it is.
THEOREM CampaignInvHolds == CampaignSpec => []CampaignInv
  <1>1. CampaignInit => CampaignInv
    BY CampaignStart
  <1>2. CampaignInv /\ [RegistryNext \/ ToolsNext \/ OffersNext]_campaignVars => CampaignInv'
    <2> SUFFICES ASSUME CampaignInv, [RegistryNext \/ ToolsNext \/ OffersNext]_campaignVars
                 PROVE  CampaignInv'
      OBVIOUS
    <2>1. CASE RegistryNext
      BY <2>1, HandOverKeeps, UpgradeControllersKeeps, WireKeeps, UndoKeeps, GenerateBatchesKeeps,
         ExecuteBatchKeeps, IndexEventKeeps DEF RegistryNext
    <2>2. CASE ToolsNext
      BY <2>2, StartToolKeeps, ReadValueKeeps, EndReadingKeeps, IncludeKeeps, PrepareTestnetKeeps
         DEF ToolsNext, ToolValues
    <2>3. CASE OffersNext
      BY <2>3, GenerateArtifactKeeps, LookUpProofKeeps, ReadForOfferKeeps, LeaveKeeps, ClaimKeeps
         DEF OffersNext, OfferValues
    <2>4. CASE UNCHANGED campaignVars
      BY <2>4, CampaignStutters
    <2> QED
      BY <2>1, <2>2, <2>3, <2>4
  <1> QED
    BY <1>1, <1>2, PTL DEF CampaignSpec

\* The finalized root and no other ends up behind an offer, whatever the order in which
\* scripts, batches, handover and readings come; a proof of the artifact is good for its
\* wallet only; the subgraph says what the registry is, but for the events it is behind.
THEOREM CampaignIsFinalHolds == CampaignSpec => []CampaignIsFinal
  <1>1. CampaignInv => CampaignIsFinal
    BY CampaignInvGives
  <1> QED
    BY <1>1, CampaignInvHolds, PTL
===============================================================================
