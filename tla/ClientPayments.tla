---------------------------- MODULE ClientPayments ----------------------------
(***************************************************************************)
(* What the live web client pays for: registrations                        *)
(* (hooks/useRegistration.ts) and renewals (hooks/useRenew.ts) at the      *)
(* price, or the early adopter's price (hooks/useSnapshotDiscount.ts), that *)
(* the page shows.  A purchase is two or three transactions of one wallet; *)
(* purchases in other components and tabs run at the same time, and all of *)
(* them pay out of the one allowance that the wallet gives the controller, *)
(* which every approval replaces.                                          *)
(*                                                                         *)
(* The wallet's transactions are included in the order of their nonces,    *)
(* each at most LAG after it was sent; the hook asks for the next one when *)
(* it has the hash of the one before.  Time is counted in steps of the     *)
(* two seconds that the hook waits longer than the controller.  reset()    *)
(* touches what is shown only: a purchase under way goes on.               *)
(***************************************************************************)
EXTENDS Naturals, Sequences

CONSTANTS
    Purchase,            \* numbered in the order of the clicks
    Domain,
    Customer, Rival, Vacant,
    Price,               \* of a period, in units of USDC
    MIN_AGE,             \* MIN_COMMITMENT_AGE of the controller
    WAIT,                \* MIN_COMMITMENT_AGE_MS of the hook
    LAG,
    Absent,              \* no commitment
    MaxChange            \* bound: changes of prices and names by others

ASSUME PaymentsAssumption ==
    /\ Price \subseteq Nat \ {0} /\ Price # {}
    /\ MIN_AGE \in Nat /\ WAIT \in Nat /\ LAG \in Nat /\ MaxChange \in Nat
    /\ Purchase \subseteq Nat
    /\ MIN_AGE < WAIT /\ Absent \notin Nat
    /\ Customer # Rival /\ Vacant \notin {Customer, Rival}

VARIABLES
    purchase,    \* of each purchase its step, what is bought and at which quote
    offer,       \* the quote the page shows, read a while ago
    pool,        \* transactions sent and not included
    price,       \* of the oracle
    discountUsed,
    domainOwner,
    allowance,   \* of the customer to the controller
    approvedFor, \* the purchase that last replaced or spent it
    commitAge,   \* of each purchase's commitment, up to the minimum
    commitLag,   \* how long the commitment waited for its inclusion
    changes

paymentChain == <<price, discountUsed, domainOwner, allowance, approvedFor, commitAge, commitLag>>
paymentVars  == <<purchase, offer, pool, paymentChain, changes>>

PaymentsInit ==
    /\ purchase = [p \in Purchase |-> [at |-> "idle", renewal |-> FALSE, domain |-> Vacant,
                                       discount |-> FALSE, cost |-> 0, waited |-> 0]]
    /\ price \in Price /\ offer = [price |-> price, discount |-> TRUE]
    /\ pool = <<>> /\ discountUsed = FALSE
    /\ domainOwner \in [Domain -> {Customer, Vacant}]
    /\ allowance = 0 /\ approvedFor = Absent
    /\ commitAge = [p \in Purchase |-> Absent] /\ commitLag = [p \in Purchase |-> 0]
    /\ changes = 0

------------------------------------------------------------------------------
(* The hooks.                                                                *)

discountRent(x) == x \div 2
maxCostWithSlippage(cost) == cost + (cost * 500) \div 10000

\* A registration, with the discount if the page offers it, or a renewal, for
\* which the owner has been read.
BeginPurchase(p, d, renewal, discount) ==
    /\ purchase[p].at = "idle" /\ \A q \in Purchase : q < p => purchase[q].at # "idle"
    /\ IF renewal THEN domainOwner[d] = Customer /\ ~discount
                  ELSE domainOwner[d] = Vacant /\ (discount => offer.discount)
    /\ purchase' = [purchase EXCEPT ![p] =
          [at |-> "approving", renewal |-> renewal, domain |-> d, discount |-> discount,
           cost |-> IF discount THEN discountRent(offer.price) ELSE offer.price, waited |-> 0]]
    /\ UNCHANGED <<offer, pool, paymentChain, changes>>

Ask(p, what, amount, then) ==
    /\ pool' = Append(pool, [by |-> p, what |-> what, amount |-> amount, waited |-> 0])
    /\ purchase' = [purchase EXCEPT ![p].at = then]
    /\ UNCHANGED <<offer, paymentChain, changes>>

\* Fault: without the slippage, which the payment allows for.
ApprovedBare(cost) == cost
Approved(cost) == maxCostWithSlippage(cost)

ApproveUSDC(p) ==
    /\ purchase[p].at = "approving"
    /\ Ask(p, "approve", Approved(purchase[p].cost),
           IF purchase[p].renewal THEN "renewing" ELSE "committing")
CommitPurchase(p) == purchase[p].at = "committing" /\ Ask(p, "commit", 0, "waiting")

\* The wait; its own timeout comes after this condition and is never reached.
Matures(p) ==
    /\ purchase[p].at = "waiting" /\ purchase[p].waited >= WAIT
    /\ purchase' = [purchase EXCEPT ![p].at = "registering"]
    /\ UNCHANGED <<offer, pool, paymentChain, changes>>

\* The hash is the success of a registration; a renewal waits for a receipt,
\* which may be that of a failure.
Pay(p) ==
    /\ purchase[p].at \in {"registering", "renewing"}
    /\ Ask(p, "pay", maxCostWithSlippage(purchase[p].cost), "success")

\* The user refuses, or the wallet or a node answers with an error.
Decline(p) ==
    /\ purchase[p].at \in {"approving", "committing", "registering", "renewing"}
    /\ purchase' = [purchase EXCEPT ![p].at = "failed"]
    /\ UNCHANGED <<offer, pool, paymentChain, changes>>

Requote ==
    /\ offer' = [price |-> price, discount |-> ~discountUsed]
    /\ UNCHANGED <<purchase, pool, paymentChain, changes>>

------------------------------------------------------------------------------
(* The contracts.                                                            *)

CostOf(p) == IF purchase[p].discount THEN discountRent(price) ELSE price

\* Why register() or renew() of a purchase would revert now.
Causes(p) ==
    LET buy == purchase[p] IN
    (IF ~buy.renewal /\ commitAge[p] < MIN_AGE THEN {"early"} ELSE {})
    \cup (IF (domainOwner[buy.domain] # Vacant) # buy.renewal THEN {"taken"} ELSE {})
    \cup (IF buy.discount /\ discountUsed THEN {"used"} ELSE {})
    \cup (IF CostOf(p) > maxCostWithSlippage(buy.cost) THEN {"price"} ELSE {})
    \cup (IF CostOf(p) > allowance THEN {"allowance"} ELSE {})

IncludePayment(p) ==
    IF Causes(p) # {} THEN UNCHANGED paymentChain
    ELSE /\ allowance' = allowance - CostOf(p) /\ approvedFor' = p
         /\ discountUsed' = (discountUsed \/ purchase[p].discount)
         /\ domainOwner' = IF purchase[p].renewal THEN domainOwner
                           ELSE [domainOwner EXCEPT ![purchase[p].domain] = Customer]
         /\ UNCHANGED <<price, commitAge, commitLag>>

IncludeNext ==
    /\ pool # <<>> /\ pool' = Tail(pool)
    /\ LET tx == Head(pool) IN
       CASE tx.what = "approve" -> /\ allowance' = tx.amount /\ approvedFor' = tx.by
                                   /\ UNCHANGED <<price, discountUsed, domainOwner, commitAge, commitLag>>
         [] tx.what = "commit"  -> /\ commitAge' = [commitAge EXCEPT ![tx.by] = 0]
                                   /\ commitLag' = [commitLag EXCEPT ![tx.by] = tx.waited]
                                   /\ UNCHANGED <<price, discountUsed, domainOwner, allowance, approvedFor>>
         [] tx.what = "pay"     -> IncludePayment(tx.by)
    /\ UNCHANGED <<purchase, offer, changes>>

\* A new price, a name taken by somebody else, or lapsed.
Change ==
    /\ changes < MaxChange /\ changes' = changes + 1
    /\ \/ price' \in Price \ {price} /\ UNCHANGED domainOwner
       \/ \E d \in Domain, who \in {Rival, Vacant} :
             /\ domainOwner[d] # who
             /\ domainOwner' = [domainOwner EXCEPT ![d] = who] /\ UNCHANGED price
    /\ UNCHANGED <<purchase, offer, pool, discountUsed, allowance, approvedFor, commitAge, commitLag>>

PaymentTick ==
    /\ \A i \in DOMAIN pool : pool[i].waited < LAG
    /\ pool' = [i \in DOMAIN pool |-> [pool[i] EXCEPT !.waited = @ + 1]]
    /\ purchase' = [p \in Purchase |->
          IF purchase[p].at = "waiting" /\ purchase[p].waited < WAIT
            THEN [purchase[p] EXCEPT !.waited = @ + 1] ELSE purchase[p]]
    /\ commitAge' = [p \in Purchase |->
          IF commitAge[p] # Absent /\ commitAge[p] < MIN_AGE
            THEN commitAge[p] + 1 ELSE commitAge[p]]
    /\ UNCHANGED <<offer, price, discountUsed, domainOwner, allowance, approvedFor, commitLag, changes>>

PaymentsNext ==
    \/ \E p \in Purchase :
          \/ \E d \in Domain, renewal, discount \in BOOLEAN : BeginPurchase(p, d, renewal, discount)
          \/ ApproveUSDC(p) \/ CommitPurchase(p) \/ Matures(p) \/ Pay(p) \/ Decline(p)
    \/ Requote \/ IncludeNext \/ Change \/ PaymentTick

PaymentsSpec == PaymentsInit /\ [][PaymentsNext]_paymentVars

------------------------------------------------------------------------------
Settles(p) ==
    /\ pool # <<>> /\ pool' = Tail(pool)
    /\ Head(pool).what = "pay" /\ Head(pool).by = p

\* What the client has announced as a success does take effect when it is
\* included, for nobody looks at it again; it fails only
\*   - for the name or the discount, when somebody else, or another purchase,
\*     was first;
\*   - for the price, when that has risen by more than the slippage;
\*   - for the age of the commitment, when its transaction waited longer for its
\*     inclusion than the hook's reserve;
\*   - for the allowance, when another purchase of the same wallet has replaced
\*     or spent it in between.
PaymentFailsForCause ==
    [][\A p \in Purchase : Settles(p) =>
          /\ "early" \in Causes(p) => commitLag[p] > WAIT - MIN_AGE
          /\ "allowance" \in Causes(p) => "price" \in Causes(p) \/ approvedFor # p]_paymentVars
===============================================================================
