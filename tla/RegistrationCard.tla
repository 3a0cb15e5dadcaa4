--------------------------- MODULE RegistrationCard ---------------------------
(***************************************************************************)
(* The card that sells a name on the application page                      *)
(* (frontend/src/components/DomainCard.tsx, shown by app/app/page.tsx).    *)
(* One component is reused for whatever name, period and wallet come next, *)
(* while answers about the ones before are still on their way and a        *)
(* registration of a minute runs under it (hooks/useRegistration.ts).  The *)
(* card goes away when the page shows no name; the registration does not.  *)
(*                                                                         *)
(* The names are read as available and the network is right.  A quote      *)
(* stands for the name and the period it was asked for, a discount also    *)
(* for the wallet whose proof it carries.  What registrations do to one    *)
(* another on the chain is in ClientPayments and PrimaryNameFlows.         *)
(***************************************************************************)
EXTENDS Naturals, Sequences

CONSTANTS
    CardName, Period, Payer,
    FirstPeriod,     \* DURATION_OPTIONS[0]
    None,            \* no name, wallet, discount or quote
    MaxMove          \* bound: what the user does but ticking the first box

ASSUME CardAssumption ==
    /\ FirstPeriod \in Period /\ None \notin CardName \cup Payer
    /\ MaxMove \in Nat

VARIABLES
    card,            \* props and state of the component; id 0 when it is not mounted
    mounts,
    cardWallet,      \* useAccount
    quote,           \* rentPrice of the name and the period shown: unread, read or failed
    discountResult,  \* what useSnapshotDiscount keeps, with its key
    discountRead,    \* the key of the reading under way that is not cancelled
    discountDue, choiceDue, \* effects whose dependencies have changed
    primaryIs, primarySeen, \* the primary name of a wallet, and its cached reading
    wasPrimary,      \* the names that have been it
    orders,          \* registrations, in the order of the clicks
    cleared,         \* clearPrevPrimaryAddr, called for an order
    moves

offerVars == <<discountResult, discountRead, discountDue>>
primaryVars  == <<primaryIs, primarySeen, wasPrimary>>
cardVars == <<card, mounts, cardWallet, quote, offerVars, choiceDue, primaryVars, orders, cleared, moves>>

NoCard == [id |-> 0, name |-> None, period |-> FirstPeriod, reverse |-> TRUE, use |-> FALSE,
           step |-> "idle", order |-> 0, prev |-> None, attempted |-> FALSE]

CardInit ==
    /\ card = NoCard /\ mounts = 0 /\ cardWallet \in Payer \cup {None}
    /\ quote = "unread"
    /\ discountResult = None /\ discountRead = None /\ discountDue = FALSE /\ choiceDue = FALSE
    /\ primaryIs \in [Payer -> CardName \cup {None}]
    /\ primarySeen = [w \in Payer |-> None]
    /\ wasPrimary = [w \in Payer |-> {primaryIs[w]}]
    /\ orders = <<>> /\ cleared = <<>> /\ moves = 0

Mounted == card.id # 0
Asked   == <<card.name, card.period>>
OfferKey     == <<cardWallet, card.name, card.period>>

\* Fault: the result is taken without a look at its key.
DiscountAnyKey == IF Mounted THEN discountResult ELSE None
Discount       == IF Mounted /\ discountResult = OfferKey THEN discountResult ELSE None

------------------------------------------------------------------------------
(* The page and the user.                                                    *)

Move == moves < MaxMove /\ moves' = moves + 1

\* The quotes are kept by name and period; this one may be in the cache.
Requoted == quote' \in {"unread", "read"}

\* The page shows another name, or none.
Display(n) ==
    /\ Move /\ n # card.name
    /\ card' = CASE n = None              -> NoCard
                 [] n # None /\ Mounted   -> [card EXCEPT !.name = n]
                 [] n # None /\ ~Mounted  -> [NoCard EXCEPT !.id = mounts + 1, !.name = n]
    /\ mounts' = IF Mounted THEN mounts ELSE mounts + 1
    /\ IF n = None THEN discountResult' = None /\ discountRead' = None
                   ELSE UNCHANGED <<discountResult, discountRead>>
    /\ discountDue' = (n # None) /\ choiceDue' = (n # None) /\ Requoted
    /\ UNCHANGED <<cardWallet, primaryVars, orders, cleared>>

Connect(w) ==
    /\ Move /\ w # cardWallet /\ cardWallet' = w
    /\ discountDue' = Mounted /\ choiceDue' = Mounted
    /\ UNCHANGED <<card, mounts, quote, discountResult, discountRead, primaryVars, orders, cleared>>

SetDuration(p) ==
    /\ Move /\ Mounted /\ p # card.period
    /\ card' = [card EXCEPT !.period = p]
    /\ discountDue' = TRUE /\ choiceDue' = TRUE /\ Requoted
    /\ UNCHANGED <<mounts, cardWallet, discountResult, discountRead, primaryVars, orders, cleared>>

CardOnly == UNCHANGED <<mounts, cardWallet, quote, offerVars, primaryVars, orders>>

\* The boxes are not locked while a registration runs.
SetReverseRecord ==
    /\ Mounted /\ card' = [card EXCEPT !.reverse = ~@]
    /\ CardOnly /\ UNCHANGED <<choiceDue, cleared, moves>>
SelectDiscount ==
    /\ Move /\ Discount # None /\ quote = "read"
    /\ card' = [card EXCEPT !.use = ~@]
    /\ CardOnly /\ UNCHANGED <<choiceDue, cleared>>

------------------------------------------------------------------------------
(* Answers and effects.                                                      *)

\* A price, a new one or none; one that has been read stays when a later reading
\* fails.  A discount is lower than any.
ReadQuote ==
    /\ Mounted /\ quote' \in {"read", "failed"}
    /\ quote = "read" => quote' = "read"
    /\ choiceDue' = TRUE
    /\ UNCHANGED <<card, mounts, cardWallet, offerVars, primaryVars, orders, cleared, moves>>

\* The effect of useSnapshotDiscount: cleanup of the run before, setResult(null), and
\* the run.
AskDiscount ==
    /\ discountResult' = None
    /\ discountRead' = IF cardWallet = None THEN None ELSE OfferKey

\* The effect on useDiscount: the discount of this drawing is preferred whenever the
\* context, or the price, has changed.
PreferDiscount == card' = [card EXCEPT !.use = Discount # None /\ quote = "read"]

\* The effects of one drawing of the card run together.
RunEffects ==
    /\ choiceDue /\ choiceDue' = FALSE /\ discountDue' = FALSE
    /\ IF discountDue THEN AskDiscount ELSE UNCHANGED <<discountResult, discountRead>>
    /\ PreferDiscount
    /\ UNCHANGED <<mounts, cardWallet, quote, primaryVars, orders, cleared, moves>>

DiscountAnswers ==
    /\ discountRead # None /\ discountRead' = None
    /\ discountResult' \in {discountRead, None}
    /\ choiceDue' = (choiceDue \/ discountResult' # discountResult)
    /\ UNCHANGED <<card, mounts, cardWallet, quote, discountDue, primaryVars, orders, cleared, moves>>

ReadPrimary(w) ==
    /\ w = cardWallet /\ primarySeen' = [primarySeen EXCEPT ![w] = primaryIs[w]]
    /\ UNCHANGED <<card, mounts, cardWallet, quote, offerVars, choiceDue, primaryIs, wasPrimary,
                   orders, cleared, moves>>

------------------------------------------------------------------------------
(* Registrations.                                                            *)

discountSelected == card.use /\ Discount # None /\ quote = "read"

\* Fault: the name of an earlier click is kept when the box is not ticked.
PrevPrimaryKept == IF card.reverse THEN primarySeen[cardWallet] ELSE card.prev
PrevPrimary     == IF card.reverse THEN primarySeen[cardWallet] ELSE None

\* The button waits for the price; a price that cannot be read counts as zero.
RegisterButton ==
    Mounted /\ cardWallet # None /\ quote # "unread" /\ card.step \in {"idle", "failed"}

HandleRegister ==
    /\ Move /\ RegisterButton
    /\ orders' = Append(orders,
          [card |-> card.id, wallet |-> cardWallet, name |-> card.name, period |-> card.period,
           quoted |-> IF quote = "read" THEN Asked ELSE None,
           proof |-> IF discountSelected THEN Discount ELSE None,
           primary |-> card.reverse, state |-> "busy"])
    /\ card' = [card EXCEPT !.step = "busy", !.order = Len(orders) + 1,
                            !.prev = PrevPrimary, !.attempted = FALSE]
    /\ UNCHANGED <<mounts, cardWallet, quote, offerVars, choiceDue, primaryVars, cleared>>

\* The registration ends; its card is told if it is still there.
OrderEnds(i, how) ==
    /\ orders[i].state = "busy" /\ orders' = [orders EXCEPT ![i].state = how]
    /\ card' = IF card.id = orders[i].card THEN [card EXCEPT !.step = how] ELSE card
    /\ IF how = "success" /\ orders[i].primary
         THEN LET w == orders[i].wallet IN
              /\ primaryIs' = [primaryIs EXCEPT ![w] = orders[i].name]
              /\ wasPrimary' = [wasPrimary EXCEPT ![w] = @ \cup {orders[i].name}]
         ELSE UNCHANGED <<primaryIs, wasPrimary>>
    /\ UNCHANGED <<mounts, cardWallet, quote, offerVars, choiceDue, primarySeen, cleared, moves>>

\* The effect after a success, also when the box is ticked only then.
RunClearEffect ==
    /\ card.step = "success" /\ card.reverse /\ ~card.attempted /\ card.prev # None
    /\ cardWallet # None
    /\ card' = [card EXCEPT !.attempted = TRUE]
    /\ cleared' = IF card.prev = orders[card.order].name THEN cleared
                    ELSE Append(cleared, [order |-> card.order, name |-> card.prev])
    /\ CardOnly /\ UNCHANGED <<choiceDue, moves>>

\* "Register another".
ResetCard ==
    /\ card.step = "success" /\ card' = [card EXCEPT !.step = "idle"]
    /\ CardOnly /\ UNCHANGED <<choiceDue, cleared, moves>>

CardNext ==
    \/ \E n \in CardName \cup {None} : Display(n)
    \/ \E w \in Payer \cup {None} : Connect(w)
    \/ \E p \in Period : SetDuration(p)
    \/ SetReverseRecord \/ SelectDiscount \/ ReadQuote
    \/ RunEffects \/ DiscountAnswers
    \/ \E w \in Payer : ReadPrimary(w)
    \/ HandleRegister \/ RunClearEffect \/ ResetCard
    \/ \E i \in DOMAIN orders, how \in {"success", "failed"} : OrderEnds(i, how)

CardSpec == CardInit /\ [][CardNext]_cardVars

------------------------------------------------------------------------------
\* Whatever the card has been shown, told and asked in between,
\*   - a registration is bought at the quote, and with the discount, of the very name,
\*     period and wallet it is for, or at a quote of nothing when the price could not be
\*     read;
\*   - a card has one registration under way at a time;
\*   - what is cleared after a registration, once and not before its success, is another
\*     name that has been the primary name of the wallet that bought, if it asked for
\*     the new name to be that.
CardKeepsItsWord ==
    /\ \A i \in DOMAIN orders : LET o == orders[i] IN
          /\ o.quoted \in {<<o.name, o.period>>, None}
          /\ o.proof \in {<<o.wallet, o.name, o.period>>, None}
          /\ \A j \in DOMAIN orders :
                o.card = orders[j].card /\ "busy" = o.state /\ "busy" = orders[j].state => i = j
    /\ \A c \in DOMAIN cleared : LET o == orders[cleared[c].order] IN
          /\ o.state = "success" /\ o.primary
          /\ cleared[c].name \in wasPrimary[o.wallet] \ {o.name}
          /\ \A d \in DOMAIN cleared : cleared[c].order = cleared[d].order => c = d
================================================================================
