---------------------------- MODULE Clients_proofs ----------------------------
(***************************************************************************)
(* The promises of the parts of the web client that move money, and those  *)
(* of all lookups together.                                                *)
(*                                                                         *)
(* Sending: a review is made from what a call captured, and signed with    *)
(* the asset of the form; the invariant is that calls and reviews which are *)
(* not late agree with the form: every edit clears the review and outdates *)
(* the calls, and the list of assets changes nothing else that they rely   *)
(* on.                                                                     *)
(***************************************************************************)
EXTENDS MCClients, Lookups_proofs

------------------------------------------------------------------------------
(* Sending assets (WalletSend).                                             *)

Calls   == [what: {"resolve", "review", "token"}, to: Input \cup {NoInput}, asset: Asset,
            amount: Amount \cup {NoInput}, late: BOOLEAN]
Reviews == [to: Input, units: Amount \X Asset, late: BOOLEAN]

SendTypeOK ==
    /\ calls \subseteq Calls
    /\ form \in [to: Input \cup {NoInput}, amount: Amount \cup {NoInput}]
    /\ selected \in Asset
    /\ \A c \in calls : c.what # "token" => c.to \in Input
    /\ review # NoInput => review \in Reviews

AsEntered(r) ==
    r.late \/ (r.to = form.to /\ r.units = <<form.amount, selectedAsset>>)
ReviewIsForm == review # NoInput => AsEntered(review)
CallIsForm(c) ==
    c.what = "review" =>
        c.late \/ (c.to = form.to /\ c.amount = form.amount /\ c.asset = selectedAsset)
CallsAreForm == \A c \in calls : CallIsForm(c)

SendInv == SendTypeOK /\ ReviewIsForm /\ CallsAreForm

USE SendAssumption

LEMMA SelectedIsAsset == SendTypeOK => selectedAsset \in Asset
  BY DEF SendTypeOK, selectedAsset

\* A call that begins captures the form.
LEMMA CallIsCurrent ==
    ASSUME SendTypeOK, NEW what \in {"resolve", "review", "token"}, NEW asset \in Asset
    PROVE  /\ Call(what, asset) \in Calls
           /\ Call(what, asset).to = form.to /\ Call(what, asset).amount = form.amount
           /\ Call(what, asset).asset = asset /\ Call(what, asset).what = what
  BY DEF Call, Calls, SendTypeOK

\* What is outdated is late, and keeps the rest.
LEMMA OutdatedAreLate ==
    ASSUME SendTypeOK, NEW some \in SUBSET calls, NEW c \in Outdated(some)
    PROVE  c \in Calls /\ c.late /\ (c.what # "token" => c.to \in Input)
  <1> PICK d \in some : c = [d EXCEPT !.late = TRUE]
    BY DEF Outdated
  <1>1. d \in Calls /\ (d.what # "token" => d.to \in Input)
    BY DEF SendTypeOK
  <1>2. /\ c.what = d.what /\ c.to = d.to /\ c.asset = d.asset /\ c.amount = d.amount
        /\ c.late = TRUE
        /\ c = [what |-> d.what, to |-> d.to, asset |-> d.asset, amount |-> d.amount, late |-> TRUE]
    BY <1>1 DEF Calls
  <1> QED
    BY <1>1, <1>2 DEF Calls

\* An edit leaves no review.
LEMMA EditClears ==
    ASSUME NEW asset, NEW to, NEW amount, Edit(asset, to, amount)
    PROVE  review' = NoInput
  BY DEF Edit, ReviewAfterEdit

LEMMA EditKeeps ==
    ASSUME SendInv, NEW asset \in Asset, NEW to \in Input \cup {NoInput},
           NEW amount \in Amount \cup {NoInput}, Edit(asset, to, amount),
           NEW some \in SUBSET calls, calls' = Outdated(some)
    PROVE  SendInv'
  <1>1. review' = NoInput
    BY EditClears
  <1>2. \A c \in calls' : c \in Calls /\ c.late /\ (c.what # "token" => c.to \in Input)
    BY OutdatedAreLate DEF SendInv
  <1>3. selected' = asset /\ form' = [to |-> to, amount |-> amount]
    BY DEF Edit
  <1>4. SendTypeOK'
    BY <1>1, <1>2, <1>3 DEF SendTypeOK
  <1>5. CallsAreForm'
    BY <1>2 DEF CallsAreForm, CallIsForm
  <1> QED
    BY <1>1, <1>4, <1>5 DEF SendInv, ReviewIsForm, AsEntered

\* A review of a call that captured the form is one of the form, late if the call is.
LEMMA ReviewedIsForm ==
    ASSUME SendInv, NEW c \in Calls, c.what = "review", CallIsForm(c), c.to \in Input
    PROVE  LET r == Reviewed(c.to, c)
           IN  r # NoInput => r \in Reviews /\ AsEntered(r)
  <1>1. CASE c.amount = NoInput
    BY <1>1 DEF Reviewed, SendInv, SendTypeOK, ReviewIsForm, AsEntered
  <1>2. CASE c.amount # NoInput
    <2>1. Reviewed(c.to, c) = [to |-> c.to, units |-> <<c.amount, c.asset>>, late |-> c.late]
      BY <1>2 DEF Reviewed
    <2>2. Reviewed(c.to, c) \in Reviews
      BY <1>2, <2>1 DEF Reviews, Calls
    <2> QED
      BY <2>1, <2>2 DEF CallIsForm, AsEntered
  <1> QED
    BY <1>1, <1>2

\* A step that neither edits nor lists.
Same == UNCHANGED <<selected, listed, form>>

LEMMA SameForm ==
    ASSUME SendInv, Same, review' = review, calls' \subseteq calls
    PROVE  SendInv'
  BY DEF SendInv, SendTypeOK, ReviewIsForm, AsEntered, CallsAreForm, CallIsForm, Same, selectedAsset

LEMMA BeginKeeps ==
    ASSUME SendInv, Same, review' = review, NEW asset \in Asset,
           NEW what \in {"resolve", "review", "token"},
           what # "token" => form.to # NoInput, what = "review" => asset = selectedAsset,
           BeginCall(what, asset)
    PROVE  SendInv'
  <1> DEFINE c == Call(what, asset)
  <1>1. SendTypeOK
    BY DEF SendInv
  <1>2. /\ c \in Calls /\ c.to = form.to /\ c.amount = form.amount
        /\ c.asset = asset /\ c.what = what
    BY <1>1, CallIsCurrent DEF c
  <1>3. calls' = calls \cup {c}
    BY DEF BeginCall
  <1>4. c.what # "token" => c.to \in Input
    BY <1>1, <1>2 DEF SendTypeOK
  <1> HIDE DEF c
  <1>5. SendTypeOK'
    BY <1>1, <1>2, <1>3, <1>4 DEF SendTypeOK, Same
  <1>6. selectedAsset' = selectedAsset
    BY DEF selectedAsset, Same
  <1>7. ReviewIsForm'
    BY <1>6 DEF SendInv, ReviewIsForm, AsEntered, Same
  <1>8. CallIsForm(c)
    BY <1>2 DEF CallIsForm
  <1>9. CallsAreForm'
    BY <1>3, <1>6, <1>8 DEF SendInv, CallsAreForm, CallIsForm, Same
  <1> QED
    BY <1>5, <1>7, <1>9 DEF SendInv

LEMMA SendInitial == SendInit => SendInv
  BY DEF SendInit, SendInv, SendTypeOK, ReviewIsForm, AsEntered, CallsAreForm

LEMMA EndResolveKeeps ==
    ASSUME SendInv, NEW c \in calls, EndResolve(c)
    PROVE  SendInv'
  <1>1. Same /\ calls' \subseteq calls /\ c.what # "token"
    BY DEF EndResolve, Same
  <1>2. CASE review' = review
    BY <1>1, <1>2, SameForm
  <1>3. CASE c.what = "review" /\ review' = Reviewed(c.to, c)
    <2>1. c \in Calls /\ CallIsForm(c) /\ c.to \in Input
      BY <1>1 DEF SendInv, SendTypeOK, CallsAreForm
    <2>2. review' # NoInput => review' \in Reviews /\ AsEntered(review')
      BY <1>3, <2>1, ReviewedIsForm
    <2>3. selectedAsset' = selectedAsset
      BY <1>1 DEF selectedAsset, Same
    <2>4. SendTypeOK'
      BY <1>1, <2>2 DEF SendInv, SendTypeOK, Same
    <2>5. ReviewIsForm'
      BY <1>1, <2>2, <2>3 DEF ReviewIsForm, AsEntered, Same
    <2>6. CallsAreForm'
      BY <1>1, <2>3 DEF SendInv, CallsAreForm, CallIsForm, Same
    <2> QED
      BY <2>4, <2>5, <2>6 DEF SendInv
  <1> QED
    BY <1>1, <1>2, <1>3 DEF EndResolve

LEMMA PrepareReviewKeeps == ASSUME SendInv, PrepareReview PROVE SendInv'
  <1> DEFINE c == Call("review", selectedAsset)
  <1>1. SendTypeOK /\ selectedAsset \in Asset
    BY SelectedIsAsset DEF SendInv
  <1>2. CASE ~Resolved
    BY <1>1, <1>2, BeginKeeps DEF PrepareReview, Same
  <1>3. CASE Resolved
    <2>1. review' = Reviewed(resolution, c) /\ calls' = calls /\ Same
      BY <1>3 DEF PrepareReview, Same
    <2>2. c \in Calls /\ c.to = form.to /\ c.amount = form.amount /\ c.asset = selectedAsset
          /\ c.what = "review"
      BY <1>1, CallIsCurrent DEF c
    <2>3. CallIsForm(c) /\ c.to \in Input /\ resolution = c.to
      BY <1>1, <1>3, <2>2 DEF CallIsForm, Resolved, SendTypeOK
    <2> HIDE DEF c
    <2>4. review' # NoInput => review' \in Reviews /\ AsEntered(review')
      BY <2>1, <2>2, <2>3, ReviewedIsForm
    <2>5. selectedAsset' = selectedAsset
      BY <2>1 DEF selectedAsset, Same
    <2>6. SendTypeOK'
      BY <1>1, <2>1, <2>4 DEF SendTypeOK, Same
    <2>7. ReviewIsForm'
      BY <2>1, <2>4, <2>5 DEF ReviewIsForm, AsEntered, Same
    <2>8. CallsAreForm'
      BY <2>1, <2>5 DEF SendInv, CallsAreForm, CallIsForm, Same
    <2> QED
      BY <2>6, <2>7, <2>8 DEF SendInv
  <1> QED
    BY <1>2, <1>3

\* The list of assets changes: calls and reviews go late if the asset selected comes or
\* goes, and the form keeps its asset if it does not.
LEMMA RelistedKeeps ==
    ASSUME SendInv, NEW some \in SUBSET calls, Relisted(some), UNCHANGED <<selected, form>>
    PROVE  SendInv'
  <1>1. CASE (selected \in listed) # (selected \in listed')
    <2>1. calls' = Outdated(some)
          /\ review' = IF review = NoInput THEN review ELSE [review EXCEPT !.late = TRUE]
      BY <1>1 DEF Relisted
    <2>2. \A c \in calls' : c \in Calls /\ c.late /\ (c.what # "token" => c.to \in Input)
      BY <2>1, OutdatedAreLate DEF SendInv
    <2>3. review # NoInput =>
             review' = [to |-> review.to, units |-> review.units, late |-> TRUE]
      BY <2>1 DEF SendInv, SendTypeOK, Reviews
    <2>4. review' # NoInput => review' \in Reviews /\ review'.late
      BY <2>1, <2>3 DEF SendInv, SendTypeOK, Reviews
    <2> QED
      BY <2>2, <2>4 DEF SendInv, SendTypeOK, ReviewIsForm, AsEntered, CallsAreForm, CallIsForm
  <1>2. CASE (selected \in listed) = (selected \in listed')
    <2>1. calls' = some /\ review' = review
      BY <1>2 DEF Relisted
    <2>2. selectedAsset' = selectedAsset
      BY <1>2 DEF selectedAsset
    <2> QED
      BY <2>1, <2>2 DEF SendInv, SendTypeOK, ReviewIsForm, AsEntered, CallsAreForm, CallIsForm
  <1> QED
    BY <1>1, <1>2

LEMMA EndTransferKeeps == ASSUME SendInv, EndTransfer PROVE SendInv'
  <1>1. selected' = selected /\ listed' = listed
    BY DEF EndTransfer
  <1>2. CASE review' = NoInput /\ form' = [form EXCEPT !.amount = NoInput]
             /\ calls' = Outdated(calls)
    <2>1. \A c \in calls' : c \in Calls /\ c.late /\ (c.what # "token" => c.to \in Input)
      BY <1>2, OutdatedAreLate DEF SendInv
    <2>2. form' \in [to: Input \cup {NoInput}, amount: Amount \cup {NoInput}]
      BY <1>2 DEF SendInv, SendTypeOK
    <2> QED
      BY <1>1, <1>2, <2>1, <2>2
         DEF SendInv, SendTypeOK, ReviewIsForm, AsEntered, CallsAreForm, CallIsForm
  <1>3. CASE UNCHANGED <<review, form, calls>>
    BY <1>1, <1>3, SameForm DEF Same
  <1> QED
    BY <1>2, <1>3 DEF EndTransfer

LEMMA SendStep == SendInv /\ [SendNext]_sendVars => SendInv'
  <1> SUFFICES ASSUME SendInv, [SendNext]_sendVars PROVE SendInv'
    OBVIOUS
  <1>0. SendTypeOK /\ selectedAsset \in Asset
    BY SelectedIsAsset DEF SendInv
  <1>1. ASSUME NEW a \in Asset, SelectAsset(a) PROVE SendInv'
    BY <1>0, <1>1, EditKeeps DEF SelectAsset, SendTypeOK
  <1>2. ASSUME NEW a \in Asset, AddCustomToken(a) PROVE SendInv'
    BY <1>2, BeginKeeps DEF AddCustomToken, Same
  <1>3. ASSUME NEW to \in Input, TypeRecipient(to) PROVE SendInv'
    BY <1>0, <1>3, EditKeeps DEF TypeRecipient, SendTypeOK
  <1>4. ASSUME NEW x \in Amount, TypeAmount(x) PROVE SendInv'
    BY <1>0, <1>4, EditKeeps DEF TypeAmount, SendTypeOK
  <1>5. CASE BeginResolve
    BY <1>0, <1>5, BeginKeeps DEF BeginResolve, Same
  <1>6. CASE PrepareReview
    BY <1>6, PrepareReviewKeeps
  <1>7. CASE ListDetected
    BY <1>7, RelistedKeeps DEF ListDetected
  <1>8. ASSUME NEW c \in calls, EndResolve(c) PROVE SendInv'
    BY <1>8, EndResolveKeeps
  <1>9. ASSUME NEW c \in calls, EndToken(c) PROVE SendInv'
    <2>1. CASE calls' = calls \ {c} /\ Same /\ review' = review
      BY <2>1, SameForm
    <2>2. CASE Edit(c.asset, form.to, form.amount) /\ calls' = Outdated(calls \ {c})
      <3>1. c.asset \in Asset
        BY <1>0 DEF SendTypeOK, Calls
      <3> QED
        BY <1>0, <2>2, <3>1, EditKeeps DEF SendTypeOK
    <2>3. CASE Relisted(calls \ {c}) /\ UNCHANGED <<selected, form>>
      BY <2>3, RelistedKeeps
    <2> QED
      BY <1>9, <2>1, <2>2, <2>3 DEF EndToken, Same
  <1>10. CASE ConfirmTransfer
    BY <1>10, SameForm DEF ConfirmTransfer, Same
  <1>11. CASE EndTransfer
    BY <1>11, EndTransferKeeps
  <1>12. CASE UNCHANGED sendVars
    BY <1>12, SameForm DEF sendVars, Same
  <1> QED
    BY <1>1, <1>2, <1>3, <1>4, <1>5, <1>6, <1>7, <1>8, <1>9, <1>10, <1>11, <1>12 DEF SendNext

\* A review shown, and a call that will prepare one, is what the form shows unless it is
\* late.
THEOREM SendInvariant == SendSpec => []SendInv
  BY SendInitial, SendStep, PTL DEF SendSpec

\* SendAssetPanel: whatever answers are under way and however the form is edited, the
\* transfer that goes to the wallet is the one the form shows, but for late reviews.
THEOREM SentAsEnteredHolds == SendSpec => SentAsEntered
  <1>1. SendInv => [ConfirmTransfer => \/ review.late
                                       \/ /\ review.to = form.to
                                          /\ review.units = <<form.amount, selectedAsset>>]_sendVars
    BY DEF ConfirmTransfer, SendInv, ReviewIsForm, AsEntered
  <1> QED
    BY <1>1, SendInvariant, PTL DEF SentAsEntered

------------------------------------------------------------------------------
(* The registration card (RegistrationCard).                                *)

Names  == CardName \cup {None}
Cards  == [id: Nat, name: Names, period: Period, reverse: BOOLEAN, use: BOOLEAN,
           step: {"idle", "busy", "success", "failed"}, order: Nat, prev: Names,
           attempted: BOOLEAN]
Orders == [card: Nat \ {0}, wallet: Payer, name: CardName, period: Period,
           quoted: (CardName \X Period) \cup {None},
           proof: (Payer \X CardName \X Period) \cup {None},
           primary: BOOLEAN, state: {"busy", "success", "failed"}]

CardTypeOK ==
    /\ card \in Cards /\ mounts \in Nat /\ card.id <= mounts
    /\ card.id # 0 => card.name \in CardName
    /\ cardWallet \in Payer \cup {None}
    /\ primaryIs \in [Payer -> Names] /\ primarySeen \in [Payer -> Names]
    /\ wasPrimary \in [Payer -> SUBSET Names]
    /\ orders \in Seq(Orders)
    /\ cleared \in Seq([order: Nat, name: CardName])

\* A registration carries the quote and the discount of its own name, period and wallet.
OrdersAreTheirs ==
    \A i \in DOMAIN orders :
       /\ orders[i].quoted \in {<<orders[i].name, orders[i].period>>, None}
       /\ orders[i].proof \in {<<orders[i].wallet, orders[i].name, orders[i].period>>, None}

\* The registration that a card is at is the last of its own, and what the card says
\* of it is so; no other one of this card is under way.
CardIsAtItsOrder ==
    /\ card.order \in 0..Len(orders)
    /\ card.order = 0 => card.step = "idle" /\ card.prev = None
    /\ card.order # 0 =>
          /\ orders[card.order].card = card.id
          /\ card.step # "idle" => orders[card.order].state = card.step
    /\ \A i \in DOMAIN orders :
          /\ orders[i].card <= mounts
          /\ orders[i].card = card.id /\ orders[i].state = "busy" =>
                card.order = i /\ card.step = "busy"

\* So of every card, also of those that are gone.
OneUnderWay ==
    \A i, j \in DOMAIN orders :
       orders[i].card = orders[j].card /\ orders[i].state = "busy" /\ orders[j].state = "busy"
          => i = j

\* What is kept to be cleared has been the primary name of the wallet that bought.
PrevWasPrimary ==
    /\ \A w \in Payer : {primaryIs[w], primarySeen[w]} \subseteq wasPrimary[w] \cup {None}
    /\ card.prev # None =>
          /\ orders[card.order].primary
          /\ card.prev \in wasPrimary[orders[card.order].wallet]

ClearedOnce ==
    /\ \A c \in DOMAIN cleared :
          /\ cleared[c].order \in DOMAIN orders
          /\ orders[cleared[c].order].state = "success" /\ orders[cleared[c].order].primary
          /\ cleared[c].name \in wasPrimary[orders[cleared[c].order].wallet]
                                  \ {orders[cleared[c].order].name}
          /\ card.order = cleared[c].order => card.attempted
    /\ \A c, d \in DOMAIN cleared : cleared[c].order = cleared[d].order => c = d

CardInv ==
    CardTypeOK /\ OrdersAreTheirs /\ CardIsAtItsOrder /\ OneUnderWay /\ PrevWasPrimary
    /\ ClearedOnce

USE CardAssumption

LEMMA AppendFacts ==
    ASSUME NEW S, NEW s \in Seq(S), NEW e \in S
    PROVE  /\ Append(s, e) \in Seq(S) /\ Len(s) \in Nat
           /\ DOMAIN s = 1..Len(s) /\ DOMAIN Append(s, e) = 1..(Len(s) + 1)
           /\ Len(Append(s, e)) = Len(s) + 1
           /\ \A i \in 1..Len(s) : Append(s, e)[i] = s[i]
           /\ Append(s, e)[Len(s) + 1] = e
OBVIOUS

LEMMA SeqFacts ==
    ASSUME NEW S, NEW s \in Seq(S)
    PROVE  /\ Len(s) \in Nat /\ DOMAIN s = 1..Len(s)
           /\ \A i \in DOMAIN s : s[i] \in S
OBVIOUS

LEMMA OrderFacts ==
    ASSUME CardInv
    PROVE  /\ Len(orders) \in Nat /\ DOMAIN orders = 1..Len(orders)
           /\ \A i \in DOMAIN orders : orders[i] \in Orders /\ orders[i].card \in Nat \ {0}
           /\ Len(cleared) \in Nat /\ DOMAIN cleared = 1..Len(cleared)
           /\ \A c \in DOMAIN cleared : cleared[c] \in [order: Nat, name: CardName]
<1>1. orders \in Seq(Orders) /\ cleared \in Seq([order: Nat, name: CardName])
  BY DEF CardInv, CardTypeOK
<1>2. \A i \in DOMAIN orders : orders[i] \in Orders
  BY <1>1, SeqFacts
<1> QED
  BY <1>1, <1>2, SeqFacts DEF Orders

LEMMA CardInitially == CardInit => CardInv
<1> SUFFICES ASSUME CardInit PROVE CardInv
  OBVIOUS
<1>1. CardTypeOK
  BY DEF CardInit, CardTypeOK, Cards, NoCard, Names
<1>2. orders = <<>> /\ cleared = <<>> /\ card.order = 0 /\ card.prev = None /\ card.step = "idle"
  BY DEF CardInit, NoCard
<1>3. \A w \in Payer : {primaryIs[w], primarySeen[w]} \subseteq wasPrimary[w] \cup {None}
  BY DEF CardInit
<1>4. DOMAIN orders = {} /\ DOMAIN cleared = {} /\ Len(orders) = 0
  BY <1>2
<1> QED
  BY <1>1, <1>2, <1>3, <1>4
     DEF CardInv, OrdersAreTheirs, CardIsAtItsOrder, OneUnderWay, PrevWasPrimary, ClearedOnce

------------------------------------------------------------------------------
LEMMA CardStays ==
    ASSUME CardInv
    PROVE  /\ primarySeen \in [Payer -> Names]
           /\ \A w \in Payer : {primaryIs[w], primarySeen[w]} \subseteq wasPrimary[w] \cup {None}
           /\ card \in Cards /\ cardWallet \in Payer \cup {None}
           /\ card.id # 0 => card.name \in CardName
           /\ mounts \in Nat /\ card.id <= mounts
BY DEF CardInv, CardTypeOK, PrevWasPrimary

\* What is shown, chosen and read in between leaves the registrations alone, and a card
\* that stays keeps what it knows of its own.
LEMMA SameCardKeeps ==
    ASSUME CardInv, UNCHANGED <<mounts, orders, cleared, primaryIs, wasPrimary>>,
           primarySeen' \in [Payer -> Names],
           \A w \in Payer : primarySeen'[w] \in wasPrimary[w] \cup {None},
           card' \in Cards, card'.id = card.id, card'.order = card.order,
           card'.step \in {card.step, "idle"}, card'.step = card.step \/ card.step = "success",
           card'.prev = card.prev,
           card'.attempted = card.attempted, cardWallet' \in Payer \cup {None},
           card.id # 0 => card'.name \in CardName
    PROVE  CardInv'
<1>1. CardTypeOK'
  BY DEF CardInv, CardTypeOK
<1>2. OrdersAreTheirs' /\ OneUnderWay'
  BY DEF CardInv, OrdersAreTheirs, OneUnderWay
<1>3. CardIsAtItsOrder'
  <2>1. card.order # 0 => orders[card.order].state = card.step \/ card.step = "idle"
    BY DEF CardInv, CardIsAtItsOrder
  <2>2. \A i \in DOMAIN orders : orders[i].state = "busy" /\ orders[i].card = card.id
          => card'.step = "busy"
    BY OrderFacts DEF CardInv, CardIsAtItsOrder
  <2> QED
    BY <2>1, <2>2 DEF CardInv, CardIsAtItsOrder
<1>4. PrevWasPrimary'
  BY DEF CardInv, PrevWasPrimary
<1>5. ClearedOnce'
  BY DEF CardInv, ClearedOnce
<1> QED
  BY <1>1, <1>2, <1>3, <1>4, <1>5 DEF CardInv

\* A card that goes, or comes, has registered nothing.
LEMMA NewCardKeeps ==
    ASSUME CardInv, UNCHANGED <<cardWallet, orders, cleared, primaryVars>>,
           mounts' \in Nat, mounts <= mounts',
           card' \in Cards, card'.order = 0, card'.step = "idle", card'.prev = None,
           card'.id <= mounts', card'.id # 0 => card'.name \in CardName,
           card'.id \in {0, mounts + 1}
    PROVE  CardInv'
<1>1. CardTypeOK'
  BY DEF CardInv, CardTypeOK, primaryVars
<1>2. OrdersAreTheirs' /\ OneUnderWay'
  BY DEF CardInv, OrdersAreTheirs, OneUnderWay
<1>3. CardIsAtItsOrder'
  <2>1. \A i \in DOMAIN orders : orders[i].card \in Nat \ {0} /\ orders[i].card <= mounts
    BY OrderFacts DEF CardInv, CardIsAtItsOrder
  <2> QED
    BY <2>1, OrderFacts, CardStays DEF CardInv, CardIsAtItsOrder, Cards
<1>4. PrevWasPrimary'
  BY DEF CardInv, PrevWasPrimary, primaryVars
<1>5. ClearedOnce'
  <2>1. \A c \in DOMAIN cleared : cleared[c].order # 0
    BY OrderFacts DEF CardInv, ClearedOnce
  <2> QED
    BY <2>1 DEF CardInv, ClearedOnce, primaryVars
<1> QED
  BY <1>1, <1>2, <1>3, <1>4, <1>5 DEF CardInv

LEMMA DisplayKeeps ==
    ASSUME CardInv, NEW n \in CardName \cup {None}, Display(n)
    PROVE  CardInv'
<1>1. UNCHANGED <<cardWallet, orders, cleared, primaryVars>> /\ None \notin CardName
      /\ card \in Cards /\ mounts \in Nat /\ card.id <= mounts /\ card.id \in Nat
  BY CardStays DEF Display, Cards
<1>2. CASE n = None
  <2>1. card' = NoCard /\ mounts' \in Nat /\ mounts <= mounts'
    BY <1>1, <1>2 DEF Display
  <2>2. NoCard \in Cards /\ NoCard.order = 0 /\ NoCard.step = "idle" /\ NoCard.prev = None
        /\ NoCard.id = 0
    BY DEF NoCard, Cards, Names
  <2> QED
    BY <1>1, <2>1, <2>2, NewCardKeeps
<1>3. CASE n # None /\ Mounted
  <2>1. card' = [card EXCEPT !.name = n] /\ n \in CardName /\ mounts' = mounts
    BY <1>3 DEF Display
  <2>2. card' \in Cards /\ card'.id = card.id /\ card'.order = card.order /\ card'.step = card.step
        /\ card'.prev = card.prev /\ card'.attempted = card.attempted /\ card'.name = n
    BY <1>1, <2>1 DEF Cards, Names
  <2> QED
    BY <1>1, <2>1, <2>2, CardStays, SameCardKeeps DEF primaryVars
<1>4. CASE n # None /\ ~Mounted
  <2>1. card' = [NoCard EXCEPT !.id = mounts + 1, !.name = n]
    BY <1>4 DEF Display
  <2>3. n \in CardName /\ mounts' = mounts + 1
    BY <1>4 DEF Display
  <2>4. card' = [id |-> mounts + 1, name |-> n, period |-> FirstPeriod, reverse |-> TRUE,
                 use |-> FALSE, step |-> "idle", order |-> 0, prev |-> None, attempted |-> FALSE]
    BY <2>1 DEF NoCard
  <2>2. card' \in Cards /\ card'.order = 0 /\ card'.step = "idle" /\ card'.prev = None
        /\ card'.id = mounts + 1 /\ card'.name = n
    BY <1>1, <2>3, <2>4 DEF Cards, Names
  <2> QED
    BY <1>1, <2>2, <2>3, NewCardKeeps
<1> QED
  BY <1>2, <1>3, <1>4

\* The steps that leave the card at its registration.
LEMMA LookingKeeps ==
    ASSUME CardInv,
           \/ \E w \in Payer \cup {None} : Connect(w)
           \/ \E p \in Period : SetDuration(p)
           \/ SetReverseRecord \/ SelectDiscount \/ ReadQuote \/ RunEffects \/ DiscountAnswers
           \/ ResetCard
    PROVE  CardInv'
<1>1. /\ UNCHANGED <<mounts, orders, cleared, primaryVars>>
      /\ cardWallet' \in Payer \cup {None}
      /\ \/ card' = card
         \/ \E p \in Period : card' = [card EXCEPT !.period = p]
         \/ card' = [card EXCEPT !.reverse = ~@]
         \/ card' = [card EXCEPT !.use = ~@]
         \/ PreferDiscount
         \/ card.step = "success" /\ card' = [card EXCEPT !.step = "idle"]
  BY CardStays DEF Connect, SetDuration, SetReverseRecord, SelectDiscount, ReadQuote, RunEffects,
                   DiscountAnswers, ResetCard, CardOnly
<1>2. card \in Cards
  BY CardStays
<1>3. /\ card' \in Cards /\ card'.id = card.id /\ card'.order = card.order
      /\ card'.step \in {card.step, "idle"} /\ (card'.step = card.step \/ card.step = "success")
      /\ card'.prev = card.prev /\ card'.attempted = card.attempted /\ card'.name = card.name
  BY <1>1, <1>2 DEF Cards, PreferDiscount
<1> QED
  BY <1>1, <1>3, CardStays, SameCardKeeps DEF primaryVars

LEMMA ReadPrimaryKeeps ==
    ASSUME CardInv, NEW w \in Payer, ReadPrimary(w)
    PROVE  CardInv'
<1>1. UNCHANGED <<card, cardWallet, mounts, orders, cleared, primaryIs, wasPrimary>>
      /\ primarySeen' = [primarySeen EXCEPT ![w] = primaryIs[w]]
  BY DEF ReadPrimary
<1>2. primarySeen' \in [Payer -> Names]
      /\ \A v \in Payer : primarySeen'[v] \in wasPrimary[v] \cup {None}
  BY <1>1, CardStays DEF CardInv, CardTypeOK
<1> QED
  BY <1>1, <1>2, CardStays, SameCardKeeps

------------------------------------------------------------------------------
\* A click adds a registration, to which the card turns.
LEMMA RegisterKeeps ==
    ASSUME CardInv, HandleRegister
    PROVE  CardInv'
<1> DEFINE o == [card |-> card.id, wallet |-> cardWallet, name |-> card.name,
                 period |-> card.period, quoted |-> IF quote = "read" THEN Asked ELSE None,
                 proof |-> IF discountSelected THEN Discount ELSE None,
                 primary |-> card.reverse, state |-> "busy"]
           m == Len(orders)
<1>1. /\ orders' = Append(orders, o)
      /\ card' = [card EXCEPT !.step = "busy", !.order = m + 1, !.prev = PrevPrimary,
                              !.attempted = FALSE]
      /\ UNCHANGED <<mounts, cardWallet, primaryVars, cleared>>
  BY DEF HandleRegister
<1>2. card \in Cards /\ card.id # 0 /\ cardWallet \in Payer /\ card.name \in CardName
      /\ card.step \in {"idle", "failed"} /\ mounts \in Nat /\ card.id <= mounts
  BY CardStays DEF HandleRegister, RegisterButton, Mounted
<1>3. o \in Orders /\ o.card = card.id /\ o.wallet = cardWallet /\ o.name = card.name
      /\ o.primary = card.reverse /\ o.state = "busy"
      /\ o.quoted \in {<<o.name, o.period>>, None}
      /\ o.proof \in {<<o.wallet, o.name, o.period>>, None}
  <2>1. Asked = <<card.name, card.period>> /\ Asked \in CardName \X Period
    BY <1>2 DEF Asked, Cards
  <2>2. Discount \in {<<cardWallet, card.name, card.period>>, None}
        /\ <<cardWallet, card.name, card.period>> \in Payer \X CardName \X Period
    BY <1>2 DEF Discount, OfferKey, Cards
  <2> QED
    BY <1>2, <2>1, <2>2 DEF Orders, Cards
<1> HIDE DEF o
<1>4. PrevPrimary \in Names /\ (PrevPrimary # None => card.reverse /\ PrevPrimary \in wasPrimary[cardWallet])
  BY <1>2, CardStays DEF PrevPrimary, Names
<1>5. /\ card' \in Cards /\ card'.id = card.id /\ card'.order = m + 1 /\ card'.step = "busy"
      /\ card'.prev = PrevPrimary /\ card'.attempted = FALSE /\ card'.name = card.name
  <2>1. /\ m + 1 \in Nat /\ {card.id, card.order} \subseteq Nat
        /\ card' = [card EXCEPT !.step = "busy", !.order = m + 1, !.prev = PrevPrimary,
                                !.attempted = FALSE]
    BY <1>1, <1>2, OrderFacts DEF Cards
  <2> HIDE DEF m
  <2> QED
    BY <1>2, <1>4, <2>1 DEF Cards
<1>6. /\ orders' \in Seq(Orders) /\ m \in Nat /\ DOMAIN orders = 1..m
      /\ DOMAIN orders' = 1..(m + 1) /\ Len(orders') = m + 1
      /\ \A i \in 1..m : orders'[i] = orders[i]
      /\ orders'[m + 1] = o
  <2>1. orders \in Seq(Orders)
    BY DEF CardInv, CardTypeOK
  <2> QED
    BY <1>1, <1>3, <2>1, AppendFacts
<1>7. \A i \in 1..m : ~(orders[i].state = "busy" /\ orders[i].card = card.id)
  BY <1>2, <1>6 DEF CardInv, CardIsAtItsOrder
<1>8. CardTypeOK'
  BY <1>1, <1>2, <1>5, <1>6 DEF CardInv, CardTypeOK, primaryVars
<1>9. OrdersAreTheirs'
  BY <1>3, <1>6 DEF CardInv, OrdersAreTheirs
<1>10. CardIsAtItsOrder'
  <2>1. \A i \in 1..m : orders[i].card <= mounts
    BY <1>6 DEF CardInv, CardIsAtItsOrder
  <2>2. m + 1 \in 0..(m + 1) /\ m + 1 # 0
    BY <1>6
  <2>3. ASSUME NEW i \in 1..(m + 1)
        PROVE  /\ orders'[i].card <= mounts
               /\ orders'[i].card = card.id /\ orders'[i].state = "busy" => m + 1 = i
    <3>1. CASE i \in 1..m
      BY <1>6, <1>7, <2>1, <3>1
    <3>2. CASE i = m + 1
      BY <1>2, <1>3, <1>6, <3>2
    <3> QED
      BY <1>6, <3>1, <3>2
  <2> QED
    BY <1>1, <1>3, <1>5, <1>6, <2>2, <2>3 DEF CardIsAtItsOrder
<1>11. OneUnderWay'
  <2>1. \A i, j \in 1..m : orders[i].card = orders[j].card /\ orders[i].state = "busy"
           /\ orders[j].state = "busy" => i = j
    BY <1>6 DEF CardInv, OneUnderWay
  <2>2. ASSUME NEW i \in 1..(m + 1), NEW j \in 1..(m + 1), orders'[i].card = orders'[j].card,
               orders'[i].state = "busy", orders'[j].state = "busy"
        PROVE  i = j
    <3>1. CASE i \in 1..m /\ j \in 1..m
      BY <1>6, <2>1, <2>2, <3>1
    <3>2. CASE i = m + 1
      BY <1>3, <1>6, <1>7, <2>2, <3>2
    <3>3. CASE j = m + 1
      BY <1>3, <1>6, <1>7, <2>2, <3>3
    <3> QED
      BY <1>6, <3>1, <3>2, <3>3
  <2> QED
    BY <1>6, <2>2 DEF OneUnderWay
<1>12. PrevWasPrimary'
  <2>1. card'.prev # None => orders'[card'.order].primary
          /\ card'.prev \in wasPrimary[orders'[card'.order].wallet]
    BY <1>3, <1>4, <1>5, <1>6
  <2> QED
    BY <1>1, <2>1, CardStays DEF PrevWasPrimary, primaryVars
<1>13. ClearedOnce'
  <2>1. \A c \in DOMAIN cleared : cleared[c].order \in 1..m /\ cleared[c].order # m + 1
    BY <1>6 DEF CardInv, ClearedOnce
  <2> QED
    BY <1>1, <1>5, <1>6, <2>1 DEF CardInv, ClearedOnce, primaryVars
<1> QED
  BY <1>8, <1>9, <1>10, <1>11, <1>12, <1>13 DEF CardInv

\* A registration that ends changes its state and nothing else about it.
LEMMA EndedOrder ==
    ASSUME CardInv, NEW i \in DOMAIN orders, NEW how \in {"success", "failed"},
           orders' = [orders EXCEPT ![i].state = how]
    PROVE  /\ orders' \in Seq(Orders) /\ DOMAIN orders' = DOMAIN orders
           /\ Len(orders') = Len(orders)
           /\ \A j \in DOMAIN orders \ {i} : orders'[j] = orders[j]
           /\ orders'[i].state = how
           /\ \A j \in DOMAIN orders :
                /\ orders'[j].card = orders[j].card /\ orders'[j].wallet = orders[j].wallet
                /\ orders'[j].name = orders[j].name /\ orders'[j].period = orders[j].period
                /\ orders'[j].quoted = orders[j].quoted /\ orders'[j].proof = orders[j].proof
                /\ orders'[j].primary = orders[j].primary
<1>1. orders \in Seq(Orders) /\ orders[i] \in Orders /\ DOMAIN orders = 1..Len(orders)
      /\ Len(orders) \in Nat
  BY OrderFacts DEF CardInv, CardTypeOK
<1> DEFINE o == [orders[i] EXCEPT !.state = how]
<1>2. orders' = [orders EXCEPT ![i] = o]
  OBVIOUS
<1>3. /\ o \in Orders /\ o.state = how /\ o.card = orders[i].card /\ o.wallet = orders[i].wallet
      /\ o.name = orders[i].name /\ o.period = orders[i].period /\ o.quoted = orders[i].quoted
      /\ o.proof = orders[i].proof /\ o.primary = orders[i].primary
  BY <1>1 DEF Orders
<1> HIDE DEF o
<1>4. /\ orders' \in Seq(Orders) /\ DOMAIN orders' = DOMAIN orders /\ Len(orders') = Len(orders)
      /\ \A j \in DOMAIN orders \ {i} : orders'[j] = orders[j]
      /\ orders'[i] = o
  BY <1>1, <1>2, <1>3
<1> QED
  BY <1>3, <1>4

LEMMA OrderEndsKeeps ==
    ASSUME CardInv, NEW i \in DOMAIN orders, NEW how \in {"success", "failed"}, OrderEnds(i, how)
    PROVE  CardInv'
<1>1. /\ orders' = [orders EXCEPT ![i].state = how]
      /\ orders[i].state = "busy"
      /\ UNCHANGED <<mounts, cardWallet, primarySeen, cleared>>
  BY DEF OrderEnds
<1>2. /\ DOMAIN orders' = DOMAIN orders /\ orders' \in Seq(Orders) /\ Len(orders') = Len(orders)
      /\ \A j \in DOMAIN orders \ {i} : orders'[j] = orders[j]
      /\ orders'[i].state = how
      /\ \A j \in DOMAIN orders :
           /\ orders'[j].card = orders[j].card /\ orders'[j].wallet = orders[j].wallet
           /\ orders'[j].name = orders[j].name /\ orders'[j].period = orders[j].period
           /\ orders'[j].quoted = orders[j].quoted /\ orders'[j].proof = orders[j].proof
           /\ orders'[j].primary = orders[j].primary
  BY <1>1, EndedOrder
<1>3. card \in Cards /\ orders[i] \in Orders /\ orders[i].card \in Nat \ {0}
  BY OrderFacts, CardStays
<1>4. /\ card' \in Cards /\ card'.id = card.id /\ card'.order = card.order /\ card'.prev = card.prev
      /\ card'.attempted = card.attempted /\ card'.name = card.name
      /\ card'.step = IF card.id = orders[i].card THEN how ELSE card.step
  BY <1>3 DEF OrderEnds, Cards
<1>5. /\ primaryIs' \in [Payer -> Names] /\ wasPrimary' \in [Payer -> SUBSET Names]
      /\ \A w \in Payer : wasPrimary[w] \subseteq wasPrimary'[w]
      /\ \A w \in Payer : primaryIs'[w] \in wasPrimary'[w] \cup {None}
  <2>1. /\ primaryIs \in [Payer -> Names] /\ wasPrimary \in [Payer -> SUBSET Names]
        /\ orders[i].wallet \in Payer /\ orders[i].name \in Names
        /\ \A w \in Payer : primaryIs[w] \in wasPrimary[w] \cup {None}
    BY <1>3, CardStays DEF CardInv, CardTypeOK, Orders, Names
  <2>2. CASE how = "success" /\ orders[i].primary
    <3>1. /\ primaryIs' = [primaryIs EXCEPT ![orders[i].wallet] = orders[i].name]
          /\ wasPrimary' = [wasPrimary EXCEPT ![orders[i].wallet] = @ \cup {orders[i].name}]
      BY <2>2 DEF OrderEnds
    <3> QED
      BY <2>1, <3>1
  <2>3. CASE ~(how = "success" /\ orders[i].primary)
    BY <2>1, <2>3 DEF OrderEnds
  <2> QED
    BY <2>2, <2>3
<1>6. CardTypeOK'
  BY <1>1, <1>2, <1>4, <1>5 DEF CardInv, CardTypeOK
<1>7. OrdersAreTheirs'
  BY <1>2 DEF CardInv, OrdersAreTheirs
<1>8. CardIsAtItsOrder'
  <2>1. card.id = orders[i].card => card.order = i
    BY <1>1 DEF CardInv, CardIsAtItsOrder
  <2>2. card.order = i => card.id = orders[i].card
    BY <1>2, OrderFacts DEF CardInv, CardIsAtItsOrder
  <2>3. card.order \in 0..Len(orders')
    BY <1>2 DEF CardInv, CardIsAtItsOrder
  <2>4. card.order = 0 => card'.step = "idle" /\ card'.prev = None
    BY <1>4, <2>1, OrderFacts DEF CardInv, CardIsAtItsOrder
  <2>5. card.order # 0 => orders'[card.order].card = card.id
          /\ (card'.step # "idle" => orders'[card.order].state = card'.step)
    <3>1. card.order # 0 => card.order \in DOMAIN orders
      BY OrderFacts DEF CardInv, CardIsAtItsOrder
    <3>2. CASE card.order = i
      BY <1>2, <1>4, <2>2, <3>2
    <3>3. CASE card.order # i
      BY <1>2, <1>4, <2>1, <3>1, <3>3 DEF CardInv, CardIsAtItsOrder
    <3> QED
      BY <3>2, <3>3
  <2>6. ASSUME NEW j \in DOMAIN orders
        PROVE  /\ orders'[j].card <= mounts
               /\ orders'[j].card = card.id /\ orders'[j].state = "busy" =>
                    card.order = j /\ card'.step = "busy"
    BY <1>2, <1>4, <2>1 DEF CardInv, CardIsAtItsOrder
  <2> QED
    BY <1>1, <1>2, <1>4, <2>3, <2>4, <2>5, <2>6 DEF CardIsAtItsOrder
<1>9. OneUnderWay'
  BY <1>2 DEF CardInv, OneUnderWay
<1>10. PrevWasPrimary'
  <2>1. card.prev # None => card.order \in DOMAIN orders
    BY OrderFacts DEF CardInv, CardIsAtItsOrder
  <2>2. card.prev # None => orders[card.order].wallet \in Payer
    BY <2>1, OrderFacts DEF Orders
  <2>3. card.prev # None => orders'[card.order].primary
          /\ card.prev \in wasPrimary'[orders'[card.order].wallet]
    BY <1>2, <1>5, <2>1, <2>2 DEF CardInv, PrevWasPrimary
  <2>4. \A w \in Payer : primarySeen[w] \in wasPrimary'[w] \cup {None}
    BY <1>5, CardStays
  <2> QED
    BY <1>1, <1>4, <1>5, <2>3, <2>4 DEF PrevWasPrimary
<1>11. ClearedOnce'
  <2>1. ASSUME NEW c \in DOMAIN cleared
        PROVE  /\ cleared[c].order \in DOMAIN orders /\ cleared[c].order # i
               /\ orders[cleared[c].order].wallet \in Payer
    BY <1>1, OrderFacts DEF CardInv, ClearedOnce, Orders
  <2>2. ASSUME NEW c \in DOMAIN cleared
        PROVE  /\ orders'[cleared[c].order].state = "success"
               /\ orders'[cleared[c].order].primary
               /\ cleared[c].name \in wasPrimary'[orders'[cleared[c].order].wallet]
                                       \ {orders'[cleared[c].order].name}
               /\ card.order = cleared[c].order => card.attempted
    BY <1>2, <1>5, <2>1 DEF CardInv, ClearedOnce
  <2> QED
    BY <1>1, <1>2, <1>4, <2>1, <2>2 DEF CardInv, ClearedOnce
<1> QED
  BY <1>6, <1>7, <1>8, <1>9, <1>10, <1>11 DEF CardInv

\* What is cleared is what the card kept for the registration it is at.
LEMMA ClearKeeps ==
    ASSUME CardInv, RunClearEffect
    PROVE  CardInv'
<1>1. /\ card.step = "success" /\ ~card.attempted /\ card.prev # None
      /\ card' = [card EXCEPT !.attempted = TRUE]
      /\ UNCHANGED <<mounts, cardWallet, primaryVars, orders>>
  BY DEF RunClearEffect, CardOnly
<1>2. /\ card' \in Cards /\ card'.id = card.id /\ card'.order = card.order /\ card'.prev = card.prev
      /\ card'.attempted = TRUE /\ card'.name = card.name /\ card'.step = card.step
  BY <1>1, CardStays DEF Cards
<1>3. /\ card.order \in DOMAIN orders /\ orders[card.order].state = "success"
      /\ orders[card.order].primary /\ card.prev \in wasPrimary[orders[card.order].wallet]
      /\ card.prev \in CardName /\ card.order \in Nat
  <2>1. card.order \in 0..Len(orders) /\ card.order # 0
    BY <1>1 DEF CardInv, CardIsAtItsOrder
  <2>2. card.prev \in CardName /\ card.order \in Nat
    BY <1>1, CardStays DEF Cards, Names
  <2> QED
    BY <1>1, <2>1, <2>2, OrderFacts DEF CardInv, CardIsAtItsOrder, PrevWasPrimary
<1>4. CASE card.prev = orders[card.order].name
  <2>1. cleared' = cleared
    BY <1>4 DEF RunClearEffect
  <2>2. CardTypeOK' /\ OrdersAreTheirs' /\ OneUnderWay'
    BY <1>1, <1>2, <2>1 DEF CardInv, CardTypeOK, OrdersAreTheirs, OneUnderWay, primaryVars
  <2>3. CardIsAtItsOrder' /\ PrevWasPrimary' /\ ClearedOnce'
    BY <1>1, <1>2, <2>1 DEF CardInv, CardIsAtItsOrder, PrevWasPrimary, ClearedOnce, primaryVars
  <2> QED
    BY <2>2, <2>3 DEF CardInv
<1>5. CASE card.prev # orders[card.order].name
  <2> DEFINE e == [order |-> card.order, name |-> card.prev]
             n == Len(cleared)
  <2>1. cleared' = Append(cleared, e)
    BY <1>5 DEF RunClearEffect
  <2>2. e \in [order: Nat, name: CardName] /\ e.order = card.order /\ e.name = card.prev
    BY <1>3
  <2> HIDE DEF e
  <2>3. /\ cleared' \in Seq([order: Nat, name: CardName])
        /\ n \in Nat /\ DOMAIN cleared = 1..n /\ DOMAIN cleared' = 1..(n + 1)
        /\ \A c \in 1..n : cleared'[c] = cleared[c]
        /\ cleared'[n + 1] = e
    <3>1. cleared \in Seq([order: Nat, name: CardName])
      BY DEF CardInv, CardTypeOK
    <3> QED
      BY <2>1, <2>2, <3>1, AppendFacts
  <2>4. CardTypeOK' /\ OrdersAreTheirs' /\ OneUnderWay'
    BY <1>1, <1>2, <2>3 DEF CardInv, CardTypeOK, OrdersAreTheirs, OneUnderWay, primaryVars
  <2>5. CardIsAtItsOrder' /\ PrevWasPrimary'
    BY <1>1, <1>2 DEF CardInv, CardIsAtItsOrder, PrevWasPrimary, primaryVars
  <2>6. \A c \in 1..n : cleared[c].order # card.order
    BY <1>1, <2>3 DEF CardInv, ClearedOnce
  <2>7. ASSUME NEW c \in 1..(n + 1)
        PROVE  /\ cleared'[c].order \in DOMAIN orders
               /\ orders[cleared'[c].order].state = "success"
               /\ orders[cleared'[c].order].primary
               /\ cleared'[c].name \in wasPrimary[orders[cleared'[c].order].wallet]
                                        \ {orders[cleared'[c].order].name}
    <3>1. CASE c \in 1..n
      BY <2>3, <3>1 DEF CardInv, ClearedOnce
    <3>2. CASE c = n + 1
      BY <1>3, <1>5, <2>2, <2>3, <3>2
    <3> QED
      BY <2>3, <3>1, <3>2
  <2>8. ASSUME NEW c \in 1..(n + 1), NEW d \in 1..(n + 1), cleared'[c].order = cleared'[d].order
        PROVE  c = d
    <3>1. CASE c \in 1..n /\ d \in 1..n
      BY <2>3, <2>8, <3>1 DEF CardInv, ClearedOnce
    <3>2. CASE c = n + 1 \/ d = n + 1
      BY <2>2, <2>3, <2>6, <2>8, <3>2
    <3> QED
      BY <2>3, <3>1, <3>2
  <2>9. ClearedOnce'
    BY <1>1, <1>2, <2>3, <2>7, <2>8 DEF ClearedOnce, primaryVars
  <2> QED
    BY <2>4, <2>5, <2>9 DEF CardInv
<1> QED
  BY <1>4, <1>5

LEMMA CardStep == CardInv /\ [CardNext]_cardVars => CardInv'
<1> SUFFICES ASSUME CardInv, [CardNext]_cardVars PROVE CardInv'
  OBVIOUS
<1>1. CASE UNCHANGED cardVars
  BY <1>1 DEF cardVars, primaryVars, CardInv, CardTypeOK, OrdersAreTheirs, CardIsAtItsOrder,
              OneUnderWay, PrevWasPrimary, ClearedOnce
<1>2. CASE CardNext
  BY <1>2, DisplayKeeps, LookingKeeps, ReadPrimaryKeeps, RegisterKeeps, OrderEndsKeeps, ClearKeeps
     DEF CardNext
<1> QED
  BY <1>1, <1>2

LEMMA CardInvIsEnough == CardInv => CardKeepsItsWord
BY DEF CardInv, OrdersAreTheirs, OneUnderWay, ClearedOnce, CardKeepsItsWord

\* The inductive invariant of the card: its orders are those of what it displayed, it is at
\* the stage of its newest one, and what it clears, it clears once.
THEOREM CardInvariant == CardSpec => []CardInv
BY CardInitially, CardStep, PTL DEF CardSpec

\* Whatever the card has been shown, told and asked in between, a registration is bought at
\* the quote and with the discount of the very name, period and wallet it is for, a card has
\* one registration under way at a time, and what is cleared after one, once, is another name
\* that has been the buyer's primary name.
THEOREM CardKeepsItsWordHolds == CardSpec => []CardKeepsItsWord
BY CardInvariant, CardInvIsEnough, PTL

------------------------------------------------------------------------------
(* All lookups together (MCClients).                                        *)

LookupsInv ==
    RoutesInv /\ PageInv /\ ResolutionInv /\ OwnedInv /\ SearchInv /\ NamesInv

LEMMA LookupsInitially == ClientsInit => LookupsInv
<1> SUFFICES ASSUME ClientsInit PROVE LookupsInv
  OBVIOUS
<1>1. RoutesInit /\ PageInit /\ ResolutionInit /\ OwnedInit /\ SearchInit /\ NamesInit
  BY DEF ClientsInit
<1>2. NamesInv
  BY <1>1, EmptySeq DEF NamesInit, NamesInv
<1> QED
  BY <1>1, <1>2, RoutesInitially, PageInitially, ResolutionInitially, OwnedInitially,
     SearchInitially DEF LookupsInv

\* A step is one of one part, and leaves the variables of the others.
LEMMA LookupSteps ==
    ASSUME [ClientsNext]_clientsVars
    PROVE  /\ [RoutesNext]_routeVars /\ [PageNext]_pageVars /\ [ResolutionNext]_resolutionVars
           /\ [OwnedNext]_ownedVars /\ [SearchNext]_searchVars /\ [TypeCharacter]_namesVars
<1>1. CASE UNCHANGED clientsVars
  BY <1>1 DEF clientsVars, lookingVars
<1>2. CASE UNCHANGED lookingVars
  BY <1>2 DEF lookingVars
<1>3. CASE ClientsNext /\ ~UNCHANGED lookingVars
  BY <1>3, Zenon DEF ClientsNext, Looking, Writing, Indexing, Campaigning, In
<1> QED
  BY <1>1, <1>2, <1>3

LEMMA LookupsStep == LookupsInv /\ [ClientsNext]_clientsVars => LookupsInv'
  BY LookupSteps, RoutesStep, PageStep, ResolutionStep, OwnedStep, SearchStep, NamesStep
     DEF LookupsInv

LEMMA LookupsInvIsEnough == LookupsInv => LookupsAreTheirs
<1>1. RoutesInv => RoutesRecent
  BY DEF RoutesInv
<1>2. ResolutionInv => ShownIsRecent
  BY DEF ResolutionInv
<1>3. OwnedInv => OwnListShown
  BY DEF OwnedInv
<1> QED
  BY <1>1, <1>2, <1>3, PageInvIsEnough, SearchInvIsEnough, NamesInvIsEnough
     DEF LookupsInv, LookupsAreTheirs

\* What is answered, shown and looked up is of the name or the wallet asked and
\* as recent as the caches and checks promise.
THEOREM LookupsAreTheirsHolds == ClientsSpec => []LookupsAreTheirs
<1> QED
  BY LookupsInitially, LookupsStep, LookupsInvIsEnough, PTL DEF ClientsSpec

(***************************************************************************)
(* The purchases: what may be wrong when a payment is included.            *)
(***************************************************************************)

BuyStep == {"idle", "approving", "committing", "waiting", "registering", "renewing",
            "success", "failed"}
Buy == [at : BuyStep, renewal : BOOLEAN, domain : Domain \cup {Vacant}, discount : BOOLEAN,
        cost : Nat, waited : Nat]
Transaction == [by : Purchase, what : {"approve", "commit", "pay"}, amount : Nat, waited : Nat]

PaymentsTyped ==
    /\ purchase \in [Purchase -> Buy]
    /\ offer \in [price : Nat, discount : BOOLEAN] /\ price \in Nat
    /\ pool \in Seq(Transaction)
    /\ commitAge \in [Purchase -> Nat \cup {Absent}] /\ commitLag \in [Purchase -> Nat]

\* The order in which a purchase sends its transactions.
Before(a, b) ==
    \/ a = "approve" /\ b \in {"commit", "pay"}
    \/ a = "commit" /\ b = "pay"

Under(p, what) == \E i \in 1..Len(pool) : pool[i].by = p /\ pool[i].what = what
Unpaid(p) == purchase[p].at # "success" \/ Under(p, "pay")

\* What is under way is of the step the purchase has reached.
TxAgrees(tx) ==
    /\ purchase[tx.by].at \notin {"idle", "approving"}
    /\ tx.what = "approve" => tx.amount = maxCostWithSlippage(purchase[tx.by].cost)
    /\ tx.what = "commit" => /\ purchase[tx.by].at # "committing"
                             /\ purchase[tx.by].waited <= tx.waited
    /\ tx.what = "pay" => purchase[tx.by].at = "success"

PoolAgrees == \A i \in 1..Len(pool) : TxAgrees(pool[i])
PoolOrdered ==
    \A i, j \in 1..Len(pool) :
       i < j /\ pool[i].by = pool[j].by => Before(pool[i].what, pool[j].what)

\* The hook has waited no longer than the commitment has been under way and on the chain.
WaitCovers(p) ==
    LET buy == purchase[p] IN
    /\ buy.at \in {"idle", "approving", "committing"} => buy.waited = 0 /\ commitAge[p] = Absent
    /\ buy.at \in {"committing", "waiting", "registering"} => ~buy.renewal
    /\ buy.at = "renewing" => buy.renewal
    /\ buy.at \in {"waiting", "registering", "success"} /\ ~buy.renewal
          => Under(p, "commit") \/ commitAge[p] # Absent
    /\ buy.at \in {"registering", "success"} /\ ~buy.renewal => buy.waited >= WAIT
    /\ commitAge[p] # Absent /\ commitAge[p] < MIN_AGE => buy.waited <= commitLag[p] + commitAge[p]

\* The allowance is still the one of the purchase that gave it last, until that pays.
AllowanceKept(p) ==
    approvedFor = p =>
       /\ purchase[p].at \notin {"idle", "approving"}
       /\ Unpaid(p) => allowance = maxCostWithSlippage(purchase[p].cost)

PaymentsInv ==
    /\ PaymentsTyped /\ PoolAgrees /\ PoolOrdered
    /\ \A p \in Purchase : WaitCovers(p) /\ AllowanceKept(p)

\* The payment at the head has its approval and its commitment behind it.
LEMMA PaymentsInvGives ==
    ASSUME PaymentsInv, NEW p \in Purchase, Settles(p)
    PROVE  /\ "early" \in Causes(p) => commitLag[p] > WAIT - MIN_AGE
           /\ "allowance" \in Causes(p) => "price" \in Causes(p) \/ approvedFor # p
  <1> USE DEF PaymentsInv
  <1>1. /\ 1 \in 1..Len(pool) /\ pool[1].what = "pay" /\ pool[1].by = p
        /\ Len(pool) \in Nat
    BY DEF Settles, PaymentsTyped
  <1>2. purchase[p].at = "success" /\ Under(p, "pay")
    BY <1>1 DEF PoolAgrees, TxAgrees, Under
  <1>3. ~Under(p, "commit")
    <2> SUFFICES ASSUME NEW i \in 1..Len(pool), pool[i].by = p, pool[i].what = "commit"
                 PROVE  FALSE
      BY DEF Under
    <2>1. 1 < i
      BY <1>1
    <2> QED
      BY <1>1, <2>1 DEF PoolOrdered, Before
  <1>4. "early" \in Causes(p) => commitLag[p] > WAIT - MIN_AGE
    <2> SUFFICES ASSUME ~purchase[p].renewal, commitAge[p] < MIN_AGE
                 PROVE  commitLag[p] > WAIT - MIN_AGE
      BY DEF Causes
    <2>1. /\ commitAge[p] # Absent /\ purchase[p].waited >= WAIT
          /\ purchase[p].waited <= commitLag[p] + commitAge[p]
      BY <1>2, <1>3 DEF WaitCovers
    <2>2. commitAge[p] \in Nat /\ commitLag[p] \in Nat /\ purchase[p].waited \in Nat
      BY <2>1 DEF PaymentsTyped, Buy
    <2> QED
      BY <2>1, <2>2, PaymentsAssumption
  <1>5. "allowance" \in Causes(p) => "price" \in Causes(p) \/ approvedFor # p
    <2> SUFFICES ASSUME CostOf(p) > allowance, approvedFor = p
                 PROVE  CostOf(p) > maxCostWithSlippage(purchase[p].cost)
      BY DEF Causes
    <2> QED
      BY <1>2 DEF AllowanceKept, Unpaid
  <1> QED
    BY <1>4, <1>5

LEMMA PaymentsStart ==
    ASSUME PaymentsInit
    PROVE  PaymentsInv
  <1> USE DEF PaymentsInit
  <1>1. price \in Nat /\ offer \in [price : Nat, discount : BOOLEAN]
    BY PaymentsAssumption
  <1>2. purchase \in [Purchase -> Buy]
    <2>1. [at |-> "idle", renewal |-> FALSE, domain |-> Vacant, discount |-> FALSE,
           cost |-> 0, waited |-> 0] \in Buy
      BY DEF Buy, BuyStep
    <2> QED
      BY <2>1
  <1>3. pool \in Seq(Transaction) /\ Len(pool) = 0
    OBVIOUS
  <1>4. PaymentsTyped
    BY <1>1, <1>2, <1>3 DEF PaymentsTyped
  <1>5. PoolAgrees /\ PoolOrdered
    BY <1>3 DEF PoolAgrees, PoolOrdered
  <1>6. \A p \in Purchase : /\ commitAge[p] = Absent /\ purchase[p].at = "idle"
                            /\ purchase[p].waited = 0 /\ approvedFor # p
    BY PaymentsAssumption
  <1>7. \A p \in Purchase : WaitCovers(p) /\ AllowanceKept(p)
    BY <1>6 DEF WaitCovers, AllowanceKept
  <1> QED
    BY <1>4, <1>5, <1>7 DEF PaymentsInv

LEMMA PoolMembers ==
    ASSUME PaymentsTyped, NEW i \in 1..Len(pool)
    PROVE  /\ pool[i] \in Transaction /\ pool[i].by \in Purchase
           /\ pool[i].what \in {"approve", "commit", "pay"} /\ pool[i].waited \in Nat
  <1>1. pool \in Seq(Transaction)
    BY DEF PaymentsTyped
  <1>2. pool[i] \in Transaction
    BY <1>1
  <1> QED
    BY <1>2 DEF Transaction

\* What the hook asks the wallet for goes to the end of the pool.
LEMMA AskKeeps ==
    ASSUME PaymentsInv, NEW p \in Purchase, NEW what \in {"approve", "commit", "pay"},
           NEW amount \in Nat, NEW then \in BuyStep, Ask(p, what, amount, then),
           \/ /\ what = "approve" /\ purchase[p].at = "approving"
              /\ amount = maxCostWithSlippage(purchase[p].cost)
              /\ then = IF purchase[p].renewal THEN "renewing" ELSE "committing"
           \/ what = "commit" /\ purchase[p].at = "committing" /\ then = "waiting"
           \/ what = "pay" /\ purchase[p].at \in {"registering", "renewing"} /\ then = "success"
    PROVE  PaymentsInv'
  <1> USE DEF PaymentsInv
  <1> DEFINE tx == [by |-> p, what |-> what, amount |-> amount, waited |-> 0]
             b  == [purchase[p] EXCEPT !.at = then]
             n  == Len(pool)
  <1>1. /\ pool' = Append(pool, tx) /\ purchase' = [purchase EXCEPT ![p] = b]
        /\ UNCHANGED <<offer, price, allowance, approvedFor, commitAge, commitLag>>
    BY DEF Ask, paymentChain, PaymentsTyped
  <1>2. /\ tx \in Transaction /\ tx.by = p /\ tx.what = what /\ tx.amount = amount
        /\ tx.waited = 0
    BY DEF Transaction
  <1>3. /\ b \in Buy /\ b.at = then /\ b.cost = purchase[p].cost
        /\ b.waited = purchase[p].waited /\ b.renewal = purchase[p].renewal
    <2>1. purchase[p] \in Buy
      BY DEF PaymentsTyped
    <2> QED
      BY <2>1 DEF Buy
  <1> HIDE DEF tx, b
  <1>4. /\ pool' \in Seq(Transaction) /\ n \in Nat /\ Len(pool') = n + 1
        /\ pool'[n + 1] = tx /\ \A i \in 1..n : pool'[i] = pool[i]
    BY <1>1, <1>2 DEF PaymentsTyped
  <1> HIDE DEF n
  <1>5. n = Len(pool)
    BY DEF n
  <1>6. /\ purchase' \in [Purchase -> Buy] /\ purchase'[p] = b
        /\ \A q \in Purchase : q # p => purchase'[q] = purchase[q]
    BY <1>1, <1>3 DEF PaymentsTyped
  <1>7. PaymentsTyped'
    BY <1>1, <1>4, <1>6 DEF PaymentsTyped
  <1>8. ASSUME NEW q \in Purchase, NEW x
        PROVE  Under(q, x)' <=> Under(q, x) \/ (q = p /\ x = what)
    <2>1. ASSUME Under(q, x)' PROVE Under(q, x) \/ (q = p /\ x = what)
      BY <1>2, <1>4, <1>5, <2>1 DEF Under
    <2>2. ASSUME Under(q, x) PROVE Under(q, x)'
      BY <1>4, <1>5, <2>2 DEF Under
    <2>3. ASSUME q = p, x = what PROVE Under(q, x)'
      <3>1. n + 1 \in 1..Len(pool')
        BY <1>4
      <3> QED
        BY <1>2, <1>4, <2>3, <3>1 DEF Under
    <2> QED
      BY <2>1, <2>2, <2>3
  <1>9. \A i \in 1..n : pool[i] \in Transaction /\ pool[i].by \in Purchase
                      /\ pool[i].what \in {"approve", "commit", "pay"}
    BY <1>5, PoolMembers
  <1>10. \A i \in 1..n : pool[i].by = p => Before(pool[i].what, what)
    BY <1>5, <1>9 DEF PoolAgrees, TxAgrees, Before
  <1>11. PoolOrdered'
    <2> SUFFICES ASSUME NEW i \in 1..(n + 1), NEW j \in 1..(n + 1),
                        i < j, pool'[i].by = pool'[j].by
                 PROVE  Before(pool'[i].what, pool'[j].what)
      BY <1>4 DEF PoolOrdered
    <2>1. i \in 1..n /\ pool'[i] = pool[i]
      BY <1>4
    <2>2. CASE j \in 1..n
      BY <1>4, <1>5, <2>1, <2>2 DEF PoolOrdered
    <2>3. CASE j = n + 1
      BY <1>2, <1>4, <1>10, <2>1, <2>3
    <2> QED
      BY <1>4, <2>2, <2>3
  <1>12. PoolAgrees'
    <2> SUFFICES ASSUME NEW i \in 1..(n + 1), NEW t, t = pool'[i] PROVE TxAgrees(t)'
      BY <1>4 DEF PoolAgrees, TxAgrees
    <2>1. CASE i = n + 1
      <3>1. then \notin {"idle", "approving"} /\ (what = "pay" => then = "success")
            /\ (what = "commit" => then # "committing" /\ purchase[p].waited = 0)
        BY DEF WaitCovers
      <3>2. t = tx /\ purchase'[tx.by] = b
        BY <1>2, <1>4, <1>6, <2>1
      <3> QED
        BY <1>2, <1>3, <3>1, <3>2 DEF TxAgrees
    <2>2. CASE i \in 1..n
      <3>1. t = pool[i] /\ TxAgrees(t) /\ t.by \in Purchase
        BY <1>4, <1>5, <1>9, <2>2 DEF PoolAgrees
      <3>2. CASE t.by # p
        BY <1>6, <3>1, <3>2 DEF TxAgrees
      <3>3. CASE t.by = p
        <4>1. t.what # "pay" /\ (t.what = "commit" => what = "pay")
          BY <1>9, <1>10, <2>2, <3>1, <3>3 DEF Before
        <4> QED
          BY <1>3, <1>6, <3>1, <3>3, <4>1 DEF TxAgrees
      <3> QED
        BY <3>2, <3>3
    <2> QED
      BY <1>4, <2>1, <2>2
  <1>13. ASSUME NEW q \in Purchase PROVE WaitCovers(q)'
    <2>1. WaitCovers(q)
      OBVIOUS
    <2>2. CASE q # p
      BY <1>1, <1>6, <1>8, <2>1, <2>2 DEF WaitCovers
    <2>3. CASE q = p
      BY <1>1, <1>3, <1>6, <1>8, <2>1, <2>3 DEF WaitCovers
    <2> QED
      BY <2>2, <2>3
  <1>14. ASSUME NEW q \in Purchase PROVE AllowanceKept(q)'
    <2>1. AllowanceKept(q)
      OBVIOUS
    <2>2. CASE q # p
      BY <1>1, <1>6, <1>8, <2>1, <2>2 DEF AllowanceKept, Unpaid
    <2>3. CASE q = p
      BY <1>1, <1>3, <1>6, <1>8, <2>1, <2>3 DEF AllowanceKept, Unpaid
    <2> QED
      BY <2>2, <2>3
  <1> QED
    BY <1>7, <1>11, <1>12, <1>13, <1>14

\* A click, the end of the wait, or a refusal.
LEMMA QuietKeeps ==
    ASSUME PaymentsInv, NEW p \in Purchase, NEW b \in Buy,
           purchase' = [purchase EXCEPT ![p] = b],
           UNCHANGED <<offer, pool, paymentChain>>,
           \/ purchase[p].at = "idle" /\ b.at = "approving" /\ b.waited = 0
           \/ /\ b.renewal = purchase[p].renewal /\ b.cost = purchase[p].cost
              /\ b.waited = purchase[p].waited /\ purchase[p].at \notin {"idle", "success"}
              /\ \/ b.at = "failed"
                 \/ purchase[p].at = "waiting" /\ b.at = "registering" /\ b.waited >= WAIT
    PROVE  PaymentsInv'
  <1> USE DEF PaymentsInv, paymentChain
  <1>1. /\ purchase' \in [Purchase -> Buy] /\ purchase'[p] = b
        /\ \A q \in Purchase : q # p => purchase'[q] = purchase[q]
    BY DEF PaymentsTyped
  <1>2. PaymentsTyped'
    BY <1>1 DEF PaymentsTyped
  <1>3. PoolOrdered'
    BY DEF PoolOrdered
  <1>4. PoolAgrees'
    <2> SUFFICES ASSUME NEW i \in 1..Len(pool), NEW t, t = pool[i] PROVE TxAgrees(t)'
      BY DEF PoolAgrees, TxAgrees
    <2>1. TxAgrees(t) /\ t.by \in Purchase
      BY PoolMembers DEF PoolAgrees
    <2>2. CASE t.by # p
      BY <1>1, <2>1, <2>2 DEF TxAgrees
    <2>3. CASE t.by = p
      BY <1>1, <2>1, <2>3 DEF TxAgrees
    <2> QED
      BY <2>2, <2>3
  <1>5. ASSUME NEW q \in Purchase PROVE WaitCovers(q)' /\ AllowanceKept(q)'
    <2>1. WaitCovers(q) /\ AllowanceKept(q)
      OBVIOUS
    <2>2. \A x : Under(q, x)' <=> Under(q, x)
      BY DEF Under
    <2>3. CASE q # p
      BY <1>1, <2>1, <2>2, <2>3 DEF WaitCovers, AllowanceKept, Unpaid
    <2>4. CASE q = p
      <3>1. WaitCovers(q)'
        BY <1>1, <2>1, <2>2, <2>4 DEF WaitCovers
      <3>2. AllowanceKept(q)'
        BY <1>1, <2>1, <2>2, <2>4 DEF AllowanceKept, Unpaid
      <3> QED
        BY <3>1, <3>2
    <2> QED
      BY <2>3, <2>4
  <1> QED
    BY <1>2, <1>3, <1>4, <1>5

\* Without its head the pool keeps its order.
LEMMA HeadLeaves ==
    ASSUME PaymentsInv, NEW h, pool # <<>>, h = Head(pool), pool' = Tail(pool),
           purchase' = purchase
    PROVE  /\ PoolAgrees' /\ PoolOrdered' /\ pool' \in Seq(Transaction)
           /\ h = pool[1] /\ 1 \in 1..Len(pool)
           /\ \A q \in Purchase, x \in {"approve", "commit", "pay"} :
                 /\ Under(q, x)' => Under(q, x)
                 /\ Under(q, x) => Under(q, x)' \/ (h.by = q /\ h.what = x)
           /\ ~(h.what = "pay" /\ Under(h.by, "pay")')
  <1> USE DEF PaymentsInv
  <1> DEFINE n == Len(pool)
  <1>1. /\ n \in Nat /\ 1 \in 1..n /\ Len(pool') = n - 1 /\ h = pool[1]
        /\ pool' \in Seq(Transaction) /\ \A i \in 1..(n - 1) : pool'[i] = pool[i + 1]
    BY DEF PaymentsTyped
  <1>2. n = Len(pool)
    OBVIOUS
  <1> HIDE DEF n
  <1>3. PoolAgrees'
    <2> SUFFICES ASSUME NEW i \in 1..(n - 1), NEW t, t = pool'[i] PROVE TxAgrees(t)'
      BY <1>1 DEF PoolAgrees, TxAgrees
    <2>1. i + 1 \in 1..n /\ t = pool[i + 1]
      BY <1>1
    <2> QED
      BY <1>2, <2>1 DEF PoolAgrees, TxAgrees
  <1>4. PoolOrdered'
    <2> SUFFICES ASSUME NEW i \in 1..(n - 1), NEW j \in 1..(n - 1),
                        i < j, pool'[i].by = pool'[j].by
                 PROVE  Before(pool'[i].what, pool'[j].what)
      BY <1>1 DEF PoolOrdered
    <2>1. /\ i + 1 \in 1..n /\ j + 1 \in 1..n /\ i + 1 < j + 1
          /\ pool'[i] = pool[i + 1] /\ pool'[j] = pool[j + 1]
      BY <1>1
    <2> QED
      BY <1>2, <2>1 DEF PoolOrdered
  <1>5. ASSUME NEW q \in Purchase, NEW x \in {"approve", "commit", "pay"}, Under(q, x)'
        PROVE  \E i \in 1..n : 1 < i /\ pool[i].by = q /\ pool[i].what = x
    <2>1. PICK i \in 1..(n - 1) : pool'[i].by = q /\ pool'[i].what = x
      BY <1>1, <1>5 DEF Under
    <2>2. i + 1 \in 1..n /\ 1 < i + 1 /\ pool'[i] = pool[i + 1]
      BY <1>1
    <2> QED
      BY <2>1, <2>2
  <1>6. ASSUME NEW q \in Purchase, NEW x \in {"approve", "commit", "pay"}, Under(q, x)
        PROVE  Under(q, x)' \/ (h.by = q /\ h.what = x)
    <2>1. PICK i \in 1..n : pool[i].by = q /\ pool[i].what = x
      BY <1>2, <1>6 DEF Under
    <2>2. CASE i = 1
      BY <1>1, <2>1, <2>2
    <2>3. CASE i # 1
      <3>1. i - 1 \in 1..(n - 1) /\ pool'[i - 1] = pool[(i - 1) + 1] /\ (i - 1) + 1 = i
        BY <1>1, <2>3
      <3> QED
        BY <1>1, <2>1, <3>1 DEF Under
    <2> QED
      BY <2>2, <2>3
  <1>7. ASSUME h.what = "pay", Under(h.by, "pay")'
        PROVE  FALSE
    <2>1. h.by \in Purchase
      BY <1>1, <1>2, PoolMembers
    <2>2. PICK i \in 1..n : 1 < i /\ pool[i].by = h.by /\ pool[i].what = "pay"
      BY <1>5, <1>7, <2>1
    <2> QED
      BY <1>1, <1>2, <1>7, <2>2 DEF PoolOrdered, Before
  <1> QED
    BY <1>1, <1>2, <1>3, <1>4, <1>5, <1>6, <1>7 DEF Under
\* An inclusion is of an approval, of a commitment or of a payment.
LEMMA IncludeNextKeeps ==
    ASSUME PaymentsInv, IncludeNext
    PROVE  PaymentsInv'
  <1> USE DEF PaymentsInv
  <1>1. PICK h : h = Head(pool)
    OBVIOUS
  <1>2. /\ pool # <<>> /\ pool' = Tail(pool) /\ UNCHANGED <<purchase, offer>>
    BY DEF IncludeNext
  <1>3. /\ PoolAgrees' /\ PoolOrdered' /\ pool' \in Seq(Transaction)
        /\ h = pool[1] /\ 1 \in 1..Len(pool)
        /\ \A q \in Purchase, x \in {"approve", "commit", "pay"} :
              /\ Under(q, x)' => Under(q, x)
              /\ Under(q, x) => Under(q, x)' \/ (h.by = q /\ h.what = x)
        /\ ~(h.what = "pay" /\ Under(h.by, "pay")')
    BY <1>1, <1>2, HeadLeaves
  <1>4. /\ h \in Transaction /\ h.by \in Purchase /\ h.waited \in Nat /\ TxAgrees(h)
        /\ h.what \in {"approve", "commit", "pay"}
    BY <1>3, PoolMembers DEF PoolAgrees
  <1>5. CASE h.what = "approve"
    <2>1. /\ allowance' = h.amount /\ approvedFor' = h.by
          /\ UNCHANGED <<price, commitAge, commitLag>>
      BY <1>1, <1>5 DEF IncludeNext
    <2>2. PaymentsTyped'
      BY <1>2, <1>3, <2>1 DEF PaymentsTyped
    <2>3. ASSUME NEW q \in Purchase PROVE WaitCovers(q)' /\ AllowanceKept(q)'
      <3>1. WaitCovers(q)'
        <4>1. WaitCovers(q) /\ (Under(q, "commit") => Under(q, "commit")')
          BY <1>3, <1>5
        <4> QED
          BY <1>2, <2>1, <4>1 DEF WaitCovers
      <3>2. AllowanceKept(q)'
        BY <1>2, <1>4, <1>5, <2>1 DEF AllowanceKept, TxAgrees
      <3> QED
        BY <3>1, <3>2
    <2> QED
      BY <1>3, <2>2, <2>3
  <1>6. CASE h.what = "commit"
    <2>1. /\ commitAge' = [commitAge EXCEPT ![h.by] = 0]
          /\ commitLag' = [commitLag EXCEPT ![h.by] = h.waited]
          /\ UNCHANGED <<price, allowance, approvedFor>>
      BY <1>1, <1>6 DEF IncludeNext
    <2>2. /\ commitAge' \in [Purchase -> Nat \cup {Absent}]
          /\ commitLag' \in [Purchase -> Nat]
          /\ commitAge'[h.by] = 0 /\ commitLag'[h.by] = h.waited
          /\ \A q \in Purchase : q # h.by => /\ commitAge'[q] = commitAge[q]
                                             /\ commitLag'[q] = commitLag[q]
      BY <1>4, <2>1 DEF PaymentsTyped
    <2>3. PaymentsTyped'
      BY <1>2, <1>3, <2>1, <2>2 DEF PaymentsTyped
    <2>4. ASSUME NEW q \in Purchase PROVE WaitCovers(q)' /\ AllowanceKept(q)'
      <3>1. WaitCovers(q)'
        <4>1. WaitCovers(q) /\ 0 # Absent /\ purchase[q].waited \in Nat
          BY PaymentsAssumption DEF PaymentsTyped, Buy
        <4>2. CASE q = h.by
          BY <1>2, <1>4, <1>6, <2>2, <4>1, <4>2 DEF WaitCovers, TxAgrees
        <4>3. CASE q # h.by
          <5>1. Under(q, "commit") => Under(q, "commit")'
            BY <1>3, <4>3
          <5> QED
            BY <1>2, <2>2, <4>1, <4>3, <5>1 DEF WaitCovers
        <4> QED
          BY <4>2, <4>3
      <3>2. AllowanceKept(q)'
        <4>1. AllowanceKept(q) /\ (Under(q, "pay")' => Under(q, "pay"))
          BY <1>3
        <4> QED
          BY <1>2, <2>1, <4>1 DEF AllowanceKept, Unpaid
      <3> QED
        BY <3>1, <3>2
    <2> QED
      BY <1>3, <2>3, <2>4
  <1>7. CASE h.what = "pay"
    <2>1. IncludePayment(h.by)
      BY <1>1, <1>7 DEF IncludeNext
    <2>2. /\ UNCHANGED <<price, commitAge, commitLag>>
          /\ approvedFor' = h.by \/ UNCHANGED <<approvedFor, allowance>>
      BY <2>1 DEF IncludePayment, paymentChain
    <2>3. PaymentsTyped'
      BY <1>2, <1>3, <2>2 DEF PaymentsTyped
    <2>4. ASSUME NEW q \in Purchase PROVE WaitCovers(q)' /\ AllowanceKept(q)'
      <3>1. WaitCovers(q)'
        <4>1. WaitCovers(q) /\ (Under(q, "commit") => Under(q, "commit")')
          BY <1>3, <1>7
        <4> QED
          BY <1>2, <2>2, <4>1 DEF WaitCovers
      <3>2. AllowanceKept(q)'
        <4>1. AllowanceKept(q) /\ (Under(q, "pay")' => Under(q, "pay"))
          BY <1>3
        <4>2. purchase[h.by].at = "success" /\ ~Under(h.by, "pay")'
          BY <1>3, <1>4, <1>7 DEF TxAgrees
        <4>3. CASE approvedFor' = h.by /\ q = h.by
          BY <1>2, <4>2, <4>3 DEF AllowanceKept, Unpaid
        <4>4. CASE approvedFor' = h.by /\ q # h.by
          BY <4>4 DEF AllowanceKept
        <4>5. CASE UNCHANGED <<approvedFor, allowance>>
          BY <1>2, <4>1, <4>5 DEF AllowanceKept, Unpaid
        <4> QED
          BY <2>2, <4>3, <4>4, <4>5
      <3> QED
        BY <3>1, <3>2
    <2> QED
      BY <1>3, <2>3, <2>4
  <1> QED
    BY <1>4, <1>5, <1>6, <1>7

\* The clock advances what waits, on both sides alike.
LEMMA PaymentTickKeeps ==
    ASSUME PaymentsInv, PaymentTick
    PROVE  PaymentsInv'
  <1> USE DEF PaymentsInv
  <1> DEFINE n == Len(pool)
  <1>1. /\ pool' = [i \in DOMAIN pool |-> [pool[i] EXCEPT !.waited = @ + 1]]
        /\ purchase' = [p \in Purchase |->
              IF purchase[p].at = "waiting" /\ purchase[p].waited < WAIT
                THEN [purchase[p] EXCEPT !.waited = @ + 1] ELSE purchase[p]]
        /\ commitAge' = [p \in Purchase |->
              IF commitAge[p] # Absent /\ commitAge[p] < MIN_AGE
                THEN commitAge[p] + 1 ELSE commitAge[p]]
        /\ UNCHANGED <<offer, price, allowance, approvedFor, commitLag>>
    BY DEF PaymentTick
  <1>2. n \in Nat /\ DOMAIN pool = 1..n
    BY DEF PaymentsTyped
  <1>3. \A i \in 1..n : /\ pool'[i] \in Transaction /\ pool'[i].by = pool[i].by
                        /\ pool'[i].what = pool[i].what /\ pool'[i].amount = pool[i].amount
                        /\ pool'[i].waited = pool[i].waited + 1
    <2> TAKE i \in 1..n
    <2>1. pool[i] \in Transaction
      BY PoolMembers
    <2>2. pool'[i] = [pool[i] EXCEPT !.waited = @ + 1]
      BY <1>1, <1>2
    <2> QED
      BY <2>1, <2>2 DEF Transaction
  <1>4. pool' \in Seq(Transaction) /\ Len(pool') = n
    <2>1. pool' \in [1..n -> Transaction]
      BY <1>1, <1>2, <1>3
    <2> QED
      BY <1>2, <2>1
  <1>5. n = Len(pool)
    OBVIOUS
  <1> HIDE DEF n
  <1>6. \A p \in Purchase :
           /\ purchase'[p] \in Buy /\ purchase'[p].at = purchase[p].at
           /\ purchase'[p].renewal = purchase[p].renewal /\ purchase'[p].cost = purchase[p].cost
           /\ purchase[p].waited \in Nat /\ purchase'[p].waited >= purchase[p].waited
           /\ purchase'[p].waited <= purchase[p].waited + 1
           /\ purchase[p].at # "waiting" => purchase'[p].waited = purchase[p].waited
    <2> TAKE p \in Purchase
    <2>1. purchase[p] \in Buy
      BY DEF PaymentsTyped
    <2>2. purchase'[p] = IF purchase[p].at = "waiting" /\ purchase[p].waited < WAIT
                           THEN [purchase[p] EXCEPT !.waited = @ + 1] ELSE purchase[p]
      BY <1>1
    <2> QED
      BY <2>1, <2>2 DEF Buy
  <1>7. \A p \in Purchase :
           /\ commitAge'[p] \in Nat \cup {Absent}
           /\ commitAge'[p] = Absent <=> commitAge[p] = Absent
           /\ commitAge'[p] # Absent /\ commitAge'[p] < MIN_AGE =>
                 /\ commitAge[p] \in Nat /\ commitAge[p] < MIN_AGE
                 /\ commitAge'[p] = commitAge[p] + 1
    <2> TAKE p \in Purchase
    <2>1. commitAge[p] \in Nat \cup {Absent}
      BY DEF PaymentsTyped
    <2>2. commitAge'[p] = IF commitAge[p] # Absent /\ commitAge[p] < MIN_AGE
                            THEN commitAge[p] + 1 ELSE commitAge[p]
      BY <1>1
    <2> QED
      BY <2>1, <2>2, PaymentsAssumption
  <1>8. PaymentsTyped'
    <2>1. purchase' \in [Purchase -> Buy]
      BY <1>1, <1>6
    <2>2. commitAge' \in [Purchase -> Nat \cup {Absent}]
      BY <1>1, <1>7
    <2> QED
      BY <1>1, <1>4, <2>1, <2>2 DEF PaymentsTyped
  <1>9. PoolOrdered'
    BY <1>3, <1>4, <1>5 DEF PoolOrdered
  <1>10. PoolAgrees'
    <2> SUFFICES ASSUME NEW i \in 1..n, NEW t, t = pool'[i], NEW s, s = pool[i]
                 PROVE  TxAgrees(t)'
      BY <1>4 DEF PoolAgrees, TxAgrees
    <2>1. /\ TxAgrees(s) /\ t.by = s.by /\ t.what = s.what /\ t.amount = s.amount
          /\ t.waited = s.waited + 1 /\ s.by \in Purchase /\ s.waited \in Nat
      BY <1>3, <1>5, PoolMembers DEF PoolAgrees
    <2>2. /\ purchase'[s.by].at = purchase[s.by].at /\ purchase'[s.by].cost = purchase[s.by].cost
          /\ purchase[s.by].waited \in Nat /\ purchase'[s.by].waited <= purchase[s.by].waited + 1
          /\ purchase'[s.by].waited \in Nat
      BY <1>6, <2>1 DEF Buy
    <2> QED
      BY <2>1, <2>2 DEF TxAgrees
  <1>11. ASSUME NEW q \in Purchase PROVE WaitCovers(q)' /\ AllowanceKept(q)'
    <2>1. WaitCovers(q) /\ AllowanceKept(q)
      OBVIOUS
    <2>2. \A x : Under(q, x)' <=> Under(q, x)
      BY <1>3, <1>4, <1>5 DEF Under
    <2>3. purchase'[q].waited \in Nat /\ commitLag[q] \in Nat
      BY <1>6 DEF Buy, PaymentsTyped
    <2>4. WaitCovers(q)'
      <3> DEFINE a == purchase[q]
                 b == purchase'[q]
      <3>1. /\ b.at = a.at /\ b.renewal = a.renewal /\ b.waited >= a.waited
            /\ b.waited <= a.waited + 1 /\ (a.at # "waiting" => b.waited = a.waited)
            /\ a.waited \in Nat /\ b.waited \in Nat /\ WAIT \in Nat
        BY <1>6, <2>3, PaymentsAssumption
      <3>2. /\ commitAge'[q] = Absent <=> commitAge[q] = Absent
            /\ commitAge'[q] # Absent /\ commitAge'[q] < MIN_AGE =>
                 /\ commitAge[q] \in Nat /\ commitAge[q] < MIN_AGE
                 /\ commitAge'[q] = commitAge[q] + 1
        BY <1>7
      <3>3. commitAge'[q] # Absent /\ commitAge'[q] < MIN_AGE
               => b.waited <= commitLag'[q] + commitAge'[q]
        BY <1>1, <2>1, <2>3, <3>1, <3>2 DEF WaitCovers
      <3>4. /\ b.at \in {"idle", "approving", "committing"}
                   => b.waited = 0 /\ commitAge'[q] = Absent
            /\ b.at \in {"registering", "success"} /\ ~b.renewal => b.waited >= WAIT
        BY <2>1, <3>1, <3>2 DEF WaitCovers
      <3>5. /\ b.at \in {"committing", "waiting", "registering"} => ~b.renewal
            /\ b.at = "renewing" => b.renewal
            /\ b.at \in {"waiting", "registering", "success"} /\ ~b.renewal
                  => Under(q, "commit")' \/ commitAge'[q] # Absent
        BY <2>1, <2>2, <3>1, <3>2 DEF WaitCovers
      <3> QED
        BY <3>3, <3>4, <3>5 DEF WaitCovers
    <2>5. AllowanceKept(q)'
      BY <1>1, <1>6, <2>1, <2>2 DEF AllowanceKept, Unpaid
    <2> QED
      BY <2>4, <2>5
  <1> QED
    BY <1>8, <1>9, <1>10, <1>11

\* The page and other people.
LEMMA OutsideKeepsPayments ==
    ASSUME PaymentsInv, Requote \/ Change
    PROVE  PaymentsInv'
  <1> USE DEF PaymentsInv
  <1>1. UNCHANGED <<purchase, pool, allowance, approvedFor, commitAge, commitLag>>
    BY DEF Requote, Change, paymentChain
  <1>2. /\ offer' \in [price : Nat, discount : BOOLEAN] /\ price' \in Nat
    <2>1. CASE Requote
      <3>1. offer' = [price |-> price, discount |-> ~discountUsed] /\ price' = price
        BY <2>1 DEF Requote, paymentChain
      <3> QED
        BY <3>1 DEF PaymentsTyped
    <2>2. CASE Change
      BY <2>2, PaymentsAssumption DEF Change, PaymentsTyped
    <2> QED
      BY <2>1, <2>2
  <1>3. PaymentsTyped'
    BY <1>1, <1>2 DEF PaymentsTyped
  <1>4. PoolAgrees' /\ PoolOrdered'
    BY <1>1 DEF PoolAgrees, PoolOrdered, TxAgrees
  <1>5. \A q \in Purchase : WaitCovers(q)' /\ AllowanceKept(q)'
    BY <1>1 DEF WaitCovers, AllowanceKept, Unpaid, Under
  <1> QED
    BY <1>3, <1>4, <1>5

LEMMA PurchaseKeeps ==
    ASSUME PaymentsInv, NEW p \in Purchase,
           \/ \E d \in Domain, renewal, discount \in BOOLEAN : BeginPurchase(p, d, renewal, discount)
           \/ ApproveUSDC(p) \/ CommitPurchase(p) \/ Matures(p) \/ Pay(p) \/ Decline(p)
    PROVE  PaymentsInv'
  <1> USE DEF PaymentsInv
  <1>1. /\ purchase \in [Purchase -> Buy] /\ purchase[p] \in Buy
        /\ maxCostWithSlippage(purchase[p].cost) \in Nat
    BY DEF PaymentsTyped, Buy, maxCostWithSlippage
  <1>2. ASSUME NEW d \in Domain, NEW renewal \in BOOLEAN, NEW discount \in BOOLEAN,
               BeginPurchase(p, d, renewal, discount)
        PROVE  PaymentsInv'
    <2> DEFINE b == [at |-> "approving", renewal |-> renewal, domain |-> d, discount |-> discount,
                     cost |-> IF discount THEN discountRent(offer.price) ELSE offer.price,
                     waited |-> 0]
    <2>1. offer.price \in Nat /\ discountRent(offer.price) \in Nat
      BY DEF PaymentsTyped, discountRent
    <2>2. b \in Buy /\ b.at = "approving" /\ b.waited = 0
      BY <2>1 DEF Buy, BuyStep
    <2>3. /\ purchase[p].at = "idle" /\ purchase' = [purchase EXCEPT ![p] = b]
          /\ UNCHANGED <<offer, pool, paymentChain>>
      BY <1>2 DEF BeginPurchase
    <2> HIDE DEF b
    <2> QED
      BY <2>2, <2>3, QuietKeeps
  <1>3. CASE ApproveUSDC(p)
    BY <1>1, <1>3, AskKeeps DEF ApproveUSDC, Approved, BuyStep
  <1>4. CASE CommitPurchase(p)
    BY <1>4, AskKeeps DEF CommitPurchase, BuyStep
  <1>5. CASE Pay(p)
    BY <1>1, <1>5, AskKeeps DEF Pay, BuyStep
  <1>6. ASSUME NEW at \in {"registering", "failed"}, purchase' = [purchase EXCEPT ![p].at = at],
               UNCHANGED <<offer, pool, paymentChain>>,
               \/ purchase[p].at \notin {"idle", "success"} /\ at = "failed"
               \/ /\ purchase[p].at = "waiting" /\ purchase[p].waited >= WAIT
                  /\ at = "registering"
        PROVE  PaymentsInv'
    <2> DEFINE b == [purchase[p] EXCEPT !.at = at]
    <2>1. /\ b \in Buy /\ b.at = at /\ b.renewal = purchase[p].renewal
          /\ b.cost = purchase[p].cost /\ b.waited = purchase[p].waited
      BY <1>1 DEF Buy, BuyStep
    <2>2. purchase' = [purchase EXCEPT ![p] = b]
      BY <1>1, <1>6
    <2> HIDE DEF b
    <2> QED
      BY <1>6, <2>1, <2>2, QuietKeeps
  <1>7. CASE Matures(p)
    BY <1>6, <1>7 DEF Matures
  <1>8. CASE Decline(p)
    BY <1>6, <1>8 DEF Decline
  <1> QED
    BY <1>2, <1>3, <1>4, <1>5, <1>7, <1>8

LEMMA PaymentsStutter ==
    ASSUME PaymentsInv, UNCHANGED paymentVars
    PROVE  PaymentsInv'
  <1> USE DEF PaymentsInv, paymentVars, paymentChain
  <1>1. PaymentsTyped' /\ PoolAgrees' /\ PoolOrdered'
    BY DEF PaymentsTyped, PoolAgrees, PoolOrdered, TxAgrees
  <1>2. \A q \in Purchase : WaitCovers(q)' /\ AllowanceKept(q)'
    BY DEF WaitCovers, AllowanceKept, Unpaid, Under
  <1> QED
    BY <1>1, <1>2

LEMMA PaymentsStep ==
    PaymentsInv /\ [PaymentsNext]_paymentVars => PaymentsInv'
  <1> SUFFICES ASSUME PaymentsInv, [PaymentsNext]_paymentVars PROVE PaymentsInv'
    OBVIOUS
  <1>1. CASE UNCHANGED paymentVars
    BY <1>1, PaymentsStutter
  <1>2. CASE Requote \/ Change
    BY <1>2, OutsideKeepsPayments
  <1>3. CASE IncludeNext
    BY <1>3, IncludeNextKeeps
  <1>4. CASE PaymentTick
    BY <1>4, PaymentTickKeeps
  <1>5. ASSUME NEW p \in Purchase,
           \/ \E d \in Domain, renewal, discount \in BOOLEAN : BeginPurchase(p, d, renewal, discount)
           \/ ApproveUSDC(p) \/ CommitPurchase(p) \/ Matures(p) \/ Pay(p) \/ Decline(p)
        PROVE  PaymentsInv'
    BY <1>5, PurchaseKeeps
  <1> QED
    BY <1>1, <1>2, <1>3, <1>4, <1>5 DEF PaymentsNext

\* The inductive invariant of the purchases (useRegistration.ts, useRenew.ts): what is
\* under way is in order, the hook has waited no longer than the chain, and the
\* allowance is the one of its last giver until that pays.
THEOREM PaymentsInvHolds == PaymentsSpec => []PaymentsInv
  BY PaymentsStart, PaymentsStep, PTL DEF PaymentsSpec

\* A payment the client has announced fails for the age of its commitment only when
\* that was included later than the hook's reserve, and for the allowance only when
\* another purchase came between: for any number of purchases, names and prices, any
\* wait longer than the minimum age and any delay.
THEOREM PaymentFailsForCauseHolds == PaymentsSpec => PaymentFailsForCause
  <1>1. PaymentsInv /\ [PaymentsNext]_paymentVars =>
           [\A p \in Purchase : Settles(p) =>
              /\ "early" \in Causes(p) => commitLag[p] > WAIT - MIN_AGE
              /\ "allowance" \in Causes(p) => "price" \in Causes(p) \/ approvedFor # p]_paymentVars
    BY PaymentsInvGives
  <1> QED
    BY <1>1, PaymentsInvHolds, PTL DEF PaymentsSpec, PaymentFailsForCause

------------------------------------------------------------------------------
(* Primary names (PrimaryNameFlows).  A name is watched from the moment it   *)
(* is, or is on its way to become, the primary one.  What keeps its address: *)
(* a flow clears a name only after it has sent another one in its place, and *)
(* the transactions of the wallet are included in their order.  So a cleared *)
(* address is followed by a new primary name, or by an address sent again.   *)

FlowStage ==
    {"idle", "naming", "named", "checking", "syncing", "synced", "clearing", "clearPrompt",
     "cleared", "registering", "registeringPrimary", "addressing", "addressingOther", "addressed"}
Request == {"setName", "setAddr", "clearAddr", "register", "registerPrimary", "setOtherAddr"}
FlowTx == [tab : Tab, what : Request, title : Title, prev : Title \cup {Nobody}]

FlowsTyped ==
    /\ nameOwner \in [Title -> {Me, Someone, Nobody}]
    /\ resolves \in [Title -> {Me, Someone, Nobody}]
    /\ primaryName \in Title /\ seen \in Title
    /\ outbox \in Seq(FlowTx)
    /\ tab \in [Tab -> [at : FlowStage, title : Title \cup {Nobody}, prev : Title \cup {Nobody}]]
    /\ \A t \in Tab : Busy(t) => tab[t].title \in Title
    /\ \A t \in Tab : tab[t].at = "clearPrompt" => tab[t].prev \in Title /\ tab[t].prev # tab[t].title
    /\ \A i \in 1..Len(outbox) : outbox[i].what = "clearAddr" => outbox[i].prev = outbox[i].title

\* What a transaction is to the name n.
Sets(x, n) == x.what \in {"setName", "registerPrimary"} /\ x.title = n
Replaces(x, n) == x.what \in {"setName", "registerPrimary"} /\ x.prev = n /\ x.title # n
Clears(x, n) == x.what = "clearAddr" /\ x.title = n
Points(x, n) == x.what \in {"setAddr", "registerPrimary", "setOtherAddr"} /\ x.title = n

\* The name is primary, or made so by the j-th transaction.
SetsAt(n, j) == IF j = 0 THEN primaryName = n ELSE Sets(outbox[j], n)
\* Between the j-th and the i-th a flow replaces it.
ReplacedIn(n, j, i) == \E k \in 1..Len(outbox) : j < k /\ k < i /\ Replaces(outbox[k], n)

\* The flow will look at the address of n.
WillCheck(t, n) == tab[t].title = n /\ tab[t].at \in {"named", "checking", "syncing"}
\* It has sent the name that replaces n and may yet clear the address of n.
GivesUp(t, n) ==
    /\ tab[t].prev = n /\ tab[t].title # n
    /\ tab[t].at \in {"named", "checking", "syncing", "synced", "clearing", "clearPrompt"}
\* When all that is under way is included, n resolves to what it was pointed to.
Pointed(n) ==
    /\ resolves[n] = Me \/ \E i \in 1..Len(outbox) : Points(outbox[i], n)
    /\ \A c \in 1..Len(outbox) : Clears(outbox[c], n)
          => \E i \in 1..Len(outbox) : c < i /\ Points(outbox[i], n)

NoConflict(n) ==
    \A t, u \in Tab : t # u /\ Busy(t) /\ Busy(u) /\ tab[t].prev = n => tab[u].title # n
ClearedAfterReplaced(n) ==
    \A i \in 1..Len(outbox), j \in 0..Len(outbox) :
       Clears(outbox[i], n) /\ j < i /\ SetsAt(n, j) => ReplacedIn(n, j, i)
GivenUpAfterReplaced(n) ==
    \A t \in Tab, j \in 0..Len(outbox) :
       GivesUp(t, n) /\ SetsAt(n, j) => ReplacedIn(n, j, Len(outbox) + 1)
CheckedAfterCleared(n) ==
    \A u \in Tab, c \in 1..Len(outbox) : WillCheck(u, n) /\ Clears(outbox[c], n) =>
       tab[u].at = "named" /\ \E j \in 1..Len(outbox) : c < j /\ outbox[j].tab = u
KeptOrReplaced(n) ==
    \A j \in 0..Len(outbox) : SetsAt(n, j) =>
       \/ nameOwner[n] = Someone \/ (\E t \in Tab : WillCheck(t, n))
       \/ Pointed(n) \/ ReplacedIn(n, j, Len(outbox) + 1)

NameInv(n) ==
    /\ NoConflict(n) /\ ClearedAfterReplaced(n) /\ GivenUpAfterReplaced(n)
    /\ CheckedAfterCleared(n) /\ KeptOrReplaced(n)

FlowsInv == FlowsTyped /\ \A n \in Title : n \in excused \/ NameInv(n)

LEMMA FlowsInvGives ==
    ASSUME FlowsInv
    PROVE  PrimaryKeepsAddress
  <1> SUFFICES ASSUME outbox = <<>>, \A t \in Tab : ~Busy(t), primaryName \notin excused
               PROVE  nameOwner[primaryName] # Me \/ resolves[primaryName] = Me
    BY DEF PrimaryKeepsAddress
  <1>1. Len(outbox) = 0 /\ primaryName \in Title
    BY DEF FlowsInv, FlowsTyped
  <1>2. KeptOrReplaced(primaryName)
    BY <1>1 DEF FlowsInv, NameInv
  <1>3. \A t \in Tab : ~WillCheck(t, primaryName)
    BY DEF WillCheck, Busy
  <1>4. 0 \in 0..Len(outbox) /\ SetsAt(primaryName, 0)
    BY <1>1 DEF SetsAt
  <1>5. nameOwner[primaryName] = Someone \/ Pointed(primaryName)
    BY <1>1, <1>2, <1>3, <1>4 DEF KeptOrReplaced, ReplacedIn
  <1> QED
    BY <1>1, <1>5, FlowsAssumption DEF Pointed

LEMMA FlowsStart ==
    ASSUME FlowsInit
    PROVE  FlowsInv
  <1> USE DEF FlowsInit
  <1>1. Len(outbox) = 0 /\ outbox \in Seq(FlowTx)
    OBVIOUS
  <1>2. \A t \in Tab : tab[t] = Resting /\ ~Busy(t)
    BY DEF Busy, Resting
  <1>3. FlowsTyped
    <2>1. Resting \in [at : FlowStage, title : Title \cup {Nobody}, prev : Title \cup {Nobody}]
      BY DEF Resting, FlowStage
    <2>2. tab \in [Tab -> [at : FlowStage, title : Title \cup {Nobody}, prev : Title \cup {Nobody}]]
      BY <2>1
    <2>3. resolves \in [Title -> {Me, Someone, Nobody}]
      OBVIOUS
    <2>4. nameOwner \in [Title -> {Me, Someone, Nobody}]
      BY <2>3
    <2>5. \A t \in Tab : tab[t].at # "clearPrompt"
      BY <1>2 DEF Resting
    <2> QED
      BY <1>1, <1>2, <2>2, <2>3, <2>4, <2>5 DEF FlowsTyped
  <1>4. ASSUME NEW n \in Title PROVE NameInv(n)
    <2>1. NoConflict(n)
      BY <1>2 DEF NoConflict
    <2>2. ClearedAfterReplaced(n) /\ CheckedAfterCleared(n)
      BY <1>1 DEF ClearedAfterReplaced, CheckedAfterCleared
    <2>3. GivenUpAfterReplaced(n)
      BY <1>2 DEF GivenUpAfterReplaced, GivesUp, Resting
    <2>4. KeptOrReplaced(n)
      BY <1>1 DEF KeptOrReplaced, SetsAt, Pointed
    <2> QED
      BY <2>1, <2>2, <2>3, <2>4 DEF NameInv
  <1> QED
    BY <1>3, <1>4 DEF FlowsInv

\* A step of a tab that sends nothing: the flow goes on, or ends.
LEMMA FlowMoves ==
    ASSUME FlowsInv, NEW t \in Tab,
           NEW r \in [at : FlowStage, title : Title \cup {Nobody}, prev : Title \cup {Nobody}],
           tab' = [tab EXCEPT ![t] = r], UNCHANGED <<worldVars, outbox>>,
           seen' \in Title, excused \subseteq excused',
           r = Resting \/ (r.title = tab[t].title /\ r.prev = tab[t].prev /\ Busy(t)),
           r.at = "clearPrompt" => r.prev \in Title /\ r.prev # r.title,
           r.at \in {"named", "checking", "syncing", "synced", "clearing", "clearPrompt"} =>
              tab[t].at \in {"named", "checking", "syncing", "synced", "clearing", "clearPrompt"},
           r.at \in {"named", "checking", "syncing"} =>
              \/ tab[t].at \in {"checking", "syncing"}
              \/ tab[t].at = "named" /\ ~Pending(t),
           tab[t].at \in {"named", "checking", "syncing"} =>
              \/ r.at \in {"named", "checking", "syncing"}
              \/ tab[t].at = "checking" /\ resolves[tab[t].title] = Me
              \/ tab[t].title \in excused'
    PROVE  FlowsInv'
  <1> USE DEF FlowsInv
  <1> DEFINE S == [at : FlowStage, title : Title \cup {Nobody}, prev : Title \cup {Nobody}]
             N == Len(outbox)
  <1>1. /\ tab' \in [Tab -> S] /\ tab'[t] = r /\ \A u \in Tab : u # t => tab'[u] = tab[u]
    BY DEF FlowsTyped
  <1>2. UNCHANGED <<nameOwner, resolves, primaryName, outbox>>
    BY DEF worldVars
  <1>3. N \in Nat
    BY DEF FlowsTyped
  <1> HIDE DEF S
  <1>4. \A u \in Tab : /\ Busy(u)' => Busy(u)
                       /\ Busy(u)' => tab'[u].title = tab[u].title /\ tab'[u].prev = tab[u].prev
    BY <1>1 DEF Busy, Resting
  <1>5. FlowsTyped'
    <2>1. \A u \in Tab : Busy(u)' => tab'[u].title \in Title
      BY <1>4 DEF FlowsTyped
    <2>2. \A u \in Tab : tab'[u].at = "clearPrompt" =>
                            tab'[u].prev \in Title /\ tab'[u].prev # tab'[u].title
      BY <1>1 DEF FlowsTyped
    <2> QED
      BY <1>1, <1>2, <2>1, <2>2 DEF FlowsTyped, S
  <1>6. ASSUME NEW n \in Title, n \notin excused' PROVE NameInv(n)'
    <2>1. NameInv(n)
      BY <1>6
    <2>2. \A j : SetsAt(n, j)' <=> SetsAt(n, j)
      BY <1>2 DEF SetsAt
    <2>3. \A j, i : ReplacedIn(n, j, i)' <=> ReplacedIn(n, j, i)
      BY <1>2 DEF ReplacedIn
    <2>4. NoConflict(n)'
      BY <1>4, <2>1 DEF NameInv, NoConflict
    <2>5. ClearedAfterReplaced(n)'
      BY <1>2, <2>1, <2>2, <2>3 DEF NameInv, ClearedAfterReplaced
    <2>6. GivenUpAfterReplaced(n)'
      <3>1. \A u \in Tab : GivesUp(u, n)' => GivesUp(u, n)
        BY <1>1 DEF GivesUp, Resting
      <3> QED
        BY <1>2, <2>1, <2>2, <2>3, <3>1 DEF NameInv, GivenUpAfterReplaced
    <2>7. CheckedAfterCleared(n)'
      <3> SUFFICES ASSUME NEW u \in Tab, NEW c \in 1..N, WillCheck(u, n)', Clears(outbox[c], n)
                   PROVE  /\ tab'[u].at = "named"
                          /\ \E j \in 1..N : c < j /\ outbox[j].tab = u
        BY <1>2 DEF CheckedAfterCleared
      <3>1. CASE u # t
        BY <1>1, <2>1, <3>1 DEF WillCheck, NameInv, CheckedAfterCleared
      <3>2. CASE u = t
        <4>1. WillCheck(t, n)
          BY <1>1, <1>4, <3>2 DEF WillCheck, Busy
        <4>2. tab[t].at = "named" /\ \E j \in 1..N : c < j /\ outbox[j].tab = t
          BY <2>1, <4>1 DEF NameInv, CheckedAfterCleared
        <4>3. Pending(t)
          BY <4>2 DEF Pending, FlowsTyped
        <4> QED
          BY <1>1, <3>2, <4>2, <4>3 DEF WillCheck
      <3> QED
        BY <3>1, <3>2
    <2>8. KeptOrReplaced(n)'
      <3> SUFFICES ASSUME NEW j \in 0..N, SetsAt(n, j)
                   PROVE  \/ nameOwner[n] = Someone \/ (\E u \in Tab : WillCheck(u, n)')
                          \/ Pointed(n) \/ ReplacedIn(n, j, N + 1)
        BY <1>2, <2>2, <2>3 DEF KeptOrReplaced, Pointed
      <3>1. CASE \E u \in Tab : WillCheck(u, n)
        <4>1. PICK u \in Tab : WillCheck(u, n)
          BY <3>1
        <4>2. CASE u # t
          BY <1>1, <4>1, <4>2 DEF WillCheck
        <4>3. CASE u = t /\ r.at \in {"named", "checking", "syncing"}
          BY <1>1, <1>4, <4>1, <4>3 DEF WillCheck, Busy
        <4>4. CASE u = t /\ tab[t].at = "checking" /\ resolves[n] = Me
          <5>1. \A c \in 1..N : ~Clears(outbox[c], n)
            BY <2>1, <4>1, <4>4 DEF NameInv, CheckedAfterCleared
          <5> QED
            BY <4>4, <5>1 DEF Pointed
        <4> QED
          BY <1>6, <4>1, <4>2, <4>3, <4>4 DEF WillCheck
      <3> QED
        BY <2>1, <3>1 DEF NameInv, KeptOrReplaced
    <2> QED
      BY <2>4, <2>5, <2>6, <2>7, <2>8 DEF NameInv
  <1> QED
    BY <1>5, <1>6

\* A step that sends a transaction: it goes to the end, and the flow goes on.
LEMMA FlowSends ==
    ASSUME FlowsInv, NEW t \in Tab, NEW x \in FlowTx, NEW at \in FlowStage,
           tab' = [tab EXCEPT ![t].at = at], outbox' = Append(outbox, x),
           UNCHANGED <<worldVars, seen, excused>>,
           Busy(t), x.tab = t, x.prev = tab[t].prev,
           x.what = "clearAddr" => tab[t].at = "clearPrompt" /\ x.title = x.prev /\ at = "cleared",
           x.what # "clearAddr" => x.title = tab[t].title,
           x.what = "setName" => tab[t].at = "naming" /\ at = "named",
           x.what # "setName" =>
              \/ at \notin {"named", "checking", "syncing", "synced", "clearPrompt"}
              \/ tab[t].at = "syncing" /\ at = "synced",
           at = "clearing" => x.what = "registerPrimary",
           tab[t].at \in {"named", "checking", "syncing"} =>
              tab[t].at = "syncing" /\ x.what = "setAddr"
    PROVE  FlowsInv'
  <1> USE DEF FlowsInv
  <1> DEFINE S == [at : FlowStage, title : Title \cup {Nobody}, prev : Title \cup {Nobody}]
  <1>1. UNCHANGED <<nameOwner, resolves, primaryName, seen, excused>>
    BY DEF worldVars
  <1>2. PICK N \in Nat : N = Len(outbox)
    BY DEF FlowsTyped
  <1>3. /\ outbox' \in Seq(FlowTx) /\ Len(outbox') = N + 1 /\ outbox'[N + 1] = x
        /\ \A i \in 1..N : outbox'[i] = outbox[i]
    BY <1>2 DEF FlowsTyped
  <1>4. tab[t] \in S /\ tab \in [Tab -> S]
    BY DEF FlowsTyped
  <1>5. /\ tab'[t] = [tab[t] EXCEPT !.at = at] /\ \A u \in Tab : u # t => tab'[u] = tab[u]
        /\ DOMAIN tab' = Tab
    BY <1>4
  <1>6. /\ tab'[t] \in S /\ tab'[t].at = at /\ tab'[t].title = tab[t].title
        /\ tab'[t].prev = tab[t].prev
    BY <1>4, <1>5
  <1>7. tab' \in [Tab -> S]
    BY <1>4, <1>6
  <1> HIDE DEF S
  <1>8. \A u \in Tab : /\ Busy(u)' => Busy(u)
                       /\ tab'[u].title = tab[u].title /\ tab'[u].prev = tab[u].prev
    BY <1>5, <1>6 DEF Busy
  <1>9. FlowsTyped'
    <2>1. \A u \in Tab : Busy(u)' => tab'[u].title \in Title
      BY <1>8 DEF FlowsTyped
    <2>2. \A u \in Tab : tab'[u].at = "clearPrompt" =>
                            tab'[u].prev \in Title /\ tab'[u].prev # tab'[u].title
      BY <1>5, <1>6 DEF FlowsTyped
    <2>3. \A i \in 1..(N + 1) : outbox'[i].what = "clearAddr" => outbox'[i].prev = outbox'[i].title
      <3> TAKE i \in 1..(N + 1)
      <3>1. CASE i = N + 1
        BY <1>3, <3>1
      <3>2. CASE i \in 1..N
        BY <1>2, <1>3, <3>2 DEF FlowsTyped
      <3> QED
        BY <1>3, <3>1, <3>2
    <2> QED
      BY <1>1, <1>3, <1>7, <2>1, <2>2, <2>3 DEF FlowsTyped, S
  <1>10. ASSUME NEW n \in Title, n \notin excused PROVE NameInv(n)'
    <2>1. NameInv(n)
      BY <1>10
    <2>2. ASSUME NEW j \in 0..N PROVE SetsAt(n, j)' <=> SetsAt(n, j)
      <3>1. CASE j = 0
        BY <1>1, <3>1 DEF SetsAt
      <3>2. CASE j # 0
        <4>1. j \in 1..N
          BY <1>3, <3>2
        <4>2. outbox'[j] = outbox[j]
          BY <1>3, <4>1
        <4> QED
          BY <3>2, <4>2 DEF SetsAt
      <3> QED
        BY <3>1, <3>2
    <2>3. SetsAt(n, N + 1)' => Sets(x, n)
      BY <1>3 DEF SetsAt
    <2>4. ASSUME NEW j \in 0..N, NEW i \in 0..(N + 1), NEW m \in Nat, i <= m, ReplacedIn(n, j, i)
          PROVE  ReplacedIn(n, j, m)'
      <3>1. PICK k \in 1..N : j < k /\ k < i /\ Replaces(outbox[k], n)
        BY <1>2, <2>4 DEF ReplacedIn
      <3>2. k \in 1..Len(outbox') /\ outbox'[k] = outbox[k] /\ k < m
        BY <1>3, <2>4, <3>1
      <3> QED
        BY <3>1, <3>2 DEF ReplacedIn
    <2>5. ASSUME NEW j \in 0..N, ReplacedIn(n, j, N + 1) PROVE ReplacedIn(n, j, N + 2)'
      <3>1. N + 1 \in 0..(N + 1) /\ N + 2 \in Nat /\ N + 1 <= N + 2
        BY <1>3
      <3> QED
        BY <2>4, <2>5, <3>1
    <2>6. ASSUME NEW j \in 0..N, Replaces(x, n) PROVE ReplacedIn(n, j, N + 2)'
      <3>1. N + 1 \in 1..Len(outbox') /\ N + 1 < N + 2 /\ j < N + 1
        BY <1>3
      <3>2. Replaces(outbox'[N + 1], n)
        BY <1>3, <2>6
      <3> QED
        BY <3>1, <3>2 DEF ReplacedIn
    <2>7. NoConflict(n)'
      BY <1>8, <2>1 DEF NameInv, NoConflict
    <2>8. Clears(x, n) => GivesUp(t, n)
      <3> SUFFICES ASSUME Clears(x, n) PROVE GivesUp(t, n)
        OBVIOUS
      <3>1. tab[t].at = "clearPrompt" /\ tab[t].prev = n /\ tab[t].prev # tab[t].title
        BY DEF Clears, FlowsTyped
      <3> QED
        BY <3>1 DEF GivesUp
    <2>9. ClearedAfterReplaced(n)'
      <3> SUFFICES ASSUME NEW i \in 1..(N + 1), NEW j \in 0..(N + 1),
                          Clears(outbox'[i], n), j < i, SetsAt(n, j)'
                   PROVE  ReplacedIn(n, j, i)'
        BY <1>3 DEF ClearedAfterReplaced
      <3>1. j \in 0..N /\ SetsAt(n, j) /\ i \in 0..(N + 1)
        BY <1>3, <2>2
      <3>2. CASE i \in 1..N
        <4>1. Clears(outbox[i], n) /\ i \in Nat
          BY <1>3, <3>2
        <4>2. ReplacedIn(n, j, i)
          BY <1>2, <2>1, <3>1, <3>2, <4>1 DEF NameInv, ClearedAfterReplaced
        <4> QED
          BY <1>3, <2>4, <3>1, <4>1, <4>2
      <3>3. CASE i = N + 1
        <4>1. GivesUp(t, n)
          BY <1>3, <2>8, <3>3
        <4>2. ReplacedIn(n, j, N + 1)
          BY <1>2, <2>1, <3>1, <4>1 DEF NameInv, GivenUpAfterReplaced
        <4> QED
          BY <1>3, <2>4, <3>1, <3>3, <4>2
      <3> QED
        BY <1>3, <3>2, <3>3
    <2>10. GivenUpAfterReplaced(n)'
      <3> SUFFICES ASSUME NEW u \in Tab, NEW j \in 0..(N + 1), GivesUp(u, n)', SetsAt(n, j)'
                   PROVE  ReplacedIn(n, j, N + 2)'
        <4>1. Len(outbox') + 1 = N + 2 /\ 0..Len(outbox') = 0..(N + 1)
          BY <1>3
        <4> QED
          BY <4>1 DEF GivenUpAfterReplaced
      <3>0. Busy(u)'
        BY DEF GivesUp, Busy
      <3>1. tab[u].prev = n /\ tab[u].title # n /\ Busy(u)
        BY <1>8, <3>0 DEF GivesUp
      <3>2. CASE j = N + 1
        <4>1. Sets(x, n) /\ tab[t].title = n /\ t # u
          BY <2>3, <3>1, <3>2 DEF Sets
        <4> QED
          BY <2>1, <3>1, <4>1 DEF NameInv, NoConflict
      <3>3. CASE j \in 0..N
        <4>1. SetsAt(n, j)
          BY <2>2, <3>3
        <4>2. CASE GivesUp(u, n)
          <5>1. ReplacedIn(n, j, N + 1)
            BY <1>2, <2>1, <3>3, <4>1, <4>2 DEF NameInv, GivenUpAfterReplaced
          <5> QED
            BY <2>5, <3>3, <5>1
        <4>3. CASE ~GivesUp(u, n)
          <5>1. u = t
            BY <1>5, <4>3 DEF GivesUp
          <5>2. at \in {"named", "checking", "syncing", "synced", "clearing", "clearPrompt"}
            BY <1>6, <5>1 DEF GivesUp
          <5>3. x.what \in {"setName", "registerPrimary"}
            BY <3>1, <4>3, <5>1, <5>2 DEF GivesUp
          <5> QED
            BY <2>6, <3>1, <3>3, <5>1, <5>3 DEF Replaces
        <4> QED
          BY <4>2, <4>3
      <3> QED
        BY <1>3, <3>2, <3>3
    <2>11. CheckedAfterCleared(n)'
      <3> SUFFICES ASSUME NEW u \in Tab, NEW c \in 1..(N + 1), WillCheck(u, n)',
                          Clears(outbox'[c], n)
                   PROVE  /\ tab'[u].at = "named"
                          /\ \E j \in 1..(N + 1) : c < j /\ outbox'[j].tab = u
        BY <1>3 DEF CheckedAfterCleared
      <3>1. tab[u].title = n /\ Busy(u)
        BY <1>8 DEF WillCheck, Busy
      <3>2. CASE c = N + 1
        <4>1. GivesUp(t, n)
          BY <1>3, <2>8, <3>2
        <4>2. t # u /\ tab[t].prev = n
          BY <3>1, <4>1 DEF GivesUp
        <4> QED
          BY <2>1, <3>1, <4>2 DEF NameInv, NoConflict
      <3>3. CASE c \in 1..N /\ u # t
        <4>1. WillCheck(u, n) /\ tab'[u].at = tab[u].at /\ Clears(outbox[c], n)
          BY <1>3, <1>5, <3>3 DEF WillCheck
        <4>2. tab[u].at = "named" /\ \E j \in 1..N : c < j /\ outbox[j].tab = u
          BY <1>2, <2>1, <3>3, <4>1 DEF NameInv, CheckedAfterCleared
        <4>3. PICK j \in 1..N : c < j /\ outbox[j].tab = u
          BY <4>2
        <4>4. j \in 1..(N + 1) /\ outbox'[j].tab = u
          BY <1>3, <4>3
        <4> QED
          BY <4>1, <4>2, <4>3, <4>4
      <3>4. CASE c \in 1..N /\ u = t
        <4>1. x.what = "setName" /\ at = "named"
          BY <1>6, <3>4 DEF WillCheck
        <4>2. N + 1 \in 1..(N + 1) /\ c < N + 1
          BY <1>3, <3>4
        <4> QED
          BY <1>3, <1>6, <3>4, <4>1, <4>2
      <3> QED
        BY <1>3, <3>2, <3>3, <3>4
    <2>12. Points(x, n) => Pointed(n)'
      <3> SUFFICES ASSUME Points(x, n) PROVE Pointed(n)'
        OBVIOUS
      <3>1. N + 1 \in 1..Len(outbox') /\ Points(outbox'[N + 1], n)
        BY <1>3
      <3>2. \A c \in 1..Len(outbox') : Clears(outbox'[c], n) => c < N + 1
        BY <1>3 DEF Clears, Points
      <3> QED
        BY <3>1, <3>2 DEF Pointed
    <2>13. Pointed(n) /\ ~Clears(x, n) => Pointed(n)'
      <3> SUFFICES ASSUME Pointed(n), ~Clears(x, n) PROVE Pointed(n)'
        OBVIOUS
      <3>1. \A i \in 1..N : i \in 1..Len(outbox') /\ outbox'[i] = outbox[i]
        BY <1>3
      <3>2. \A c \in 1..Len(outbox') : Clears(outbox'[c], n) => c \in 1..N
        BY <1>3
      <3>3. resolves'[n] = Me \/ \E i \in 1..Len(outbox') : Points(outbox'[i], n)
        BY <1>1, <1>2, <3>1 DEF Pointed
      <3>4. \A c \in 1..Len(outbox') : Clears(outbox'[c], n)
                => \E i \in 1..Len(outbox') : c < i /\ Points(outbox'[i], n)
        BY <1>2, <3>1, <3>2 DEF Pointed
      <3> QED
        BY <3>3, <3>4 DEF Pointed
    <2>14. KeptOrReplaced(n)'
      <3> SUFFICES ASSUME NEW j \in 0..(N + 1), SetsAt(n, j)'
                   PROVE  \/ nameOwner[n] = Someone \/ (\E u \in Tab : WillCheck(u, n)')
                          \/ Pointed(n)' \/ ReplacedIn(n, j, N + 2)'
        <4>1. Len(outbox') + 1 = N + 2 /\ 0..Len(outbox') = 0..(N + 1)
          BY <1>3
        <4> QED
          BY <1>1, <4>1 DEF KeptOrReplaced
      <3>1. CASE j = N + 1
        <4>1. Sets(x, n)
          BY <2>3, <3>1
        <4>2. CASE x.what = "setName"
          BY <1>6, <4>1, <4>2 DEF WillCheck, Sets
        <4>3. CASE x.what = "registerPrimary"
          BY <2>12, <4>1, <4>3 DEF Sets, Points
        <4> QED
          BY <4>1, <4>2, <4>3 DEF Sets
      <3>2. CASE j \in 0..N
        <4>1. SetsAt(n, j)
          BY <2>2, <3>2
        <4>2. \/ nameOwner[n] = Someone \/ (\E u \in Tab : WillCheck(u, n))
              \/ Pointed(n) \/ ReplacedIn(n, j, N + 1)
          BY <1>2, <2>1, <3>2, <4>1 DEF NameInv, KeptOrReplaced
        <4>3. CASE ReplacedIn(n, j, N + 1)
          BY <2>5, <3>2, <4>3
        <4>4. ASSUME NEW u \in Tab, WillCheck(u, n) PROVE WillCheck(u, n)' \/ Pointed(n)'
          <5>1. CASE u # t
            BY <1>5, <4>4, <5>1 DEF WillCheck
          <5>2. CASE u = t
            <6>1. x.what = "setAddr" /\ x.title = n
              BY <4>4, <5>2 DEF WillCheck
            <6> QED
              BY <2>12, <6>1 DEF Points
          <5> QED
            BY <5>1, <5>2
        <4>5. CASE Pointed(n) /\ Clears(x, n)
          <5>1. ReplacedIn(n, j, N + 1)
            BY <1>2, <2>1, <2>8, <3>2, <4>1, <4>5 DEF NameInv, GivenUpAfterReplaced
          <5> QED
            BY <2>5, <3>2, <5>1
        <4> QED
          BY <2>13, <4>2, <4>3, <4>4, <4>5
      <3> QED
        BY <1>3, <3>1, <3>2
    <2> QED
      BY <2>7, <2>9, <2>10, <2>11, <2>14 DEF NameInv
  <1> QED
    BY <1>1, <1>9, <1>10

\* The next transaction is included, or reverts.
LEMMA FlowConfirms ==
    ASSUME FlowsInv, Confirmation
    PROVE  FlowsInv'
  <1> USE DEF FlowsInv
  <1>1. outbox # <<>> /\ outbox \in Seq(FlowTx)
    BY DEF Confirmation, FlowsTyped
  <1>2. PICK L \in Nat : Len(outbox) = L + 1
    <2>1. Len(outbox) \in Nat /\ Len(outbox) # 0
      BY <1>1
    <2> QED
      BY <2>1
  <1>3. PICK x \in FlowTx : x = Head(outbox) /\ x = outbox[1]
    BY <1>1, <1>2
  <1>4. outbox' = Tail(outbox) /\ UNCHANGED <<seen, tab>>
    BY DEF Confirmation
  <1>5. /\ outbox' \in Seq(FlowTx) /\ Len(outbox') = L
        /\ \A i \in 1..L : outbox'[i] = outbox[i + 1]
    BY <1>1, <1>2, <1>4
  <1>6. \/ ~Reverts(x) /\ Effect(x)
        \/ excused' = excused \cup ({x.prev, x.title} \ {Nobody}) /\ UNCHANGED worldVars
    BY <1>3 DEF Confirmation
  <1>7. x.title \in Title /\ x.what \in Request
    BY DEF FlowTx
  <1>8. FlowsTyped'
    <2>1. \A i \in 1..L : outbox'[i].what = "clearAddr" => outbox'[i].prev = outbox'[i].title
      <3> TAKE i \in 1..L
      <3>1. i + 1 \in 1..Len(outbox) /\ outbox'[i] = outbox[i + 1]
        BY <1>2, <1>5
      <3> QED
        BY <3>1 DEF FlowsTyped
    <2>2. /\ nameOwner' \in [Title -> {Me, Someone, Nobody}]
          /\ resolves' \in [Title -> {Me, Someone, Nobody}]
          /\ primaryName' \in Title
      <3>1. CASE Effect(x)
        <4>1. nameOwner' \in [Title -> {Me, Someone, Nobody}]
          BY <3>1 DEF FlowsTyped, Effect
        <4>2. resolves' \in [Title -> {Me, Someone, Nobody}]
          BY <3>1 DEF FlowsTyped, Effect
        <4>3. primaryName' \in Title
          BY <1>7, <3>1 DEF FlowsTyped, Effect
        <4> QED
          BY <4>1, <4>2, <4>3
      <3>2. CASE UNCHANGED worldVars
        BY <3>2 DEF FlowsTyped, worldVars
      <3> QED
        BY <1>6, <3>1, <3>2
    <2>3. \A u \in Tab : Busy(u)' => Busy(u)
      BY <1>4 DEF Busy
    <2> QED
      BY <1>4, <1>5, <2>1, <2>2, <2>3 DEF FlowsTyped
  <1>9. ASSUME NEW n \in Title, n \notin excused' PROVE NameInv(n)'
    <2>1. CASE n \in excused
      \* Its address has been set, and nothing gives it up.
      <3>1. /\ x.what \in {"setAddr", "registerPrimary"} /\ x.title = n /\ ~BeingGivenUp(n)
            /\ Effect(x)
        BY <1>6, <1>9, <2>1 DEF Effect
      <3>2. \A u \in Tab : tab[u].prev # n
        BY <3>1 DEF BeingGivenUp
      <3>3. \A i \in 1..L : outbox'[i].prev # n
        <4> TAKE i \in 1..L
        <4>1. i + 1 \in DOMAIN outbox /\ outbox'[i] = outbox[i + 1]
          BY <1>1, <1>2, <1>5
        <4> QED
          BY <3>1, <4>1 DEF BeingGivenUp
      <3>4. \A i \in 1..L : ~Clears(outbox'[i], n)
        <4> TAKE i \in 1..L
        <4>1. outbox'[i].what = "clearAddr" => outbox'[i].prev = outbox'[i].title
          BY <1>5, <1>8 DEF FlowsTyped
        <4> QED
          BY <3>3, <4>1 DEF Clears
      <3>5. resolves'[n] = Me
        BY <1>9, <3>1 DEF Effect, FlowsTyped
      <3>6. Pointed(n)'
        BY <1>5, <3>4, <3>5 DEF Pointed
      <3>7. NoConflict(n)' /\ GivenUpAfterReplaced(n)'
        BY <1>4, <3>2 DEF NoConflict, GivenUpAfterReplaced, GivesUp
      <3>8. ClearedAfterReplaced(n)' /\ CheckedAfterCleared(n)'
        BY <1>5, <3>4 DEF ClearedAfterReplaced, CheckedAfterCleared
      <3>9. KeptOrReplaced(n)'
        BY <3>6 DEF KeptOrReplaced
      <3> QED
        BY <3>7, <3>8, <3>9 DEF NameInv
    <2>2. CASE n \notin excused
      <3>1. NameInv(n)
        BY <2>2
      \* What was true of the transactions behind the head is true of them now.
      <3>2. ASSUME NEW j \in 0..L, SetsAt(n, j)'
            PROVE  \E m \in 0..(L + 1) :
                      /\ m <= j + 1 /\ SetsAt(n, m)
                      /\ \A i \in Nat : ReplacedIn(n, m, i + 1) => ReplacedIn(n, j, i)'
        <4>1. ASSUME NEW m \in Nat, m = j + 1 \/ (m = 0 /\ j = 0 /\ ~Replaces(x, n)),
                     NEW i \in Nat, ReplacedIn(n, m, i + 1)
              PROVE  ReplacedIn(n, j, i)'
          <5>1. PICK k \in 1..(L + 1) : m < k /\ k < i + 1 /\ Replaces(outbox[k], n)
            BY <1>2, <4>1 DEF ReplacedIn
          <5>2. k # 1
            BY <1>3, <4>1, <5>1
          <5>3. k - 1 \in 1..L /\ j < k - 1 /\ k - 1 < i /\ outbox'[k - 1] = outbox[k]
            BY <1>5, <4>1, <5>1, <5>2
          <5> QED
            BY <1>5, <5>1, <5>3 DEF ReplacedIn
        <4>2. CASE SetsAt(n, j + 1)
          BY <4>1, <4>2
        <4>3. CASE ~SetsAt(n, j + 1)
          <5>1. j = 0
            <6> SUFFICES ASSUME j # 0 PROVE FALSE
              OBVIOUS
            <6>1. j \in 1..L /\ outbox'[j] = outbox[j + 1]
              BY <1>5
            <6> QED
              BY <3>2, <4>3, <6>1 DEF SetsAt
          <5>2. ~Sets(x, n) /\ primaryName' = n
            BY <1>3, <3>2, <4>3, <5>1 DEF SetsAt
          <5>3. CASE Effect(x) /\ x.what \in {"setName", "registerPrimary"}
            BY <5>2, <5>3 DEF Effect, Sets
          <5>4. CASE Effect(x) /\ x.what \notin {"setName", "registerPrimary"}
            <6>1. primaryName = n /\ ~Replaces(x, n)
              BY <5>2, <5>4 DEF Effect, Replaces
            <6> QED
              BY <4>1, <5>1, <6>1 DEF SetsAt
          <5>5. CASE x.prev # n /\ UNCHANGED worldVars
            <6>1. primaryName = n /\ ~Replaces(x, n)
              BY <5>2, <5>5 DEF worldVars, Replaces
            <6> QED
              BY <4>1, <5>1, <6>1 DEF SetsAt
          <5> QED
            BY <1>6, <1>9, <5>3, <5>4, <5>5, FlowsAssumption
        <4> QED
          BY <4>2, <4>3
      <3>3. NoConflict(n)'
        BY <1>4, <3>1 DEF NameInv, NoConflict, Busy
      <3>4. ClearedAfterReplaced(n)'
        <4> SUFFICES ASSUME NEW i \in 1..L, NEW j \in 0..L, Clears(outbox'[i], n), j < i,
                            SetsAt(n, j)'
                     PROVE  ReplacedIn(n, j, i)'
          BY <1>5 DEF ClearedAfterReplaced
        <4>1. PICK m \in 0..(L + 1) :
                 /\ m <= j + 1 /\ SetsAt(n, m)
                 /\ \A k \in Nat : ReplacedIn(n, m, k + 1) => ReplacedIn(n, j, k)'
          BY <3>2
        <4>2. i + 1 \in 1..Len(outbox) /\ Clears(outbox[i + 1], n) /\ m < i + 1 /\ m \in 0..Len(outbox)
          BY <1>2, <1>5, <4>1
        <4>3. ReplacedIn(n, m, i + 1)
          BY <3>1, <4>1, <4>2 DEF NameInv, ClearedAfterReplaced
        <4> QED
          BY <4>1, <4>3
      <3>5. GivenUpAfterReplaced(n)'
        <4> SUFFICES ASSUME NEW u \in Tab, NEW j \in 0..L, GivesUp(u, n)', SetsAt(n, j)'
                     PROVE  ReplacedIn(n, j, L + 1)'
          BY <1>5 DEF GivenUpAfterReplaced
        <4>1. PICK m \in 0..(L + 1) :
                 /\ m <= j + 1 /\ SetsAt(n, m)
                 /\ \A k \in Nat : ReplacedIn(n, m, k + 1) => ReplacedIn(n, j, k)'
          BY <3>2
        <4>2. GivesUp(u, n) /\ m \in 0..Len(outbox)
          BY <1>2, <1>4 DEF GivesUp
        <4>3. ReplacedIn(n, m, Len(outbox) + 1)
          BY <3>1, <4>1, <4>2 DEF NameInv, GivenUpAfterReplaced
        <4> QED
          BY <1>2, <4>1, <4>3
      <3>6. CheckedAfterCleared(n)'
        <4> SUFFICES ASSUME NEW u \in Tab, NEW c \in 1..L, WillCheck(u, n)', Clears(outbox'[c], n)
                     PROVE  /\ tab'[u].at = "named"
                            /\ \E j \in 1..L : c < j /\ outbox'[j].tab = u
          BY <1>5 DEF CheckedAfterCleared
        <4>1. WillCheck(u, n) /\ c + 1 \in 1..Len(outbox) /\ Clears(outbox[c + 1], n)
          BY <1>2, <1>4, <1>5 DEF WillCheck
        <4>2. tab[u].at = "named" /\ \E j \in 1..Len(outbox) : c + 1 < j /\ outbox[j].tab = u
          BY <3>1, <4>1 DEF NameInv, CheckedAfterCleared
        <4>3. PICK j \in 1..Len(outbox) : c + 1 < j /\ outbox[j].tab = u
          BY <4>2
        <4>4. j - 1 \in 1..L /\ c < j - 1 /\ outbox'[j - 1] = outbox[j]
          BY <1>2, <1>5, <4>3
        <4> QED
          BY <1>4, <4>2, <4>3, <4>4
      <3>7. ASSUME NEW i \in 1..Len(outbox), Points(outbox[i], n), i # 1
            PROVE  i - 1 \in 1..Len(outbox') /\ Points(outbox'[i - 1], n)
        BY <1>2, <1>5, <3>7
      <3>8. Pointed(n) => Pointed(n)'
        <4> SUFFICES ASSUME Pointed(n) PROVE Pointed(n)'
          OBVIOUS
        <4>1. ASSUME NEW c \in 1..Len(outbox'), Clears(outbox'[c], n)
              PROVE  \E i \in 1..Len(outbox') : c < i /\ Points(outbox'[i], n)
          <5>1. c + 1 \in 1..Len(outbox) /\ Clears(outbox[c + 1], n)
            BY <1>2, <1>5, <4>1
          <5>2. PICK i \in 1..Len(outbox) : c + 1 < i /\ Points(outbox[i], n)
            BY <5>1 DEF Pointed
          <5>3. i # 1 /\ c < i - 1
            BY <5>2
          <5> QED
            BY <3>7, <5>2, <5>3
        <4>2. resolves'[n] = Me \/ \E i \in 1..Len(outbox') : Points(outbox'[i], n)
          <5>1. CASE \E i \in 1..Len(outbox) : Points(outbox[i], n) /\ i # 1
            BY <3>7, <5>1
          <5>2. CASE \A i \in 1..Len(outbox) : Points(outbox[i], n) => i = 1
            <6>1. ~Clears(x, n)
              <7> SUFFICES ASSUME Clears(x, n) PROVE FALSE
                OBVIOUS
              <7>1. 1 \in 1..Len(outbox) /\ Clears(outbox[1], n)
                BY <1>2, <1>3
              <7>2. PICK i \in 1..Len(outbox) : 1 < i /\ Points(outbox[i], n)
                BY <7>1 DEF Pointed
              <7> QED
                BY <5>2, <7>2
            <6>2. resolves[n] = Me \/ Points(x, n)
              BY <1>3, <5>2 DEF Pointed
            <6>3. CASE Effect(x) /\ x.title = n
              <7>1. x.what # "setOtherAddr"
                BY <1>9, <6>3 DEF Effect
              <7>2. x.what # "clearAddr"
                BY <6>1, <6>3 DEF Clears
              <7> QED
                BY <1>7, <6>2, <6>3, <7>1, <7>2 DEF Effect, Points, FlowsTyped
            <6>4. CASE Effect(x) /\ x.title # n
              BY <6>2, <6>4 DEF Effect, Points, FlowsTyped
            <6>5. CASE x.title # n /\ UNCHANGED worldVars
              BY <6>2, <6>5 DEF worldVars, Points
            <6> QED
              BY <1>6, <1>9, <6>3, <6>4, <6>5, FlowsAssumption
          <5> QED
            BY <5>1, <5>2
        <4> QED
          BY <4>1, <4>2 DEF Pointed
      <3>9. nameOwner[n] = Someone => nameOwner'[n] = Someone
        <4>1. CASE ~Reverts(x) /\ Effect(x)
          BY <4>1, FlowsAssumption DEF Effect, Reverts, FlowsTyped
        <4> QED
          BY <1>6, <4>1 DEF worldVars
      <3>10. KeptOrReplaced(n)'
        <4> SUFFICES ASSUME NEW j \in 0..L, SetsAt(n, j)'
                     PROVE  \/ nameOwner'[n] = Someone \/ (\E u \in Tab : WillCheck(u, n)')
                            \/ Pointed(n)' \/ ReplacedIn(n, j, L + 1)'
          BY <1>5 DEF KeptOrReplaced
        <4>1. PICK m \in 0..(L + 1) :
                 /\ m <= j + 1 /\ SetsAt(n, m)
                 /\ \A k \in Nat : ReplacedIn(n, m, k + 1) => ReplacedIn(n, j, k)'
          BY <3>2
        <4>2. \/ nameOwner[n] = Someone \/ (\E u \in Tab : WillCheck(u, n))
              \/ Pointed(n) \/ ReplacedIn(n, m, Len(outbox) + 1)
          BY <1>2, <3>1, <4>1 DEF NameInv, KeptOrReplaced
        <4>3. \A u \in Tab : WillCheck(u, n) => WillCheck(u, n)'
          BY <1>4 DEF WillCheck
        <4> QED
          BY <1>2, <3>8, <3>9, <4>1, <4>2, <4>3
      <3> QED
        BY <3>3, <3>4, <3>5, <3>6, <3>10 DEF NameInv
    <2> QED
      BY <2>1, <2>2
  <1> QED
    BY <1>8, <1>9

LEMMA FlowGoes ==
    ASSUME FlowsInv, NEW t \in Tab, NEW at \in FlowStage, Goes(t, at), Busy(t), UNCHANGED outbox,
           seen' \in Title, excused \subseteq excused',
           at = "clearPrompt" => tab[t].prev \in Title /\ tab[t].prev # tab[t].title,
           at \in {"checking", "syncing", "clearing", "clearPrompt"},
           at = "checking" => tab[t].at = "named" /\ ~Pending(t),
           at = "syncing" => tab[t].at = "checking",
           at \in {"clearing", "clearPrompt"} =>
              \/ tab[t].at \in {"synced", "clearing"}
              \/ tab[t].at = "checking" /\ resolves[tab[t].title] = Me
              \/ tab[t].at = "syncing" /\ tab[t].title \in excused'
    PROVE  FlowsInv'
  <1>1. /\ tab \in [Tab -> [at : FlowStage, title : Title \cup {Nobody}, prev : Title \cup {Nobody}]]
        /\ tab[t] \in [at : FlowStage, title : Title \cup {Nobody}, prev : Title \cup {Nobody}]
    BY DEF FlowsInv, FlowsTyped
  <1>2. PICK r : r = [tab[t] EXCEPT !.at = at]
    OBVIOUS
  <1>3. /\ r \in [at : FlowStage, title : Title \cup {Nobody}, prev : Title \cup {Nobody}]
        /\ r.at = at /\ r.title = tab[t].title /\ r.prev = tab[t].prev
    BY <1>1, <1>2
  <1>4. tab' = [tab EXCEPT ![t] = r] /\ UNCHANGED <<worldVars, outbox>>
    BY <1>2 DEF Goes
  <1> QED
    BY <1>3, <1>4, FlowMoves

LEMMA FlowEnds ==
    ASSUME FlowsInv, NEW t \in Tab, Ends(t), UNCHANGED outbox, seen' \in Title,
           excused \subseteq excused',
           tab[t].at \in {"named", "checking", "syncing"} => tab[t].title \in excused'
    PROVE  FlowsInv'
  <1>1. /\ Resting \in [at : FlowStage, title : Title \cup {Nobody}, prev : Title \cup {Nobody}]
        /\ Resting.at = "idle"
    BY DEF Resting, FlowStage
  <1>2. tab' = [tab EXCEPT ![t] = Resting] /\ UNCHANGED <<worldVars, outbox>>
    BY DEF Ends
  <1> QED
    BY <1>1, <1>2, FlowMoves

LEMMA FlowPrompts ==
    ASSUME FlowsInv, NEW t \in Tab, NEW now \in FlowStage, NEW what \in Request, NEW n \in Title,
           NEW then \in FlowStage, Prompt(t, now, what, n, then),
           \/ what = "setName" /\ now = "naming" /\ then = "named" /\ n = tab[t].title
           \/ what = "setAddr" /\ now = "syncing" /\ then = "synced" /\ n = tab[t].title
           \/ what = "clearAddr" /\ now = "clearPrompt" /\ then = "cleared" /\ n = tab[t].prev
           \/ /\ what \in {"register", "setAddr", "setOtherAddr"} /\ n = tab[t].title
              /\ now \in {"registering", "addressing", "addressingOther"}
              /\ then \in {"idle", "addressed"}
           \/ /\ what = "registerPrimary" /\ now = "registeringPrimary" /\ n = tab[t].title
              /\ then \in {"clearing", "idle"}
    PROVE  FlowsInv'
  <1>1. tab[t].prev \in Title \cup {Nobody}
    BY DEF FlowsInv, FlowsTyped
  <1>2. PICK x \in FlowTx : x = [tab |-> t, what |-> what, title |-> n, prev |-> tab[t].prev]
    BY <1>1 DEF FlowTx
  <1>3. x.tab = t /\ x.what = what /\ x.title = n /\ x.prev = tab[t].prev
    BY <1>2
  <1>4. /\ tab[t].at = now /\ outbox' = Append(outbox, x) /\ tab' = [tab EXCEPT ![t].at = then]
        /\ UNCHANGED <<worldVars, seen, excused>>
    BY <1>2 DEF Prompt, Send, Goes
  <1>5. Busy(t)
    BY <1>4 DEF Busy
  <1> QED
    BY <1>3, <1>4, <1>5, FlowSends

LEMMA FlowTabs ==
    ASSUME FlowsInv, NEW t \in Tab, TabStep(t)
    PROVE  FlowsInv'
  <1>1. seen \in Title /\ primaryName \in Title
    BY DEF FlowsInv, FlowsTyped
  <1>2. Busy(t) => tab[t].title \in Title
    BY DEF FlowsInv, FlowsTyped
  <1>3. tab[t].prev \in Title \cup {Nobody}
    BY DEF FlowsInv, FlowsTyped
  <1>4. CASE SetName(t)
    <2>1. CASE Prompt(t, "naming", "setName", tab[t].title, "named")
      <3>1. tab[t].title \in Title
        BY <1>2, <2>1 DEF Prompt, Busy
      <3> QED
        BY <2>1, <3>1, FlowPrompts DEF FlowStage, Request
    <2>2. CASE Refused(t, "naming")
      BY <1>1, <2>2, FlowEnds DEF Refused
    <2> QED
      BY <1>4, <2>1, <2>2 DEF SetName
  <1>5. CASE NameReceipt(t)
    <2>1. CASE Receipt(t, "named") /\ Goes(t, "checking") /\ seen' = primaryName /\ UNCHANGED excused
      <3>1. tab[t].at = "named" /\ ~Pending(t) /\ Busy(t) /\ UNCHANGED outbox
        BY <2>1 DEF Receipt, Busy
      <3> QED
        BY <1>1, <2>1, <3>1, FlowGoes DEF FlowStage
    <2>2. CASE GivenUp(t, "named") /\ Ends(t) /\ Excuse({tab[t].title}) /\ UNCHANGED seen
      BY <1>1, <2>2, FlowEnds DEF GivenUp, Excuse
    <2> QED
      BY <1>5, <2>1, <2>2 DEF NameReceipt
  <1>6. CASE CheckAddr(t)
    <2>1. tab[t].at = "checking" /\ Busy(t) /\ UNCHANGED outbox
      BY <1>6 DEF CheckAddr, Busy
    <2>2. CASE resolves[tab[t].title] = Me /\ Goes(t, "clearing") /\ UNCHANGED <<seen, excused>>
      BY <1>1, <2>1, <2>2, FlowGoes DEF FlowStage
    <2>3. CASE Goes(t, "syncing") /\ UNCHANGED <<seen, excused>>
      BY <1>1, <2>1, <2>3, FlowGoes DEF FlowStage
    <2>4. CASE /\ Ends(t) /\ seen' = primaryName
               /\ Excuse(IF resolves[tab[t].title] = Me THEN {} ELSE {tab[t].title})
      <3>1. excused \subseteq excused' /\ (resolves[tab[t].title] = Me \/ tab[t].title \in excused')
        BY <2>4 DEF Excuse
      <3>2. /\ Resting \in [at : FlowStage, title : Title \cup {Nobody}, prev : Title \cup {Nobody}]
            /\ Resting.at = "idle"
        BY DEF Resting, FlowStage
      <3>3. tab' = [tab EXCEPT ![t] = Resting] /\ UNCHANGED <<worldVars, outbox>>
        BY <2>1, <2>4 DEF Ends
      <3> QED
        BY <1>1, <2>1, <2>4, <3>1, <3>2, <3>3, FlowMoves
    <2> QED
      BY <1>6, <2>2, <2>3, <2>4 DEF CheckAddr
  <1>7. CASE SyncAddr(t)
    <2>1. CASE Prompt(t, "syncing", "setAddr", tab[t].title, "synced")
      <3>1. tab[t].title \in Title
        BY <1>2, <2>1 DEF Prompt, Busy
      <3> QED
        BY <2>1, <3>1, FlowPrompts DEF FlowStage, Request
    <2>2. CASE /\ tab[t].at = "syncing" /\ Goes(t, "clearing")
               /\ Excuse({tab[t].title}) /\ UNCHANGED <<seen, outbox>>
      <3>1. Busy(t) /\ excused \subseteq excused' /\ tab[t].title \in excused'
        BY <2>2 DEF Busy, Excuse
      <3> QED
        BY <1>1, <2>2, <3>1, FlowGoes DEF FlowStage
    <2> QED
      BY <1>7, <2>1, <2>2 DEF SyncAddr
  <1>8. CASE SyncReceipt(t)
    <2>1. tab[t].at = "synced" /\ Busy(t) /\ Goes(t, "clearing") /\ UNCHANGED <<seen, outbox, excused>>
      BY <1>8 DEF SyncReceipt, Receipt, GivenUp, Busy
    <2> QED
      BY <1>1, <2>1, FlowGoes DEF FlowStage
  <1>9. ASSUME Finish(t), tab[t].at \in {"clearing", "clearPrompt", "cleared"} PROVE FlowsInv'
    BY <1>1, <1>9, FlowEnds DEF Finish
  <1>10. CASE ClearPrevPrimaryAddr(t)
    <2>1. tab[t].at = "clearing" /\ Busy(t)
      BY <1>10 DEF ClearPrevPrimaryAddr, Busy
    <2>2. CASE ToClear(t) /\ Goes(t, "clearPrompt") /\ UNCHANGED <<seen, outbox, excused>>
      <3>1. tab[t].prev \in Title /\ tab[t].prev # tab[t].title
        BY <1>3, <2>2 DEF ToClear
      <3> QED
        BY <1>1, <2>1, <2>2, <3>1, FlowGoes DEF FlowStage
    <2> QED
      BY <1>9, <1>10, <2>1, <2>2 DEF ClearPrevPrimaryAddr
  <1>11. CASE ClearAddr(t)
    <2>1. CASE Prompt(t, "clearPrompt", "clearAddr", tab[t].prev, "cleared")
      <3>1. tab[t].prev \in Title
        BY <2>1 DEF Prompt, FlowsInv, FlowsTyped
      <3> QED
        BY <2>1, <3>1, FlowPrompts DEF FlowStage, Request
    <2> QED
      BY <1>9, <1>11, <2>1 DEF ClearAddr
  <1>12. CASE ClearReceipt(t)
    BY <1>9, <1>12 DEF ClearReceipt, Receipt, GivenUp
  <1>13. CASE SendRegister(t)
    <2>1. ASSUME NEW at \in {"clearing", "idle"},
                 Prompt(t, "registeringPrimary", "registerPrimary", tab[t].title, at)
          PROVE  FlowsInv'
      <3>1. tab[t].title \in Title
        BY <1>2, <2>1 DEF Prompt, Busy
      <3> QED
        BY <2>1, <3>1, FlowPrompts DEF FlowStage, Request
    <2>2. CASE Prompt(t, "registering", "register", tab[t].title, "idle")
      <3>1. tab[t].title \in Title
        BY <1>2, <2>2 DEF Prompt, Busy
      <3> QED
        BY <2>2, <3>1, FlowPrompts DEF FlowStage, Request
    <2>3. CASE Refused(t, "registering") \/ Refused(t, "registeringPrimary")
      BY <1>1, <2>3, FlowEnds DEF Refused
    <2> QED
      BY <1>13, <2>1, <2>2, <2>3 DEF SendRegister
  <1>14. CASE SendAddress(t)
    <2>1. CASE Prompt(t, "addressing", "setAddr", tab[t].title, "addressed")
      <3>1. tab[t].title \in Title
        BY <1>2, <2>1 DEF Prompt, Busy
      <3> QED
        BY <2>1, <3>1, FlowPrompts DEF FlowStage, Request
    <2>2. CASE Prompt(t, "addressingOther", "setOtherAddr", tab[t].title, "addressed")
      <3>1. tab[t].title \in Title
        BY <1>2, <2>2 DEF Prompt, Busy
      <3> QED
        BY <2>2, <3>1, FlowPrompts DEF FlowStage, Request
    <2>3. CASE Refused(t, "addressing") \/ Refused(t, "addressingOther")
      BY <1>1, <2>3, FlowEnds DEF Refused
    <2> QED
      BY <1>14, <2>1, <2>2, <2>3 DEF SendAddress
  <1>15. CASE AddressReceipt(t)
    <2>1. tab[t].at = "addressed" /\ Ends(t) /\ UNCHANGED <<seen, outbox, excused>>
      BY <1>15 DEF AddressReceipt, Receipt, GivenUp
    <2> QED
      BY <1>1, <2>1, FlowEnds
  <1> QED
    BY <1>4, <1>5, <1>6, <1>7, <1>8, <1>10, <1>11, <1>12, <1>13, <1>14, <1>15 DEF TabStep

\* A click: the flow has sent nothing, and the names it is in conflict about are excused.
LEMMA FlowClicks ==
    ASSUME FlowsInv, NEW t \in Tab, NEW n \in Title, NEW prev \in Title \cup {Nobody},
           NEW at \in {"naming", "registering", "registeringPrimary", "addressing", "addressingOther"},
           Click(t, at, n, prev)
    PROVE  FlowsInv'
  <1> USE DEF FlowsInv
  <1> DEFINE S == [at : FlowStage, title : Title \cup {Nobody}, prev : Title \cup {Nobody}]
  <1>1. /\ UNCHANGED <<nameOwner, resolves, primaryName, seen, outbox>>
        /\ tab' = [tab EXCEPT ![t] = [at |-> at, title |-> n, prev |-> prev]]
        /\ ~Busy(t)
    BY DEF Click, worldVars
  <1>2. PICK r \in S : r = [at |-> at, title |-> n, prev |-> prev]
    BY DEF FlowStage
  <1>3. r.at = at /\ r.title = n /\ r.prev = prev
    BY <1>2
  <1>4. tab' \in [Tab -> S] /\ tab'[t] = r /\ \A u \in Tab : u # t => tab'[u] = tab[u]
    BY <1>1, <1>2 DEF FlowsTyped
  <1>5. PICK L \in Nat : L = Len(outbox)
    BY DEF FlowsTyped
  <1>6. FlowsTyped'
    BY <1>1, <1>3, <1>4 DEF FlowsTyped, Busy
  <1> HIDE DEF S
  <1>7. ASSUME NEW m \in Title, m \notin excused' PROVE NameInv(m)'
    <2>1. NameInv(m) /\ m \notin excused
      BY <1>7 DEF Click
    <2>2. ASSUME NEW u \in Tab, u # t, Busy(u)
          PROVE  ~(m = n /\ tab[u].prev = n) /\ ~(m = prev /\ tab[u].title = prev)
      BY <1>7, <2>2 DEF Click
    <2>3. NoConflict(m)'
      <3> SUFFICES ASSUME NEW u \in Tab, NEW v \in Tab, u # v, Busy(u)', Busy(v)', tab'[u].prev = m
                   PROVE  tab'[v].title # m
        BY DEF NoConflict
      <3>1. CASE u = t
        BY <1>3, <1>4, <2>2, <3>1 DEF Busy
      <3>2. CASE v = t
        BY <1>3, <1>4, <2>2, <3>2 DEF Busy
      <3>3. CASE u # t /\ v # t
        BY <1>4, <2>1, <3>3 DEF NameInv, NoConflict, Busy
      <3> QED
        BY <3>1, <3>2, <3>3
    <2>4. ~GivesUp(t, m)' /\ ~WillCheck(t, m)' /\ ~WillCheck(t, m)
      BY <1>1, <1>3, <1>4 DEF GivesUp, WillCheck, Busy
    <2>5. \A u \in Tab : /\ GivesUp(u, m)' => GivesUp(u, m)
                         /\ WillCheck(u, m)' => WillCheck(u, m) /\ tab'[u] = tab[u]
                         /\ WillCheck(u, m) => WillCheck(u, m)'
      BY <1>4, <2>4 DEF GivesUp, WillCheck
    <2>6. \A j : SetsAt(m, j)' <=> SetsAt(m, j)
      BY <1>1 DEF SetsAt
    <2>7. \A j, i : ReplacedIn(m, j, i)' <=> ReplacedIn(m, j, i)
      BY <1>1 DEF ReplacedIn
    <2>8. ClearedAfterReplaced(m)'
      BY <1>1, <2>1, <2>6, <2>7 DEF NameInv, ClearedAfterReplaced
    <2>9. GivenUpAfterReplaced(m)'
      BY <1>1, <2>1, <2>5, <2>6, <2>7 DEF NameInv, GivenUpAfterReplaced
    <2>10. CheckedAfterCleared(m)'
      BY <1>1, <2>1, <2>5 DEF NameInv, CheckedAfterCleared
    <2>11. KeptOrReplaced(m)'
      <3>1. Pointed(m)' <=> Pointed(m)
        BY <1>1 DEF Pointed
      <3> QED
        BY <1>1, <2>1, <2>5, <2>6, <2>7, <3>1 DEF NameInv, KeptOrReplaced
    <2> QED
      BY <2>3, <2>8, <2>9, <2>10, <2>11 DEF NameInv
  <1> QED
    BY <1>6, <1>7

\* A name is lost, or the primary name is read again.
LEMMA FlowOutside ==
    ASSUME FlowsInv, UNCHANGED <<primaryName, outbox, tab, excused>>, seen' \in Title,
           \/ \E n \in Title : LoseName(n)
           \/ UNCHANGED <<nameOwner, resolves>>
    PROVE  FlowsInv'
  <1> USE DEF FlowsInv
  <1>1. /\ nameOwner' \in [Title -> {Me, Someone, Nobody}]
        /\ resolves' \in [Title -> {Me, Someone, Nobody}]
    BY DEF LoseName, FlowsTyped
  <1>2. FlowsTyped'
    BY <1>1 DEF FlowsTyped, Busy
  <1>3. ASSUME NEW m \in Title, m \notin excused PROVE NameInv(m)'
    <2>1. NameInv(m)
      BY <1>3
    <2>2. \/ nameOwner'[m] = Someone
          \/ nameOwner'[m] = nameOwner[m] /\ resolves'[m] = resolves[m]
      BY DEF LoseName, FlowsTyped
    <2>3. /\ \A j : SetsAt(m, j)' <=> SetsAt(m, j)
          /\ \A j, i : ReplacedIn(m, j, i)' <=> ReplacedIn(m, j, i)
      BY DEF SetsAt, ReplacedIn
    <2>4. \A u \in Tab : (WillCheck(u, m)' <=> WillCheck(u, m)) /\ (GivesUp(u, m)' <=> GivesUp(u, m))
      BY DEF WillCheck, GivesUp
    <2>5. NoConflict(m)'
      BY <2>1 DEF NameInv, NoConflict, Busy
    <2>6. ClearedAfterReplaced(m)'
      BY <2>1, <2>3 DEF NameInv, ClearedAfterReplaced
    <2>7. GivenUpAfterReplaced(m)'
      BY <2>1, <2>3, <2>4 DEF NameInv, GivenUpAfterReplaced
    <2>8. CheckedAfterCleared(m)'
      BY <2>1, <2>4 DEF NameInv, CheckedAfterCleared
    <2>9. KeptOrReplaced(m)'
      <3>1. resolves'[m] = resolves[m] => (Pointed(m)' <=> Pointed(m))
        BY DEF Pointed
      <3> QED
        BY <2>1, <2>2, <2>3, <2>4, <3>1 DEF NameInv, KeptOrReplaced
    <2> QED
      BY <2>5, <2>6, <2>7, <2>8, <2>9 DEF NameInv
  <1> QED
    BY <1>2, <1>3

\* The inductive invariant of the flows of primary names.
THEOREM FlowsInvHolds == FlowsSpec => []FlowsInv
  <1>1. FlowsInit => FlowsInv
    BY FlowsStart
  <1>2. FlowsInv /\ [FlowsNext]_flowVars => FlowsInv'
    <2> SUFFICES ASSUME FlowsInv, [FlowsNext]_flowVars PROVE FlowsInv'
      OBVIOUS
    <2>1. seen \in Title /\ primaryName \in Title
      BY DEF FlowsInv, FlowsTyped
    <2>2. CASE Confirmation
      BY <2>2, FlowConfirms
    <2>3. CASE Refetch
      BY <2>1, <2>3, FlowOutside DEF Refetch, worldVars
    <2>4. ASSUME NEW n \in Title, LoseName(n) PROVE FlowsInv'
      <3>1. UNCHANGED <<primaryName, outbox, tab, excused>> /\ seen' \in Title
        BY <2>1, <2>4 DEF LoseName
      <3> QED
        BY <2>4, <3>1, FlowOutside
    <2>5. ASSUME NEW t \in Tab, NEW n \in Title, SetPrimaryName(t, n) PROVE FlowsInv'
      BY <2>1, <2>5, FlowClicks DEF SetPrimaryName
    <2>6. ASSUME NEW t \in Tab, NEW n \in Title, NEW reverse \in BOOLEAN, RegisterName(t, n, reverse)
          PROVE  FlowsInv'
      <3>1. CASE reverse
        BY <2>1, <2>6, <3>1, FlowClicks DEF RegisterName
      <3>2. CASE ~reverse
        BY <2>6, <3>2, FlowClicks DEF RegisterName
      <3> QED
        BY <3>1, <3>2
    <2>7. ASSUME NEW t \in Tab, NEW n \in Title, NEW other \in BOOLEAN, SetReceivingAddress(t, n, other)
          PROVE  FlowsInv'
      <3>1. CASE other
        BY <2>7, <3>1, FlowClicks DEF SetReceivingAddress
      <3>2. CASE ~other
        BY <2>7, <3>2, FlowClicks DEF SetReceivingAddress
      <3> QED
        BY <3>1, <3>2
    <2>8. ASSUME NEW t \in Tab, TabStep(t) PROVE FlowsInv'
      BY <2>8, FlowTabs
    <2>9. CASE UNCHANGED flowVars
      BY <2>1, <2>9, FlowOutside DEF flowVars
    <2> QED
      BY <2>2, <2>3, <2>4, <2>5, <2>6, <2>7, <2>8, <2>9 DEF FlowsNext
  <1> QED
    BY <1>1, <1>2, PTL DEF FlowsSpec

\* No flow clears the address of a name that a flow has made primary
\* (usePrimaryName.ts, useRegistration.ts, DomainCard.tsx), whatever the names,
\* the tabs and the clicks.
THEOREM PrimaryKeepsAddressHolds == FlowsSpec => []PrimaryKeepsAddress
  <1>1. FlowsInv => PrimaryKeepsAddress
    BY FlowsInvGives
  <1> QED
    BY <1>1, FlowsInvHolds, PTL
==============================================================================
