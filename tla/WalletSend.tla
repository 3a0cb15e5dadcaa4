------------------------------ MODULE WalletSend ------------------------------
(***************************************************************************)
(* Sending an asset to a name (components/send/SendAssetPanel.tsx with     *)
(* lib/sendAssets.ts).  The form is filled in, the recipient is resolved,  *)
(* a review is shown, and the wallet signs what the review and the form    *)
(* say.  A resolution, and a look at a token's contract, is an             *)
(* asynchronous call that works on the form as it was when the call began; *)
(* several of them are under way while the form is edited, and each of     *)
(* them, when it ends, enables the buttons that another one has disabled.  *)
(*                                                                         *)
(* An address is the input it was resolved from.  Checks of amount and     *)
(* balance, the network and what the chain does with a transfer are left   *)
(* out: a review that fails is one that is not prepared.                   *)
(***************************************************************************)
EXTENDS Naturals, FiniteSets

CONSTANTS
    Asset, FirstAsset,   \* assets[0], which is always listed
    Detected,            \* those of the wallet index, which may leave the list
    Custom,              \* those that only an address typed by the user lists
    Input,               \* what is typed as recipient
    NoInput,             \* nothing typed, nothing resolved, nothing reviewed
    Amount,
    MaxCall,             \* bound: calls under way
    MaxEdit              \* bound: edits of the form, and new readings of the wallet index

ASSUME SendAssumption ==
    /\ FirstAsset \in Asset \ (Detected \cup Custom) /\ Detected \cup Custom \subseteq Asset
    /\ Detected \cap Custom = {}
    /\ NoInput \notin Input \cup Amount /\ MaxCall \in Nat /\ MaxEdit \in Nat

VARIABLES
    selected,        \* selectedAddress
    listed,          \* assets
    byHand,          \* those of them whose provenance is "custom"
    form,            \* recipientInput and amount
    resolution,      \* the input last resolved
    review,          \* the review shown; late: see SentAsEntered
    busy,            \* what the buttons are disabled for
    calls,           \* calls under way, with the form as they captured it
    sending,         \* transfers in the wallet or waiting for a receipt
    edits

sendVars == <<selected, listed, byHand, form, resolution, review, busy, calls, sending, edits>>

selectedAsset == IF selected \in listed THEN selected ELSE FirstAsset

SendInit ==
    /\ selected = FirstAsset /\ listed = Asset \ Custom /\ byHand = {}
    /\ form = [to |-> NoInput, amount |-> NoInput]
    /\ resolution = NoInput /\ review = NoInput /\ busy = "no"
    /\ calls = {} /\ sending = 0 /\ edits = 0

Call(what, asset) == [what |-> what, to |-> form.to, asset |-> asset,
                      amount |-> form.amount, late |-> FALSE]
BeginCall(what, asset) ==
    /\ Cardinality(calls) < MaxCall
    /\ calls' = calls \cup {Call(what, asset)}

\* What a call has captured is out of date from now on.
Outdated(some) == {[c EXCEPT !.late = TRUE] : c \in some}

\* Fault: the effect does not follow the asset.
ReviewAfterEditAmount(asset, to, amount) ==
    IF to = form.to /\ amount = form.amount THEN review ELSE NoInput

\* The effect on selectedAddress, recipientInput and amount.
ReviewAfterEdit(asset, to, amount) ==
    IF asset = selected /\ to = form.to /\ amount = form.amount THEN review ELSE NoInput

Edit(asset, to, amount) ==
    /\ edits < MaxEdit /\ edits' = edits + 1
    /\ <<asset, to, amount>> # <<selected, form.to, form.amount>>
    /\ selected' = asset /\ form' = [to |-> to, amount |-> amount]
    /\ review' = ReviewAfterEdit(asset, to, amount)
    /\ resolution' = IF to = form.to THEN resolution ELSE NoInput
    /\ UNCHANGED sending

SelectAsset(a) ==
    /\ a \in listed /\ Edit(a, form.to, form.amount)
    /\ calls' = Outdated(calls) /\ UNCHANGED <<listed, byHand, busy>>
TypeRecipient(to) ==
    Edit(selected, to, form.amount) /\ calls' = Outdated(calls) /\ UNCHANGED <<listed, byHand, busy>>
TypeAmount(x) ==
    Edit(selected, form.to, x) /\ calls' = Outdated(calls) /\ UNCHANGED <<listed, byHand, busy>>

\* resolveRecipient, of the button or of leaving the field.
BeginResolve ==
    /\ form.to # NoInput
    /\ BeginCall("resolve", selectedAsset) /\ busy' = "resolve"
    /\ UNCHANGED <<selected, listed, byHand, form, resolution, review, sending, edits>>

\* The resolution there is belongs to the input there is.
Resolved == resolution # NoInput /\ resolution = form.to

\* The asset is not part of a review, but its decimals are, in the amount.
Reviewed(to, c) == IF c.amount = NoInput THEN review
                   ELSE [to |-> to, units |-> <<c.amount, c.asset>>, late |-> c.late]

PrepareReview ==
    /\ form.to # NoInput /\ review = NoInput
    /\ IF Resolved
         THEN review' = Reviewed(resolution, Call("review", selectedAsset)) /\ UNCHANGED <<busy, calls>>
         ELSE BeginCall("review", selectedAsset) /\ busy' = "resolve" /\ UNCHANGED review
    /\ UNCHANGED <<selected, listed, byHand, form, resolution, sending, edits>>

\* The answer: a failure clears the resolution, an address becomes it, and the
\* review that waited for it is shown.
EndResolve(c) ==
    /\ c \in calls /\ c.what # "token"
    /\ calls' = calls \ {c} /\ busy' = "no"
    /\ \/ resolution' = NoInput /\ UNCHANGED review
       \/ /\ resolution' = c.to
          /\ review' = IF c.what = "review" THEN Reviewed(c.to, c) ELSE review
    /\ UNCHANGED <<selected, listed, byHand, form, sending, edits>>

\* The assets change under the form: that is late for everything if the asset
\* selected comes or goes, for no effect follows the list.
Relisted(some) ==
    IF (selected \in listed) = (selected \in listed')
      THEN calls' = some /\ UNCHANGED review
      ELSE /\ calls' = Outdated(some)
           /\ review' = IF review = NoInput THEN review ELSE [review EXCEPT !.late = TRUE]

\* Any address may be typed, that of an asset in the list too.
AddCustomToken(a) ==
    /\ busy # "token"
    /\ BeginCall("token", a) /\ busy' = "token"
    /\ UNCHANGED <<selected, listed, byHand, form, resolution, review, sending, edits>>
\* The token is selected when its contract has answered, and listed if it was not.
EndToken(c) ==
    /\ c \in calls /\ c.what = "token" /\ busy' = "no"
    /\ \/ /\ calls' = calls \ {c}
          /\ UNCHANGED <<selected, listed, byHand, form, resolution, review, sending, edits>>
       \/ /\ listed' = listed \cup {c.asset} /\ byHand' = byHand \cup ({c.asset} \ listed)
          /\ \/ Edit(c.asset, form.to, form.amount) /\ calls' = Outdated(calls \ {c})
             \/ /\ c.asset = selected /\ Relisted(calls \ {c})
                /\ UNCHANGED <<selected, form, resolution, sending, edits>>

\* loadWalletAssets, for another account or after an error of the index, and its
\* next success.
ListDetected ==
    /\ edits < MaxEdit /\ edits' = edits + 1
    /\ listed' \in {listed \ (Detected \ byHand), listed \cup Detected} \ {listed}
    /\ Relisted(calls)
    /\ UNCHANGED <<selected, byHand, form, resolution, busy, sending>>

ConfirmTransfer ==
    /\ review # NoInput /\ busy # "send"
    /\ sending < MaxCall
    /\ busy' = "send" /\ sending' = sending + 1
    /\ UNCHANGED <<selected, listed, byHand, form, resolution, review, calls, edits>>

\* Mined, whatever the receipt says, the amount is emptied for the next; refused,
\* the review stays.
EndTransfer ==
    /\ sending > 0 /\ sending' = sending - 1 /\ busy' = "no"
    /\ \/ /\ review' = NoInput /\ form' = [form EXCEPT !.amount = NoInput]
          /\ calls' = Outdated(calls)
       \/ UNCHANGED <<review, form, calls>>
    /\ UNCHANGED <<selected, listed, byHand, resolution, edits>>

SendNext ==
    \/ \E a \in Asset : SelectAsset(a) \/ AddCustomToken(a)
    \/ \E to \in Input : TypeRecipient(to)
    \/ \E x \in Amount : TypeAmount(x)
    \/ BeginResolve \/ PrepareReview \/ ListDetected
    \/ \E c \in calls : EndResolve(c) \/ EndToken(c)
    \/ ConfirmTransfer \/ EndTransfer

SendSpec == SendInit /\ [][SendNext]_sendVars

\* What goes to the wallet is what the form shows at that moment, though the
\* recipient and the amount come from the review and the token from the form:
\* the address of the recipient typed, the amount typed in the units of the asset
\* selected, however many answers were under way and however the form was edited.
\* Two exceptions (late): the form was edited while the review still waited for
\* its recipient, or the asset selected left or entered the list meanwhile.
SentAsEntered ==
    [][ConfirmTransfer => \/ review.late
                          \/ /\ review.to = form.to
                             /\ review.units = <<form.amount, selectedAsset>>]_sendVars
===============================================================================
