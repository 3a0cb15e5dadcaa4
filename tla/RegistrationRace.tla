--------------------------- MODULE RegistrationRace ---------------------------
(***************************************************************************)
(* Why ArcNSController asks for a commitment: transactions wait in public  *)
(* before they are included, in an order of somebody else's choosing.      *)
(*                                                                         *)
(* A customer's request is unknown until the customer broadcasts the       *)
(* reveal; its hash is not, and anybody may commit it.  A copycat          *)
(* wants a name once it has seen it in a reveal, and its own transactions  *)
(* are included first.                                                     *)
(*                                                                         *)
(* The customer's client (frontend/src/hooks/useRegistration.ts) submits   *)
(* commit(), lets a fixed time go by, and has the wallet send register().  *)
(* It reads nothing in between: not whether the commitment was included,   *)
(* nor whether the name is still free.  A reveal sent too early or in vain *)
(* is public all the same, and reverts when it is included.                *)
(***************************************************************************)
EXTENDS ArcNSController

CONSTANTS
    Customer,    \* the requests of customers, no two for the same name
    Copycat,     \* the requests made for names seen in reveals
    CLIENT_WAIT, \* MIN_COMMITMENT_AGE_MS of the client
    INCLUSION    \* how long a broadcast reveal may wait

ASSUME RaceAssumption ==
    /\ Customer \cup Copycat \subseteq Request
    /\ \A r1, r2 \in Customer : r1.label = r2.label => r1 = r2
    /\ \A r1 \in Customer, r2 \in Copycat : r1.sender # r2.sender
    /\ CLIENT_WAIT \in Nat
    /\ INCLUSION \in Nat
    /\ INCLUSION < MIN_COMMITMENT_AGE
    \* a customer's request is one that the controller serves
    /\ \A r \in Customer :
          /\ r.label \in ValidName
          /\ r.owner # Zero
          /\ r.duration >= MIN_REGISTRATION_DURATION
          /\ r.resolver \in {ControllerResolver, Zero}

VARIABLES
    clicked,   \* when the client submitted the commitment of a request, or 0
    mempool,   \* the reveals broadcast and not yet included
    seen       \* the names revealed so far

raceVars == <<clicked, mempool, seen>>

NameOf(p) == <<p.tld, p.req.label>>

RaceInit ==
    /\ SystemInit
    /\ clicked = [tld \in TLD |-> [r \in Customer |-> 0]]
    /\ mempool = {} /\ seen = {}

\* The client submits commit(); from now on its hash is public.
Click(tld, r) ==
    /\ clicked[tld][r] = 0
    /\ clicked' = [clicked EXCEPT ![tld][r] = now]
    /\ UNCHANGED <<allVars, mempool, seen>>

\* A commitment is included: one a client has submitted, whoever sends it, at any
\* time after, or one of a copycat to a name seen before.
RaceCommit(s) ==
    /\ sender' = s
    /\ \E tld \in TLD, c \in Customer \cup Copycat :
          /\ c \in Customer => clicked[tld][c] # 0
          /\ c \in Copycat => <<tld, c.label>> \in seen
          /\ Commit(tld, c)
    /\ UNCHANGED <<now, raceVars>>

\* What the client relies on and does not check, as it stands when the reveal goes
\* out: the commitment was included before the slack of the wait was used up, or the
\* user confirmed late enough all the same; its window stays open until inclusion;
\* the name is still free.
OnTime(tld, r) ==
    /\ commitments[tld][r] # 0
    /\ \/ commitments[tld][r] + MIN_COMMITMENT_AGE <= clicked[tld][r] + CLIENT_WAIT
       \/ commitments[tld][r] + MIN_COMMITMENT_AGE <= now
    /\ now + INCLUSION <= commitments[tld][r] + MAX_COMMITMENT_AGE
    /\ Available(<<tld, r.label>>)

Reveal(tld, r) ==
    LET p == [tld |-> tld, req |-> r, since |-> now, onTime |-> OnTime(tld, r)] IN
    /\ <<tld, r.label>> \notin seen
    /\ mempool' = mempool \cup {p}
    /\ seen' = seen \cup {NameOf(p)}
    /\ UNCHANGED <<allVars, clicked>>

\* Fault: the client does not wait.
BroadcastAtOnce(tld, r) == clicked[tld][r] # 0 /\ Reveal(tld, r)

\* The wait is over, and the user confirms, now or later; a click has one reveal.
Broadcast(tld, r) ==
    /\ clicked[tld][r] # 0
    /\ now >= clicked[tld][r] + CLIENT_WAIT
    /\ Reveal(tld, r)

\* A customer leaves the price open: maxCost is the largest of Limit.
Include(p) ==
    /\ \/ /\ \E m \in Limit : Register(p.tld, p.req, m)
          /\ sender' = p.req.sender
          /\ UNCHANGED now
       \/ /\ ~(Available(NameOf(p)) /\ Revealable(p.tld, p.req))
          /\ UNCHANGED allVars
    /\ mempool' = mempool \ {p}
    /\ UNCHANGED <<clicked, seen>>

\* What a copycat does besides committing: it registers, or renews the lease.
CopycatTx ==
    /\ \E tld \in TLD, r \in Copycat, m \in Limit :
          /\ sender' = r.sender
          /\ \/ Register(tld, r, m)
             \/ \E d \in Duration : Renew(r.sender, tld, r.label, d, m)
    /\ UNCHANGED <<now, raceVars>>

\* No reveal waits longer than INCLUSION.
RaceTick ==
    /\ \A p \in mempool : now < p.since + INCLUSION
    /\ Tick
    /\ charge' = NoCharge
    /\ UNCHANGED <<resolverVars, controllerVars, raceVars>>

IncludeSome == \E p \in mempool : Include(p)

RaceNext ==
    \/ \E s \in Account : RaceCommit(s)
    \/ \E tld \in TLD, r \in Customer : Click(tld, r) \/ Broadcast(tld, r)
    \/ IncludeSome
    \/ CopycatTx
    \/ RaceTick

\* The chain does not leave a reveal out for ever.  Neither the customer nor the
\* inclusion of a commitment is assumed to be in time, or to come at all.
RaceSpec ==
    RaceInit /\ [][RaceNext]_<<allVars, raceVars>> /\ WF_<<allVars, raceVars>>(IncludeSome)

------------------------------------------------------------------------------
\* A reveal that went out on time is not made to fail: until it is included
\* the name stays free and the commitment stays in its window, whatever is
\* committed, registered or renewed in front of it (the age of commitments in
\* _validateCommitment, the checks of commit; the wait of the client).
RevealStaysGood ==
    \A p \in mempool : p.onTime => Available(NameOf(p)) /\ Revealable(p.tld, p.req)

\* The customer whose reveal went out on time ends up as the holder, and by that
\* reveal.  The client (useRegistration.ts) checks none of what OnTime says, so that
\* a customer whose commitment was included too late, who confirmed too late or whose
\* name was taken during the wait has no such promise.
CustomerServed ==
    \A tld \in TLD, r \in Customer :
       (\E p \in mempool : p.tld = tld /\ p.req = r /\ p.onTime)
          ~> (nft[<<tld, r.label>>] = r.owner /\ r \in usedCommitments[tld])
==============================================================================
