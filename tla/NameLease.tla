------------------------------ MODULE NameLease ------------------------------
(***************************************************************************)
(* What a registrar promises, whatever the contracts around it do: every   *)
(* name is a lease.  It is granted only when nobody's lease nor its grace  *)
(* period runs, it can be extended until the grace period is over, it is   *)
(* passed on without changing its term, and it never becomes nobody's.     *)
(***************************************************************************)
EXTENDS Naturals

CONSTANTS
    Lease,    \* the names
    Holder,   \* who may hold one
    Nobody,   \* the holder of a name never leased
    Term,     \* the terms granted or added
    GRACE,    \* how long a lapsed lease stays reserved for its holder
    Start     \* when the registrar starts

VARIABLES holder, until, time

leaseVars == <<holder, until, time>>

Reserved(n) == time <= until[n] + GRACE

LeaseInit ==
    /\ time = Start
    /\ holder \in [Lease -> Holder \cup {Nobody}]
    /\ until \in [Lease -> Nat]
    /\ \A n \in Lease : holder[n] = Nobody <=> ~Reserved(n)

Grant(n, a, term) ==
    /\ ~Reserved(n)
    /\ holder' = [holder EXCEPT ![n] = a]
    /\ until' = [until EXCEPT ![n] = time + term]
    /\ UNCHANGED time

ExtendLease(n, term) ==
    /\ Reserved(n)
    /\ until' = [until EXCEPT ![n] = until[n] + term]
    /\ UNCHANGED <<holder, time>>

PassOn(n, a) ==
    /\ holder[n] # Nobody
    /\ holder' = [holder EXCEPT ![n] = a]
    /\ UNCHANGED <<until, time>>

TimePasses ==
    /\ time' > time
    /\ UNCHANGED <<holder, until>>

LeaseNext ==
    \/ \E n \in Lease, a \in Holder, term \in Term : Grant(n, a, term)
    \/ \E n \in Lease, term \in Term : ExtendLease(n, term)
    \/ \E n \in Lease, a \in Holder : PassOn(n, a)
    \/ TimePasses

LeaseSpec == LeaseInit /\ [][LeaseNext]_leaseVars
==============================================================================
