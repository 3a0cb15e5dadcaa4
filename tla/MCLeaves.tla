------------------------------- MODULE MCLeaves -------------------------------
(***************************************************************************)
(* The two contracts that call no other, each by itself: the registry with *)
(* a chain of nodes root / tld / name and three accounts, and one price    *)
(* oracle with two tiers.  A behaviour is a behaviour of one of them.      *)
(***************************************************************************)
EXTENDS ArcNSRegistry, RentQuotes

CONSTANTS tld, name, MaxDuration, MaxAnnual

MCLabel == {tld, name}
MCNodes == {<< >>, <<tld>>, <<tld, name>>}

MCTier == {1, 5}
MCTable == [MCTier -> 0..MaxAnnual]
MCDefault == [t \in MCTier |-> IF t = 1 THEN 5 ELSE 2]
MCDurations == 1..MaxDuration
MCExpiries == 0..Horizon

VARIABLE contract

leavesVars == <<registryVars, sender, prices, timestamp, contract>>

LeavesInit == RegistryInit /\ PricingInit /\ contract \in {"registry", "oracle"}

LeavesNext ==
    /\ UNCHANGED contract
    /\ \/ contract = "registry" /\ RegistryNext /\ UNCHANGED <<prices, timestamp>>
       \/ contract = "oracle" /\ PricingNext /\ UNCHANGED <<registryVars, sender>>

LeavesSpec == LeavesInit /\ [][LeavesNext]_leavesVars
===============================================================================
