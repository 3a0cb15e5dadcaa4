------------------------------ MODULE MCRace ------------------------------
(***************************************************************************)
(* Registering through a web client: the live one, against a copycat (one  *)
(* TLD, one name: u is the customer, m the copycat and last holder), and   *)
(* the pipeline of the first one, against its own controller.  A behaviour *)
(* is one of either.  The pipeline runs with one click, to the bounds of   *)
(* the constants, or with several, one mishap and one retry.               *)
(***************************************************************************)
EXTENDS RegistrationRace, RegistrationPipeline

CONSTANTS arc, alice, reverse, addr, u, m, res, arcRegistrar, arcController, FirstAccount

MCReverse == <<reverse, addr>>
MCNodes == {<< >>, <<arc>>, <<arc, alice>>, MCReverse, MCReverse \o <<u>>}
MCRegistrarOf == [t \in {arc} |-> arcRegistrar]
MCControllerOf == [t \in {arc} |-> arcController]
MCTierOf == [l \in {alice} |-> 1]
MCPrices == [t \in {1} |-> 2]

MCCustomer == {[label |-> alice, owner |-> u, duration |-> 5, secret |-> 0,
                resolver |-> res, reverse |-> TRUE, sender |-> u]}
MCCopycat == {[label |-> alice, owner |-> m, duration |-> 5, secret |-> 0,
               resolver |-> Zero, reverse |-> FALSE, sender |-> m]}
MCRequest == MCCustomer \cup MCCopycat

VARIABLE scene

liveVars == <<allVars, raceVars>>

\* The first account of the wallet stands for all, and outside the race one beginning
\* of it.
RegisteringInit ==
    /\ scene \in {"live", "one click", "clicks"}
    /\ RaceInit /\ (scene # "live" => \A n \in Name : expires[n] = 0)
    /\ PipelineInit /\ connected = FirstAccount

WithinScene ==
    \/ scene = "one click" /\ \A f \in Flow \ {1} : At(f, "idle")
    \/ scene = "clicks" /\ mishaps <= 1 /\ \A f \in Flow : flow[f].attempt <= 1

RegisteringNext ==
    \/ scene = "live" /\ RaceNext /\ UNCHANGED <<scene, pipelineVars>>
    \/ scene # "live" /\ PipelineNext /\ UNCHANGED <<scene, liveVars>> /\ WithinScene'

\* That of RaceSpec; and no more than PipelineFairness.
RegisteringFairness ==
    /\ WF_liveVars(scene = "live" /\ IncludeSome)
    /\ WF_pipelineVars(scene # "live" /\ ((\E f \in Flow : FlowStep(f)) \/ Settle))
    /\ WF_pipelineVars(scene # "live" /\ ClockTick)

RegisteringSpec ==
    RegisteringInit /\ [][RegisteringNext]_<<scene, liveVars, pipelineVars>> /\ RegisteringFairness
==============================================================================
