------------------------------ MODULE MCClients ------------------------------
(***************************************************************************)
(* The readers and writers around the contracts that are not contracts:    *)
(* two subgraphs, the resolution API, the parts of the web client, and the*)
(* discount's campaign.  They keep no state in common, so a behaviour is a *)
(* behaviour of one of them; the subgraphs read the same blocks, each into *)
(* its own store, and are taken together.                                  *)
(***************************************************************************)
EXTENDS ArcNSSubgraph, BensSubgraph, PrimaryNameFlows, WalletSend, ClientPayments,
        ResolutionRoutes, ResolvePage, DomainResolution, OwnedNames, NameSearch, RegistrationCard,
        EarlyAdopterCampaign

CONSTANTS FirstPrice, FirstQuery

\* What is put in the box: names, texts that are none, an empty box and a blank one.
MCEntry == {<<>>, <<" ">>, <<"x">>, <<"X", "x", " ">>, <<"x", "-">>, <<"x", "-", "_">>, <<"u">>}

FirstPayer == CHOOSE w \in Payer : TRUE

VARIABLE scene

blockVars   == <<eventVars, store, bens>>
writerVars  == <<flowVars, sendVars, paymentVars, cardVars>>
lookingVars == <<routeVars, pageVars, resolutionVars, ownedVars, namesVars, searchVars>>
clientsVars == <<scene, blockVars, writerVars, lookingVars, campaignVars>>

\* Outside its scene one beginning will do.
ClientsInit ==
    /\ scene \in {"index", "primary", "send", "payment", "card", "routes", "page", "input",
                 "owned", "names", "search", "tools", "offers"}
    /\ IndexInit /\ BensInit
    /\ FlowsInit /\ (scene # "primary" => nameOwner = resolves /\ primaryName = CHOOSE n \in Title : TRUE)
    /\ SendInit
    /\ PaymentsInit /\ price = FirstPrice
    /\ (scene # "payment" => \A d \in Domain : domainOwner[d] = Vacant)
    \* One wallet has a primary name and is connected; the others have none yet.
    /\ CardInit /\ cardWallet = FirstPayer
    /\ primaryIs = [w \in Payer |-> IF w = FirstPayer THEN CHOOSE n \in CardName : TRUE ELSE None]
    /\ RoutesInit /\ (scene # "routes" => route = "name")
    /\ PageInit
    /\ ResolutionInit /\ stored = TRUE
    /\ OwnedInit
    /\ NamesInit /\ (scene # "names" => suffix = <<>>)
    /\ SearchInit
    \* An environment that says nothing, and one that contradicts the manifest.
    /\ CampaignInit /\ manifest.env \in {NoRoot, Previous}
    /\ manifest.file = Previous => manifest.env = NoRoot
    /\ chainOf = "testnet" => manifest = [file |-> Final, env |-> NoRoot]
    /\ (scene \notin {"tools", "offers"} =>
          chainOf = "testnet" /\ manifest = [file |-> Final, env |-> NoRoot])

In(s, A) == scene = s /\ A /\ UNCHANGED scene

Indexing(A)   == In("index", A) /\ UNCHANGED <<writerVars, lookingVars, campaignVars>>
Writing(A)    == A /\ UNCHANGED <<blockVars, lookingVars, campaignVars>>
Looking(A)    == A /\ UNCHANGED <<blockVars, writerVars, campaignVars>>
Campaigning(A) == A /\ UNCHANGED <<blockVars, writerVars, lookingVars>>

\* The names of an input stand for each other, and so do the recipients of a
\* transfer: the first one is fixed.
ClientsNext ==
    \/ Indexing(ChainNext /\ UNCHANGED <<store, bens>>)
    \/ Indexing(IndexBlock /\ IndexBensBlock)
    \/ Writing(In("primary", FlowsNext)    /\ UNCHANGED <<sendVars, paymentVars, cardVars>>)
    \/ Writing(/\ In("send", SendNext)     /\ UNCHANGED <<flowVars, paymentVars, cardVars>>
               /\ form.to = NoInput => form'.to \in {NoInput, CHOOSE i \in Input : TRUE})
    \* A quote is read for a purchase still to come.
    \/ Writing(/\ In("payment", PaymentsNext) /\ UNCHANGED <<flowVars, sendVars, cardVars>>
               /\ offer' # offer => \E p \in Purchase : purchase[p].at = "idle")
    \* The first name shown is not the one that is the wallet's primary name.  The last
    \* move is a purchase or follows one, and what is read after it is not for another; the
    \* first box is ticked before a purchase or after a success, where it is looked at.
    \/ Writing(/\ In("card", CardNext)     /\ UNCHANGED <<flowVars, sendVars, paymentVars>>
               /\ card'.id = 1 => card.id = 1 \/ card'.name # primaryIs[FirstPayer]
               /\ moves = MaxMove => UNCHANGED <<quote, offerVars, choiceDue, primarySeen>>
               /\ moves' = MaxMove => orders' # <<>>
               /\ card'.reverse # card.reverse /\ card'.id = card.id =>
                     card.step = "success" \/ (RegisterButton /\ moves < MaxMove))
    \/ Looking(In("routes", RoutesNext)
               /\ UNCHANGED <<pageVars, resolutionVars, ownedVars, namesVars, searchVars>>)
    \/ Looking(In("page", PageNext)
               /\ UNCHANGED <<routeVars, resolutionVars, ownedVars, namesVars, searchVars>>)
    \* The last name to be registered is the one in the input, where it is read again.
    \/ Looking(/\ In("input", ResolutionNext)
               /\ UNCHANGED <<routeVars, pageVars, ownedVars, namesVars, searchVars>>
               /\ entries = 0 => entered' \in {Blank, FirstQuery}
               /\ entries' # entries /\ entered' = entered /\ entries' = MaxEntry =>
                     \A q \in Query \ {entered} : resolveCache'[q] = resolveCache[q])
    \/ Looking(In("owned", OwnedNext)
               /\ UNCHANGED <<routeVars, pageVars, resolutionVars, namesVars, searchVars>>)
    \* The last character ends the text or hyphenates it.
    \/ Looking(/\ In("names", TypeCharacter)
               /\ Len(text') = MaxText => text'[MaxText] \in {Letter, "-"}
               /\ UNCHANGED <<routeVars, pageVars, resolutionVars, ownedVars, searchVars>>)
    \/ Looking(In("search", SearchNext)
               /\ UNCHANGED <<routeVars, pageVars, resolutionVars, ownedVars, namesVars>>)
    \* The scripts and the client do not meet but in the registry, where the
    \* batches do what the scripts do; no script reads the index.
    \/ Campaigning(/\ In("tools", RegistryNext \/ ToolsNext)
                   /\ emitted # <<>> => emitted' = <<>>)
    \/ Campaigning(In("offers", RegistryNext \/ OffersNext))

ClientsSpec == ClientsInit /\ [][ClientsNext]_clientsVars

------------------------------------------------------------------------------
\* What the places that look names up answer, show and look up is of the name or the
\* wallet asked and as recent as their caches and checks promise (RoutesRecent,
\* ResultsAreTheirs, ShownIsRecent, OwnListShown, SearchedIsTyped, NamesAgree, with
\* their exceptions).
LookupsAreTheirs ==
    /\ RoutesRecent /\ ResultsAreTheirs /\ ShownIsRecent /\ OwnListShown
    /\ scene = "search" => SearchedIsTyped
    /\ scene = "names" => NamesAgree
==============================================================================
