------------------------------ MODULE NameSearch ------------------------------
(***************************************************************************)
(* The search of the application page: the box with its debounced lookup   *)
(* (components/SearchBar.tsx), the page that holds the name just typed and *)
(* the name looked up (app/app/page.tsx), and which of them the card shows *)
(* and sells.                                                              *)
(***************************************************************************)
EXTENDS NameRules

CONSTANTS
    Entry,         \* what may be in the box
    NoName,
    MaxStroke      \* bound: changes of the box and the TLD

ASSUME SearchAssumption == MaxStroke \in Nat

VARIABLES
    box, tldTab,      \* raw and tld of the search bar
    debounce,      \* the lookup that the timer will start
    pending, committed,
    strokes

searchVars == <<box, tldTab, debounce, pending, committed, strokes>>

Typed(s, tld) == [label |-> normalizeLabel(s), tld |-> tld]

ASSUME NoNameAssumption == \A s \in Entry, tld \in SUPPORTED_TLDS : Typed(s, tld) # NoName

display == IF pending # NoName THEN pending ELSE committed

SearchInit ==
    /\ box = <<>> /\ tldTab = "arc" /\ strokes = 0
    /\ debounce = NoName /\ pending = NoName /\ committed = NoName

\* An empty box empties the page; a text that is no name leaves everything, the
\* running timer too; a name is shown at once and looked up in a while.
processInput(s, tld) ==
    \/ trim(s) = <<>>
       /\ debounce' = NoName /\ pending' = NoName /\ committed' = NoName
    \/ trim(s) # <<>> /\ ~validateLabel(normalizeLabel(s))
       /\ UNCHANGED <<debounce, pending, committed>>
    \/ validateLabel(normalizeLabel(s))
       /\ pending' = Typed(s, tld) /\ debounce' = Typed(s, tld) /\ UNCHANGED committed

handleChange(s) ==
    /\ strokes < MaxStroke /\ strokes' = strokes + 1
    /\ s # box /\ box' = s /\ processInput(s, tldTab) /\ UNCHANGED tldTab
handleTldChange(tld) ==
    /\ strokes < MaxStroke /\ strokes' = strokes + 1
    /\ tldTab' = tld /\ processInput(box, tld) /\ UNCHANGED box

\* onSearch, from the form or from the timer.
handleSubmit ==
    /\ validateLabel(normalizeLabel(box))
    /\ debounce' = NoName /\ committed' = Typed(box, tldTab)
    /\ UNCHANGED <<box, tldTab, pending, strokes>>
TimerFires ==
    /\ debounce # NoName
    /\ debounce' = NoName /\ committed' = debounce
    /\ UNCHANGED <<box, tldTab, pending, strokes>>

SearchNext ==
    \/ \E s \in Entry : handleChange(s)
    \/ \E tld \in SUPPORTED_TLDS : handleTldChange(tld)
    \/ handleSubmit \/ TimerFires

SearchSpec == SearchInit /\ [][SearchNext]_searchVars

------------------------------------------------------------------------------
\* While the box holds a name, the card shows that name under the TLD selected, and
\* once no timer runs it is the name that was looked up; while the box is empty
\* nothing is shown and nothing will be.  A text that is no name keeps the card of
\* the name before, and its timer, under whatever TLD is selected since.
SearchedIsTyped ==
    /\ validateLabel(normalizeLabel(box)) =>
         display = Typed(box, tldTab) /\ (debounce = NoName => committed = display)
    /\ trim(box) = <<>> => display = NoName /\ debounce = NoName
================================================================================
