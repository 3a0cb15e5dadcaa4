------------------------------- MODULE NameRules -------------------------------
(***************************************************************************)
(* What counts as a name: the rule of the contract (ArcNSController,       *)
(* _validName) and those of the client's search (lib/normalization.ts), of *)
(* its resolve page (lib/domain.ts, app/resolve/page.tsx) and of the public*)
(* API (lib/adapterHelpers.ts).                                            *)
(*                                                                         *)
(* A text is a sequence of kinds of characters and what follows its dots.  *)
(* Somebody types it, one character at a time.                             *)
(***************************************************************************)
EXTENDS Naturals, Sequences, SequencesExt

CONSTANT MaxText   \* bound: characters before the first dot

ASSUME NamesAssumption == MaxText \in Nat

VARIABLES text, suffix

namesVars == <<text, suffix>>

Letter == "x"      \* a-z, 0-9
Upper  == "X"
Kelvin == "K"      \* U+212A, which folds to an ASCII letter
Wide   == "u"      \* beyond ASCII, one unit of UTF-16
Pair   == "uu"     \* beyond ASCII, two
Other  == "!"      \* any other character of ASCII
Character == {Letter, Upper, Kelvin, Wide, Pair, Other, "-", "_", " "}

SUPPORTED_TLDS == {"arc", "circle"}
\* What may follow the first dot, split at the dots.
Suffix == {<<>>, <<"arc">>, <<"circle">>, <<"org">>, <<"x", "arc">>}

NamesInit == text = <<>> /\ suffix \in Suffix
TypeCharacter == \E c \in Character :
    Len(text) < MaxText /\ text' = Append(text, c) /\ UNCHANGED suffix
NamesSpec == NamesInit /\ [][TypeCharacter]_namesVars

------------------------------------------------------------------------------
(* Normalization, and the four rules.                                        *)

Has(s, chars) == \E i \in DOMAIN s : s[i] \in chars
Over(s, chars) == \A i \in DOMAIN s : s[i] \in chars

trimStart(s) ==
    LET i == SelectInSeq(s, LAMBDA c : c # " ") IN IF i = 0 THEN <<>> ELSE SubSeq(s, i, Len(s))
trim(s) == Reverse(trimStart(Reverse(trimStart(s))))
toLowerCase(s) == [i \in DOMAIN s |-> IF s[i] \in {Upper, Kelvin} THEN Letter ELSE s[i]]
normalizeLabel(s) == toLowerCase(trim(s))

Hyphenated(s) == Head(s) = "-" \/ Last(s) = "-"

\* Positions are those of JavaScript's strings in the client, bytes on chain.
Units(s) == FlattenSeq([i \in DOMAIN s |-> IF s[i] = Pair THEN <<"hi", "lo">> ELSE <<s[i]>>])
DoubleHyphen(s) == Len(s) >= 4 /\ s[3] = "-" /\ s[4] = "-"

validName(s) ==
    s # <<>> /\ Over(s, {Letter, "-", "_"}) /\ ~Hyphenated(s) /\ ~DoubleHyphen(s)

validateLabel(s) ==
    /\ s # <<>> /\ ~Hyphenated(s) /\ ~DoubleHyphen(Units(s))
    /\ Over(s, {Letter, "-", "_", Kelvin, Wide, Pair})

isValidLabel(s) == s # <<>> /\ Over(s, {Letter, "-"}) /\ ~Hyphenated(s)

------------------------------------------------------------------------------
(* A full name, as the resolve page and the API read it.                     *)

Unreadable == [label |-> <<>>, tld |-> "none"]
Dotted == Len(suffix) = 1 /\ suffix[1] \in SUPPORTED_TLDS

\* The whole text is trimmed: its label at the front only.
parseResolveQuery ==
    LET label == toLowerCase(trimStart(text)) IN
    IF Dotted /\ isValidLabel(label) THEN [label |-> label, tld |-> suffix[1]] ELSE Unreadable

parseName ==
    LET label == normalizeLabel(text) IN
    IF Dotted /\ validateLabel(label) THEN [label |-> label, tld |-> suffix[1]] ELSE Unreadable

------------------------------------------------------------------------------
\* Every name that the contract accepts is searched, resolved and served as itself
\* (the resolve page refuses those with an underscore); what the search accepts and
\* the contract refuses has a character beyond ASCII; and a text that both readers
\* of full names accept is the same name to both.
NamesAgree ==
    /\ validName(text) =>
         /\ normalizeLabel(text) = text /\ validateLabel(text)
         /\ Dotted => parseName = [label |-> text, tld |-> suffix[1]]
         /\ Dotted /\ ~Has(text, {"_"}) => parseResolveQuery = parseName
    /\ validateLabel(normalizeLabel(text)) =>
         validName(normalizeLabel(text)) \/ Has(text, {Wide, Pair})
    /\ Unreadable \in {parseName, parseResolveQuery} \/ parseName = parseResolveQuery

\* Names with an underscore can be registered, and "ArcNS-native tooling handles
\* them correctly" (ArcNSController.sol): the resolve page reads every name that
\* the contract accepts.  (It does not: isValidLabel of lib/domain.ts has no
\* underscore.)
UnderscoreHandled == validName(text) /\ Dotted => parseResolveQuery # Unreadable
================================================================================
