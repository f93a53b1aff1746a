------------------------------- MODULE Intake -------------------------------
(***************************************************************************)
(* Layer 1 as operators: the noise rules, what the classifier's reply may  *)
(* drop, the linking of quotes to the content, and the candidates made of  *)
(* the canonical draw.                                                     *)
(*                                                                         *)
(* A text is its normalised words and a spelling (case, punctuation); the  *)
(* word lists are the source's, cut to the vocabulary the model speaks.    *)
(* How alike two texts are is rapidfuzz's business: NearPairs.             *)
(***************************************************************************)
EXTENDS Integers, SequencesExt

CONSTANTS
    Texts,        \* [words : Seq(STRING), spelling : Nat]
    NearPairs,    \* pairs {a, b} of word sequences rapidfuzz finds alike
    Overlong,     \* texts whose fuzzy span exceeds Provenance's 2000 characters
    TurnIds,      \* ids a caller gives to turns
    NoReason      \* no drop class, no reason

ASSUME IntakeAssumption ==
    /\ Overlong \subseteq Texts
    /\ \A t \in Texts : t.words \in Seq(STRING)

Filler        == {"hello", "thanks", "please", "it"}
AgentVerbs    == {"repeat", "list"}
Meta          == {"please", "it", "all", "that"}
ImperativePrefixes == {<<"can", "you">>, <<"please">>}
Counterfactual == {"would", "might"}
Relations     == {"sister", "boss"}
Hypothetical  == {"suppose", "imagine"}

MaxFillerTokens == 6
ShortTurnTokens == 6

\* normalise: case and punctuation go, the words stay.
Normalise(text) == text.words

IsEphemeral(words) ==
    /\ words # <<>> /\ Len(words) <= MaxFillerTokens
    /\ ToSet(words) \subseteq Filler

\* History holds every earlier turn, the dropped ones too.
IsRestatement(words, history) == words # <<>> /\ words \in history

StripImperativePrefix(words) ==
    IF \E p \in ImperativePrefixes : IsPrefix(p, words)
    THEN LET p == CHOOSE q \in ImperativePrefixes : IsPrefix(q, words)
         IN SubSeq(words, Len(p) + 1, Len(words))
    ELSE words

HeadsAnAgentVerb(words) ==
    LET body == StripImperativePrefix(words)
    IN body # <<>> /\ Head(body) \in AgentVerbs

IsImperative(words) ==
    /\ HeadsAnAgentVerb(words)
    /\ ToSet(Tail(StripImperativePrefix(words))) \subseteq Meta

IsHypothetical(words) ==
    \/ ToSet(words) \cap Hypothetical # {}
    \/ "if" \in ToSet(words) /\ ToSet(words) \cap Counterfactual # {}

\* The first class that fits; NoReason keeps the turn.
RuleVerdict(words, history) ==
    IF IsEphemeral(words) THEN "ephemeral"
    ELSE IF IsRestatement(words, history) THEN "restatement"
    ELSE IF IsImperative(words) THEN "imperative"
    ELSE IF IsHypothetical(words) THEN "hypothetical"
    ELSE NoReason

Near(a, b) == a = b \/ {a, b} \in NearPairs

IsAmbiguous(words, history) ==
    /\ words # <<>>
    /\ \/ ToSet(words) \cap Relations # {}
       \/ "if" \in ToSet(words)
       \/ HeadsAnAgentVerb(words)
       \/ Len(words) <= ShortTurnTokens
       \/ \E earlier \in history : Near(words, earlier)

WordsAt(turns, i) == Normalise(turns[i].text)

\* TurnHistory as the i-th turn finds it.
History(turns, i) == {WordsAt(turns, j) : j \in 1..(i - 1)}

RuleDrops(turns) ==
    {i \in DOMAIN turns : RuleVerdict(WordsAt(turns, i), History(turns, i)) # NoReason}

RuleKept(turns) == DOMAIN turns \ RuleDrops(turns)

\* The turns sent to the classifier, in one call.
Ambiguous(turns) ==
    {i \in DOMAIN turns \ RuleDrops(turns) :
        IsAmbiguous(WordsAt(turns, i), History(turns, i))}

\* A reply: does it repeat the canary, does it parse, which verdicts are in it.
Verdicts == [id : TurnIds, drop : BOOLEAN, reason : {NoReason, "third_party"}]

\* Ids that fall: sent, named once, dropped, with a reason.
ConfidentDrops(reply, sent) ==
    IF ~reply.parses THEN {}
    ELSE {id \in sent :
            \E i \in DOMAIN reply.verdicts :
                /\ reply.verdicts[i].id = id
                /\ reply.verdicts[i].drop /\ reply.verdicts[i].reason # NoReason
                /\ \A j \in DOMAIN reply.verdicts \ {i} : reply.verdicts[j].id # id}

\* _apply goes by id: of two turns of one id both fall.
Survivors(turns, kept, drops) == {i \in kept : turns[i].id \notin drops}

\* Faulty: the content is rendered from the proposal's turns.
AllContent(turns, kept) == {turns[i].text : i \in DOMAIN turns}

\* render_content: the texts a quote can be found in.
Content(turns, kept) == {turns[i].text : i \in kept}

Exact == 100
Fuzzy == 95

\* link_span: alignment of the quote, 0 when the content does not hold it.
Alignment(quote, content) ==
    IF Normalise(quote) = <<>> THEN 0
    ELSE IF quote \in content THEN Exact
    ELSE IF \E t \in content : Near(Normalise(quote), Normalise(t)) THEN Fuzzy
    ELSE 0

Linked(facts, content) == {i \in DOMAIN facts : Alignment(facts[i].quote, content) > 0}

\* The snapped text is too long for Provenance: constructing it raises.
Unciteable(facts, content) ==
    \E i \in DOMAIN facts : /\ Alignment(facts[i].quote, content) = Fuzzy
                            /\ facts[i].quote \in Overlong

\* Those that could be linked; a candidate is known by the place of its fact in
\* the draw.
ToCandidates(facts, content) ==
    [i \in Linked(facts, content) |->
        [subject   |-> facts[i].subject,
         predicate |-> facts[i].predicate,
         object    |-> facts[i].object,
         quote     |-> facts[i].quote,
         alignment |-> Alignment(facts[i].quote, content),
         from |-> 0, to |-> 0]]    \* extraction dates nothing

Unsourced(facts, content) == Len(facts) - Cardinality(Linked(facts, content))
=============================================================================
