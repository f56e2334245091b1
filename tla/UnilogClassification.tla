-------------------------- MODULE UnilogClassification --------------------------
(* What family a row's description names, and which organizer example's       *)
(* taxonomy it may repeat (unilog/classification.py).                         *)
(*                                                                            *)
(* Descriptions and part numbers are sequences of tokens, Tokens being what   *)
(* the tokenizer makes of a raw value.  A rule is [family, patterns]; a       *)
(* pattern is a set of phrases, all of which must occur.  An example is       *)
(* [input, values]: the six columns of the input, and the delivery's columns. *)
EXTENDS UnilogNormalization

CONSTANTS
    TokensOf,           \* a raw value to its tokens
    FamilyRules,        \* the lexical rules, in order
    Unknown,            \* the family of what has no family
    Precedence,         \* pairs of a specific family and the general one it excludes
    InsufficientTokens  \* so few tokens beside the part number say nothing

ASSUME FamilyRulesNameAFamily ==
    \A n \in DOMAIN FamilyRules :
        FamilyRules[n].family # Unknown /\ FamilyRules[n].patterns # {}

ClassificationFields == {"Dept", "Class", "Fine", "Classpath", "UNSPSC"}

Tokenize(value) == IF value = None THEN << >> ELSE TokensOf[value]

ContainsPhrase(tokens, phrase) ==
    phrase # << >> /\ \E n \in 0 .. Len(tokens) - Len(phrase) :
                          SubSeq(tokens, n + 1, n + Len(phrase)) = phrase

Matches(tokens, pattern) == \A phrase \in pattern : ContainsPhrase(tokens, phrase)

FamiliesOf(tokens) ==
    {FamilyRules[n].family : n \in {m \in DOMAIN FamilyRules :
        \E pattern \in FamilyRules[m].patterns : Matches(tokens, pattern)}}

ApplySpecificity(families) ==
    families \ {p[2] : p \in {q \in Precedence : {q[1], q[2]} \subseteq families}}

WithoutMpnPrefix(description, mpn) ==
    IF mpn # << >> /\ IsPrefix(mpn, description)
    THEN SubSeq(description, Len(mpn) + 1, Len(description)) ELSE description

Family(family, candidates, decision, reason) ==
    [family |-> family, candidates |-> candidates, decision |-> decision, reason |-> reason]

\* Maker and brand are context, never a cue.
InternalFamily(row) ==
    LET tokens == Tokenize(Cleaned(row, "Part_Desc"))
        content == WithoutMpnPrefix(tokens, Tokenize(Cleaned(row, "Mfg_Part_Num")))
        found == FamiliesOf(tokens)
        families == ApplySpecificity(found)
    IN  CASE IsPlaceholder("Part_Desc", row.raw["Part_Desc"]) ->
                Family(Unknown, {}, "WITHHOLD", "PLACEHOLDER_DESCRIPTION")
          [] ~IsPlaceholder("Part_Desc", row.raw["Part_Desc"]) /\ Cardinality(families) = 1 ->
                Family(CHOOSE f \in families : TRUE, families, "COMMIT",
                       IF families # found THEN "SPECIFIC_FAMILY_PRECEDENCE"
                       ELSE "STRONG_LEXICAL_CUE")
          [] OTHER ->
                IF families # {}
                THEN Family(Unknown, families, "REVIEW", "OVERLAPPING_FAMILY_CUES")
                ELSE Family(Unknown, {}, "WITHHOLD",
                            IF Len(content) <= InsufficientTokens
                            THEN "INSUFFICIENT_DESCRIPTION" ELSE "NO_FAMILY_CUE")

\* --- the organizer's taxonomy -------------------------------------------------

\* All six columns, as they are spelt.
ExampleMatches(example, row) ==
    \A field \in RequiredColumns : row.raw[field] = example.input[field]

Matched(examples, row) == {n \in DOMAIN examples : ExampleMatches(examples[n], row)}

\* An example is authority for one record: two for one row are an error.
IsClassifiable(examples, row) == Cardinality(Matched(examples, row)) <= 1

\* Only what an example fills is delivered.
DeliveryClassification(examples, row) ==
    IF Matched(examples, row) = {} THEN << >>
    ELSE LET example == examples[CHOOSE n \in Matched(examples, row) : TRUE]
             filled == {f \in ClassificationFields : example.values[f] # None}
         IN  [f \in filled |-> example.values[f]]

Context(normalization, row) ==
    [manufacturer |-> normalization.manufacturer.proposal,
     brands |-> ToSet(BrandSignals(row)) \cup ({normalization.brand.proposal} \ {None})]

Classify(examples, row, normalization) ==
    [number |-> row.number, family |-> InternalFamily(row),
     context |-> Context(normalization, row),
     values |-> DeliveryClassification(examples, row)]
=================================================================================
