----------------------------- MODULE HtmlAttributes -----------------------------
(* What a model may propose about a stored page, which of it is bound to the  *)
(* page, and which of that the page states (extraction/                       *)
(* html_attribute_service.py, verification/html_attributes.py).               *)
(*                                                                            *)
(* A product node carries its additionalProperty list as a sequence of        *)
(* entries [complete, name, owner, value, units]: whether it is a whole       *)
(* PropertyValue, its name, the part number its propertyID names, its value   *)
(* and the spellings in unitText and unitCode.  A locator names a text        *)
(* fragment by its offsets, or a field of a property of a node.               *)
EXTENDS HtmlIdentity, AttributeValues

CONSTANTS
    Profile,        \* the attributes asked for, in order
    KindOf,         \* the kind each of them has
    FinishKey,      \* the one that must name its variant
    FinishName,     \* the property name of a finish
    Rules,          \* attribute -> [names, own, labels] of the verification profile
    Holds,          \* pairs of words of which the first has the second inside,
    EndsWith,       \* at its end,
    StartsWith,     \* at its start
    Relevant,       \* the words that make a text worth sending
    Window,         \* how many of its neighbours are sent with it
    MaxSelected, MaxPayload

ASSUME HtmlProfileAssumption ==
    /\ ToSet(Profile) \subseteq DOMAIN KindOf
    /\ \A key \in DOMAIN KindOf : KindOf[key] \in Kinds
    /\ {Window, MaxSelected, MaxPayload} \subseteq Nat

\* A block is a JSON document, so it is finite, and a unit is a spelling.
ASSUME StructureAssumption ==
    \A block \in {JsonLd[text] : text \in DOMAIN JsonLd} :
        /\ IsFiniteSet(DOMAIN block)
        /\ \A at \in DOMAIN block :
              LET properties == block[at].properties
              IN  /\ IsFiniteSet(block[at].mpn)
                  /\ properties \in Seq(ToSet(properties))
                  /\ \A n \in DOMAIN properties :
                        /\ properties[n].units \in Seq(ToSet(properties[n].units))
                        /\ None \notin ToSet(properties[n].units)

TextAt(start, stop) == [kind |-> "text", start |-> start, stop |-> stop]
FieldAt(block, at, property, field) ==
    [kind |-> "jsonld", block |-> block, at |-> at, property |-> property, field |-> field]

\* --- what a locator finds -----------------------------------------------------

FragmentsAt(page, locator) ==
    {page.content.fragments[n] :
        n \in {m \in DOMAIN page.content.fragments :
                  /\ page.content.fragments[m].start = locator.start
                  /\ page.content.fragments[m].stop = locator.stop}}

\* The pointer resolves, key by key and index by index.
Resolves(page, locator) ==
    /\ locator.block \in Parsed(page)
    /\ locator.at \in DOMAIN page.content.blocks[locator.block]
    /\ locator.property \in DOMAIN page.content.blocks[locator.block][locator.at].properties

Entry(page, locator) ==
    page.content.blocks[locator.block][locator.at].properties[locator.property]

\* The text the page has where the locator points, None where it has none.
BoundText(page, locator) ==
    IF locator.kind = "text"
    THEN IF FragmentsAt(page, locator) = {} THEN None
         ELSE (CHOOSE f \in FragmentsAt(page, locator) : TRUE).text
    ELSE IF ~Resolves(page, locator) THEN None
         ELSE IF locator.field = "value" THEN Entry(page, locator).value
              ELSE <<Entry(page, locator).name>>

\* --- extraction: what is sent to a model --------------------------------------

\* The first of the equal texts that hold a relevant word.
Matched(fragments) ==
    {n \in DOMAIN fragments :
        /\ ToSet(fragments[n].text) \cap Relevant # {}
        /\ \A m \in 1 .. n - 1 : fragments[m].text # fragments[n].text}

SelectedFragments(fragments) ==
    {n \in DOMAIN fragments : \E m \in Matched(fragments) : n \in m - Window .. m + Window}

\* The properties of the products at the roots of the blocks, by the bare type
\* name: fewer than the products the identity may rest on.
SelectedEntries(page) ==
    UNION {UNION {{[block |-> b, at |-> at, property |-> n] :
                      n \in DOMAIN page.content.blocks[b][at].properties} :
                     at \in {a \in DirectProducts(page.content.blocks[b], << >>) :
                                page.content.blocks[b][a].bare}} :
              b \in Parsed(page)}

\* The payload is sent whole or not at all.
PayloadFits(page) ==
    LET selected == Cardinality(SelectedFragments(page.content.fragments))
    IN  /\ selected <= MaxSelected
        /\ selected + Cardinality(SelectedEntries(page)) <= MaxPayload

\* --- extraction: from a proposal to a bound candidate -------------------------

\* Characters are compared: what is copied may begin and end inside a longer word.
IsCut(word, part, first, last) ==
    \/ word = part
    \/ <<word, part>> \in CASE first /\ last -> Holds
                            [] first /\ ~last -> EndsWith
                            [] last /\ ~first -> StartsWith
                            [] ~first /\ ~last -> {}

CopiedFrom(text, words) ==
    \E from \in 1 .. Len(text) - Len(words) + 1 :
        \A n \in DOMAIN words : IsCut(text[from + n - 1], words[n], n = 1, n = Len(words))

ValueIsPresent(proposal, text) ==
    IF proposal.uom = None
    THEN IF proposal.locator.kind = "jsonld" THEN proposal.raw = text
         ELSE CopiedFrom(text, proposal.raw)
    ELSE CopiedFrom(text, Append(proposal.raw, proposal.uom))

\* A finish counts only where the structure ties it to the variant asked for.
FinishIsExactVariant(proposal, page, mpn) ==
    /\ proposal.locator.kind = "jsonld" /\ proposal.locator.field = "value"
    /\ Resolves(page, proposal.locator)
    /\ Entry(page, proposal.locator).name = FinishName
    /\ mpn # None /\ Entry(page, proposal.locator).owner = mpn

\* Why a proposal is not bound to the page, None if it is.
Rejection(proposal, page, mpn) ==
    LET text == IF proposal.locator = None THEN None ELSE BoundText(page, proposal.locator)
    IN  IF proposal.kind # KindOf[proposal.key] THEN "VALUE_KIND_MISMATCH"
        ELSE IF proposal.locator = None THEN "MISSING_LOCATOR"
        ELSE IF text = None THEN "LOCATOR_INVALID"
        ELSE IF proposal.excerpt # text \/ ~ValueIsPresent(proposal, text)
             THEN "SOURCE_MISMATCH"
        ELSE IF /\ proposal.key = FinishKey
                /\ ~FinishIsExactVariant(proposal, page, mpn)
             THEN "SOURCE_MISMATCH"
        ELSE IF ParseValue(proposal.kind, proposal.raw, proposal.uom) = None
             THEN "INVALID_VALUE"
        ELSE None

ASSUME NoneIsNoReason ==
    None \notin {"VALUE_KIND_MISMATCH", "MISSING_LOCATOR", "LOCATOR_INVALID",
                 "SOURCE_MISMATCH", "INVALID_VALUE"}

Candidate(proposal) ==
    [key |-> proposal.key, locator |-> proposal.locator, excerpt |-> proposal.excerpt,
     value |-> ParseValue(proposal.kind, proposal.raw, proposal.uom)]

ProposalsFor(answer, key) == {n \in DOMAIN answer : answer[n].key = key}

\* Two proposals for one attribute are both refused.
BoundCandidates(answer, page, mpn) ==
    {Candidate(answer[n]) :
        n \in {m \in DOMAIN answer :
                  /\ answer[m].key \in ToSet(Profile)
                  /\ ProposalsFor(answer, answer[m].key) = {m}
                  /\ Rejection(answer[m], page, mpn) = None}}

\* The gate before anything is sent to a model.
IdentityIsExact(identity) ==
    /\ identity.decision = "EXACT"
    /\ identity.target # Invalid /\ identity.covers = identity.target

MayExtract(identity, page) == IdentityIsExact(identity) /\ identity.sha = page.sha

\* --- verification: what the cited structure states ----------------------------

Verdict(status, reason) == [status |-> status, reason |-> reason]
Unverified(reason) == Verdict("UNVERIFIED", reason)
FactVerified == Verdict("VERIFIED", "FACT_VERIFIED")

\* Mutant: any product of the page will do.
InAnyProduct(identity, locator) == locator.field = "value"

\* A value of a property of a product that the identity found to be primary.
InPrimaryProduct(identity, locator) ==
    /\ locator.field = "value"
    /\ [block |-> locator.block, at |-> locator.at] \in identity.primary

EntryMatchesRule(entry, rule, target) ==
    entry.name \in rule.names /\ (rule.own => entry.owner = target)

\* Mutant: only the cited entry is looked at.
ValueOfEntry(page, locator, rule, target) == {Entry(page, locator).value}

\* Every value and unit the product gives under the rule's names.
ValuesUnderRule(page, locator, rule, target) ==
    LET properties == Node(page, locator).properties
    IN  {<<properties[n].value, properties[n].units>> :
            n \in {m \in DOMAIN properties :
                      EntryMatchesRule(properties[m], rule, target) /\ properties[m].value # None}}

\* The source states the candidate's value, in its unit and no other.
States(value, source, unit) ==
    LET parsed == ParseValue(value.kind, source, unit)
    IN  parsed # None /\ SemanticKey(parsed) = SemanticKey(value)

CombinedValue(value, source) == source = Append(value.raw, value.rawUom)

StructuredVerdict(value, entry) ==
    LET unit == IF entry.units = << >> THEN None ELSE entry.units[1]
    IN  IF unit # None /\ value.rawUom # unit THEN Unverified("UOM_NOT_SUPPORTED")
        ELSE IF unit = None /\ value.rawUom # None /\ ~CombinedValue(value, entry.value)
             THEN Unverified("UOM_NOT_SUPPORTED")
        ELSE IF States(value,
                       IF unit = None /\ value.rawUom # None THEN value.raw ELSE entry.value,
                       value.rawUom)
             THEN FactVerified ELSE Unverified("VALUE_NOT_SUPPORTED")

VerifyJsonLd(candidate, page, identity, rule) ==
    LET locator == candidate.locator
        entry == Entry(page, locator)
    IN  IF locator.block \notin Parsed(page) THEN Unverified("LOCATOR_INVALID")
        ELSE IF ~InPrimaryProduct(identity, locator) THEN Unverified("OUTSIDE_TARGET_PRODUCT")
        ELSE IF ~Resolves(page, locator) THEN Unverified("LOCATOR_INVALID")
        ELSE IF ~entry.complete THEN Unverified("MALFORMED_STRUCTURED_PROPERTY")
        ELSE IF entry.value # candidate.excerpt THEN Unverified("LOCATOR_INVALID")
        ELSE IF Cardinality(ToSet(entry.units)) > 1
             THEN Unverified("MALFORMED_STRUCTURED_PROPERTY")
        ELSE IF entry.name \notin rule.names
             THEN Unverified("SOURCE_PROPERTY_NOT_AUTHORIZED")
        ELSE IF rule.own /\ entry.owner # identity.target
             THEN Unverified("PROPERTY_ID_MISMATCH")
        ELSE IF Cardinality(ValuesUnderRule(page, locator, rule, identity.target)) > 1
             THEN Verdict("REVIEW", "CONFLICTING_PROPERTY_VALUES")
        ELSE StructuredVerdict(candidate.value, entry)

LabelsIn(text, rule) == Cardinality({n \in DOMAIN text : text[n] \in rule.labels})

\* The whole text after the label is the candidate's value, with its unit.
VerifyText(candidate, page, rule) ==
    LET text == BoundText(page, candidate.locator)
        value == candidate.value
        rest == Tail(text)
        combined == value.rawUom # None
    IN  IF text = None \/ text # candidate.excerpt THEN Unverified("LOCATOR_INVALID")
        ELSE IF LabelsIn(text, rule) > 1 THEN Unverified("AMBIGUOUS_TEXT_FRAGMENT")
        ELSE IF text[1] \notin rule.labels THEN Unverified("EXPECTED_LABEL_MISSING")
        ELSE IF combined /\ ~CombinedValue(value, rest) THEN Unverified("UOM_NOT_SUPPORTED")
        ELSE IF States(value, IF combined THEN value.raw ELSE rest, value.rawUom)
             THEN FactVerified ELSE Unverified("VALUE_NOT_SUPPORTED")

VerifyCandidate(candidate, page, identity) ==
    IF ~IdentityIsExact(identity) THEN Unverified("IDENTITY_NOT_EXACT")
    ELSE IF identity.sha # page.sha THEN Unverified("ARTIFACT_MISMATCH")
    ELSE IF page.authority # Manufacturer THEN Unverified("MANUFACTURER_AUTHORITY_REQUIRED")
    ELSE IF candidate.key \notin DOMAIN Rules THEN Unverified("UNKNOWN_SOURCE_KEY")
    ELSE IF candidate.value.kind # KindOf[candidate.key] THEN Unverified("VALUE_NOT_SUPPORTED")
    ELSE IF candidate.locator.kind = "jsonld"
         THEN VerifyJsonLd(candidate, page, identity, Rules[candidate.key])
         ELSE VerifyText(candidate, page, Rules[candidate.key])

\* What a verified candidate becomes: an internal fact, never a delivery value.
Fact(candidate, page, identity) ==
    [target |-> identity.target, sha |-> page.sha, key |-> candidate.key,
     means |-> candidate.value.means, rawUom |-> candidate.value.rawUom,
     locator |-> candidate.locator]
=================================================================================
