--------------------------- MODULE UnilogNormalization ---------------------------
(* One row of the organizer's input, and the names its maker and brand go by  *)
(* (unilog/placeholders.py, manufacturer.py, input.py, normalization.py).     *)
(*                                                                            *)
(* A spelling is [core, suffix, punct, case, space]: the words that remain    *)
(* when everything is folded away, the legal suffix, and what punctuation,    *)
(* letter case and white space are.  A raw value is a spelling, or None,      *)
(* Sentinel or Hyphen; that of Part_Manuf is [name, code, parens].  A rule is *)
(* [names, authority], its canonical value first.                             *)
EXTENDS Common, Integers, FiniteSets, SequencesExt

CONSTANTS Sentinel, Hyphen, Plain       \* Plain: nothing there to fold

RequiredColumns ==
    {"Mfg_Part_Num", "Part_Desc", "E1_Brand", "Unilog_Brand", "DIB_Brand", "Part_Manuf"}
BrandColumns == <<"E1_Brand", "Unilog_Brand", "DIB_Brand">>

\* --- a row --------------------------------------------------------------------

IsPlaceholder(field, value) ==
    value = Sentinel \/ (value = Hyphen /\ field = "Part_Manuf")

Clean(field, value) == IF IsPlaceholder(field, value) THEN None ELSE value

Cleaned(row, field) == Clean(field, row.raw[field])

BrandSignals(row) ==
    SelectSeq([n \in 1 .. 3 |-> Cleaned(row, BrandColumns[n])], LAMBDA v : v # None)

\* Columns go by name, and a repeated name by none.
IsInputHeader(header) == IsInjective(header) /\ RequiredColumns \subseteq ToSet(header)

\* A blank line is no row, but it counts.
RowAt(header, line, number) ==
    [number |-> number,
     raw |-> [c \in ToSet(header) |-> line[CHOOSE n \in DOMAIN header : header[n] = c]]]

IsMalformed(header, line) == line # << >> /\ Len(line) # Len(header)

\* --- Part_Manuf ---------------------------------------------------------------

Parse(status, name, code) == [status |-> status, name |-> name, code |-> code]

\* Torn parentheses, an empty code and a code without a name are not salvaged.
ParsePartManuf(value) ==
    CASE value = None -> Parse("MISSING", None, None)
      [] IsPlaceholder("Part_Manuf", value) -> Parse("PLACEHOLDER", None, None)
      [] OTHER ->
            CASE value.parens = "torn" -> Parse("UNRESOLVED", None, None)
              [] value.parens = "trailing" ->
                    IF None \in {value.name, value.code} THEN Parse("UNRESOLVED", None, None)
                    ELSE Parse("NAME_WITH_CODE", value.name, value.code)
              [] OTHER -> Parse("NAME_ONLY", value.name, None)

\* --- folding ------------------------------------------------------------------

Trimmed(s) == [s EXCEPT !.space = Plain]
CaseKey(s) == [Trimmed(s) EXCEPT !.case = Plain]
PunctuationKey(s) == [CaseKey(s) EXCEPT !.punct = Plain]

\* A name that is all legal suffix keeps it.
ManufacturerKey(s) ==
    IF s.core = None THEN PunctuationKey(s) ELSE [PunctuationKey(s) EXCEPT !.suffix = Plain]

BrandStages ==
    <<"EXACT_CANONICAL", "WHITESPACE_NORMALIZED", "CASE_NORMALIZED", "PUNCTUATION_NORMALIZED">>

\* Only a maker's name has a legal suffix.
ManufacturerStages == Append(BrandStages, "LEGAL_SUFFIX_NORMALIZED")

Fold(stage, s) ==
    CASE stage = "EXACT_CANONICAL" -> s
      [] stage = "WHITESPACE_NORMALIZED" -> Trimmed(s)
      [] stage = "CASE_NORMALIZED" -> CaseKey(s)
      [] stage = "PUNCTUATION_NORMALIZED" -> PunctuationKey(s)
      [] stage = "LEGAL_SUFFIX_NORMALIZED" -> ManufacturerKey(s)

\* --- the catalog --------------------------------------------------------------

PermitsDelivery(authority) ==
    authority \in {"DATASET_CONSENSUS", "EVIDENCE_SUPPORTED", "HUMAN_APPROVED"}

IsRule(rule) == rule.authority \notin {"SOURCE_EXACT", "UNRESOLVED"}

NamesMatching(rule, stage, value) ==
    {n \in DOMAIN rule.names : Fold(stage, rule.names[n]) = Fold(stage, value)}

Matching(rules, stage, value) ==
    {n \in DOMAIN rules : NamesMatching(rules[n], stage, value) # {}}

Ambiguous == [rule |-> None, reason |-> "AMBIGUOUS_ALIAS"]

\* Mutant: the last rule that matches wins.
LastMatch(rules, matches, stage, value) ==
    [rule |-> rules[CHOOSE n \in matches : \A m \in matches : m <= n], reason |-> stage]

\* Rules that agree on the canonical value count as one, the last of them.
FinishMatches(rules, matches, stage, value) ==
    LET last == CHOOSE n \in matches : \A m \in matches : m <= n
        alias == 1 \notin NamesMatching(rules[last], stage, value)
    IN  IF \E n, m \in matches : rules[n].names[1] # rules[m].names[1] THEN Ambiguous
        ELSE [rule |-> rules[last],
              reason |-> IF stage = "EXACT_CANONICAL" /\ alias THEN "EXACT_ALIAS" ELSE stage]

\* The first stage that matches anything decides.
Match(rules, value, stages) ==
    LET hits == {n \in DOMAIN stages : Matching(rules, stages[n], value) # {}}
        first == CHOOSE n \in hits : \A m \in hits : n <= m
    IN  IF hits = {} THEN [rule |-> None, reason |-> None]
        ELSE FinishMatches(rules, Matching(rules, stages[first], value), stages[first], value)

\* --- manufacturer and brand ---------------------------------------------------

Name(proposal, decision, reason, authority) ==
    [proposal |-> proposal, decision |-> decision, reason |-> reason,
     authority |-> authority]

Withheld(reason) == Name(None, "WITHHOLD", reason, "UNRESOLVED")
Reviewed(reason) == Name(None, "REVIEW", reason, "UNRESOLVED")

ByRule(match) ==
    Name(match.rule.names[1],
         IF PermitsDelivery(match.rule.authority) THEN "COMMIT" ELSE "REVIEW",
         match.reason, match.rule.authority)

NormalizeManufacturer(rules, row) ==
    LET parsed == ParsePartManuf(row.raw["Part_Manuf"])
        match == Match(rules, parsed.name, ManufacturerStages)
    IN  CASE parsed.status = "PLACEHOLDER" -> Withheld("PLACEHOLDER")
          [] parsed.status = "MISSING" -> Withheld("MISSING_VALUE")
          [] parsed.status = "UNRESOLVED" -> Withheld("AMBIGUOUS_MANUFACTURER")
          [] OTHER ->
                IF match.reason = "AMBIGUOUS_ALIAS" THEN Reviewed("AMBIGUOUS_ALIAS")
                ELSE IF match.rule # None THEN ByRule(match)
                ELSE Name(parsed.name, "REVIEW", "UNKNOWN_MANUFACTURER", "SOURCE_EXACT")

\* Two brand columns that agree need no rule, and no rule is asked.
NormalizeBrand(rules, row) ==
    LET usable == BrandSignals(row)
        keys == {PunctuationKey(v) : v \in ToSet(usable)}
        match == Match(rules, usable[1], BrandStages)
    IN  IF usable = << >>
        THEN Withheld(IF \E c \in ToSet(BrandColumns) : IsPlaceholder(c, row.raw[c])
                      THEN "PLACEHOLDER" ELSE "MISSING_VALUE")
        ELSE IF Cardinality(keys) > 1 THEN Reviewed("CONFLICTING_BRAND_SOURCES")
        ELSE IF Len(usable) > 1
             THEN Name(usable[1], "COMMIT", "BRAND_SOURCE_CONSENSUS", "DATASET_CONSENSUS")
        ELSE IF match.reason = "AMBIGUOUS_ALIAS" THEN Reviewed("AMBIGUOUS_ALIAS")
        ELSE IF match.rule # None THEN ByRule(match)
        ELSE Name(usable[1], "REVIEW", "SINGLE_BRAND_SOURCE", "SOURCE_EXACT")

Normalize(catalog, row) ==
    [number |-> row.number,
     manufacturer |-> NormalizeManufacturer(catalog, row),
     brand |-> NormalizeBrand(<< >>, row)]

NameForDelivery(name) ==
    IF name.decision = "COMMIT" /\ PermitsDelivery(name.authority) THEN name.proposal ELSE None

\* The reviewed entries of the registry, by their authority hints, each at its
\* place in the registry.
ReviewedManufacturerCatalog(registry) ==
    LET usable == {n \in DOMAIN registry : registry[n].approved /\ registry[n].hints # << >>}
    IN  [n \in usable |-> [names |-> registry[n].hints, authority |-> "HUMAN_APPROVED"]]
=================================================================================
