----------------------------- MODULE MCFactPipeline -----------------------------
(* A small catalogue: the base reference B completes to X or to Y; three      *)
(* features of X are extracted from a one-page document that the store has    *)
(* parsed in three ways; two of the features are mapped to one label.         *)
EXTENDS FactPipeline, TLC

CONSTANTS B, X, Y, Maker, Coil, Dc, Kw, W, Volt, Ac3, V400, Screw, Power, Rating, Text

MCReferences == {B, X}
MCSelection == Coil :> Dc

ExactFact(mpn) == [type |-> "exact", brand |-> Maker, mpn |-> mpn]
Mapping(made) ==
    [type |-> "mapping", brand |-> Maker, base |-> B, key |-> Coil, choice |-> Dc,
     makes |-> made]

MCFacts ==
    {ExactFact(X), ExactFact(Y), Mapping(X), Mapping(Y),
     [type |-> "completion", brand |-> Maker, base |-> B, key |-> Coil]}

MCDimensionOf == (Kw :> "power") @@ (W :> "power") @@ (Volt :> "voltage")
MCWants == (Ac3 :> {}) @@ (V400 :> {Quantity("EQ", 400, Volt)})

Numeric(magnitude, unit) == [kind |-> "numeric", magnitude |-> magnitude, unit |-> unit]
Worded(text) == [kind |-> "alphanumeric", text |-> text]

Proposed(value, conditions, fragment, page) ==
    [value |-> value, conditions |-> conditions, fragment |-> fragment, page |-> page]

\* Feature 2 precedes feature 1 in the schema and follows it in the alphabet.
MCSchema == <<2, 1, 3>>

MCProposals ==
    [k \in 1..3 |->
        CASE k = 1 -> {Proposed(Numeric(7500, Kw), {Ac3, V400}, Power, 1),
                       Proposed(Numeric(5500, Kw), {Ac3, V400}, Rating, 1)}
          [] k = 2 -> {Proposed(Numeric(7500, W), {Ac3, V400}, Power, 1),
                       Proposed(Numeric(7500, W), {Ac3}, Power, 1)}
          [] k = 3 -> {Proposed(Worded(Screw), {}, Text, 1),
                       Proposed(Worded(Screw), {}, Text, 2)}]

Line(fragments, states, phrases) ==
    [reads |-> fragments, folds |-> fragments, states |-> states, phrases |-> phrases]

Rated(power, relation) == {Quantity("EQ", power, Kw), Quantity(relation, 400, Volt)}

Line75 == Line({Power}, Rated(7500, "EQ"), {Ac3})
Line75Upto == Line({Power}, Rated(7500, "LE"), {Ac3})
Line55 == Line({Rating}, Rated(5500, "EQ"), {Ac3})
Line55Upto == Line({Rating}, Rated(5500, "LE"), {Ac3})
PoorLine == Line({Power}, Rated(7500, "LE"), {})
PoorText == Line({Text}, {}, {})
LineText == Line({Text}, {}, {Screw})

Datasheet(page) ==
    [scope |-> "EXACT_SKU", covers |-> X, pages |-> <<page>>, tables |-> << << >> >>]

Catalogue(page, rows) ==
    [scope |-> "RANGE", covers |-> NoMpn, pages |-> <<page>>, tables |-> <<rows>>]

Row(mpn, line) == [mpn |-> mpn, line |-> line]

MCParses ==
    {Datasheet(<<Line75, LineText, Line55, Line55Upto>>),
     Catalogue(<<Line75, Line55, LineText>>, <<Row(Y, Line75), Row(X, Line75Upto), Row(X, Line55)>>),
     Datasheet(<<PoorLine, PoorText>>)}

Rule(label, priority, uom, policy, required) ==
    [label |-> label, priority |-> priority, uom |-> uom, kind |-> AnyKind,
     policy |-> policy, required |-> required]

\* Both ratings converge on label 2, the text is on label 1 at the same priority.
Converging ==
    (1 :> Rule(2, 5, Kw, "PRESERVE_AS_METADATA", {})) @@
    (2 :> Rule(2, 4, Kw, "PRESERVE_AS_METADATA", {})) @@
    (3 :> Rule(1, 5, AnyUnit, "REJECT_IF_CONDITIONED", {}))

\* Two labels, one of which names its operating point.
Separate ==
    (1 :> Rule(2, 5, W, "TARGET_ENCODES_CONDITIONS", {Ac3, V400})) @@
    (3 :> Rule(3, 5, AnyUnit, "REJECT_IF_CONDITIONED", {})) @@
    (2 :> Rule(1, 5, Kw, "TARGET_ENCODES_CONDITIONS", {Ac3}))

\* One label that cannot take the unit of its key, and a key without a label.
Narrow ==
    (1 :> Rule(1, 5, Volt, "PRESERVE_AS_METADATA", {})) @@
    (3 :> Rule(1, 4, AnyUnit, "REJECT_IF_CONDITIONED", {}))

Calls(registry, gated, tabled, handed) ==
    [registry |-> registry, gated |-> gated, tabled |-> tabled, handed |-> handed]

\* The scripts' way, and the ways the functions allow.
MCCallers ==
    {Calls(Separate, FALSE, FALSE, TRUE), Calls(Converging, TRUE, TRUE, FALSE),
     Calls(Narrow, TRUE, FALSE, TRUE)}

\* The bound on the search: a run ends with its row, for nothing reads the
\* world after that.
UntilTheRow ==
    \/ row = Unwritten /\ Gather
    \/ row = Unwritten /\ Resolve
    \/ row = Unwritten /\ Reingest
    \/ Extract \/ Load \/ Verify \/ Assemble

MCSpec == Init /\ [][UntilTheRow]_vars

\* A rating of more digits than a cell shows.
MCLongProposals ==
    [k \in 1..3 |->
        IF k = 1 THEN {Proposed(Numeric(1234567, W), {}, Power, 1), None} ELSE {None}]

MCLongParses ==
    {Datasheet(<<Line({Power}, {Quantity("EQ", 1234567, W)}, {})>>)}

MCPlainCallers ==
    {Calls(1 :> Rule(1, 1, AnyUnit, "REJECT_IF_CONDITIONED", {}), FALSE, FALSE, TRUE)}
==============================================================================
