---------------------------- MODULE MCUnilogDelivery ----------------------------
(* Files of one or two rows, every spelling of one maker's name against every *)
(* two approvals, and up to three candidates for one part.                    *)
EXTENDS UnilogDelivery, TLC

CONSTANTS Acme, Bolt, Inc, Dots, Upper, Double

Spelt(core, suffix, punct, case, space) ==
    [core |-> core, suffix |-> suffix, punct |-> punct, case |-> case, space |-> space]
Written(core) == Spelt(core, Plain, Plain, Plain, Plain)

Maker(name, code, parens) == [name |-> name, code |-> code, parens |-> parens]

MCHeader == <<"Mfg_Part_Num", "Part_Desc", "E1_Brand", "Unilog_Brand", "DIB_Brand", "Part_Manuf">>
Line(mpn, desc, brands, maker) == <<mpn, desc, brands[1], brands[2], brands[3], maker>>

NoBrand == <<Sentinel, None, None>>
Input(lines) == [header |-> MCHeader, lines |-> lines]

Names16 ==
    {Spelt(Acme, s, p, c, w) : s \in {Plain, Inc}, p \in {Plain, Dots}, c \in {Plain, Upper},
                               w \in {Plain, Double}}

Blade == Line("P1", "P1 saw blade", <<Written(Bolt), [Written(Bolt) EXCEPT !.case = Upper], None>>,
              Maker(Written(Acme), "C", "trailing"))

NameInputs == {Input(<<Line("P9", "x", NoBrand, Maker(n, None, "plain"))>>) : n \in Names16}

FileInputs ==
    {Input(<<Blade, << >>, Line("P1", "washer", NoBrand, Maker(Written(Bolt), None, "plain"))>>),
     Input(<<Line("P2", "washer", <<Written(Bolt), Written(Acme), None>>, Hyphen), Blade>>),
     Input(<<Line(None, Sentinel, <<Written(Bolt), None, None>>, Maker(None, "C", "trailing")),
             Line("P1", None, <<None, None, None>>, None)>>),
     Input(<<Blade, <<"P2">>>>),
     [Input(<<Blade>>) EXCEPT !.header = <<"Mfg_Part_Num", "Mfg_Part_Num">>]}

MCInputs == NameInputs \cup FileInputs

Columns == [n \in 1 .. 6 |-> <<MCHeader[n]>>]
Slot(n) == <<<<"ATTRIBUTE_LABEL", n>>, <<"ATTRIBUTE_VALUE", n>>, <<"ATTRIBUTE_UOM", n>>>>

MCHeaders ==
    {Columns \o <<<<"MANUFACTURER_NAME">>, <<"BRAND_NAME">>, <<"Classpath">>>> \o Slot(1) \o Slot(2),
     <<<<"Classpath">>, <<"MANUFACTURER_NAME">>>> \o Slot(1),
     Columns \o <<<<"ATTRIBUTE_LABEL", 1>>>>}

MCTokensOf ==
    ("P1" :> <<"p1">>) @@ ("P2" :> <<"p2">>) @@ ("P9" :> <<"p9">>) @@ ("x" :> <<"x">>) @@
    ("P1 saw blade" :> <<"p1", "saw", "blade">>) @@ ("washer" :> <<"washer">>)

MCFamilyRules ==
    <<[family |-> "POWER_TOOL", patterns |-> {{<<"saw">>}}],
      [family |-> "POWER_TOOL_ACCESSORY", patterns |-> {{<<"saw", "blade">>}, {<<"bit">>}}],
      [family |-> "APPLIANCE", patterns |-> {{<<"washer">>}}],
      [family |-> "FASTENER", patterns |-> {{<<"washer">>}, {<<"nut">>, <<"m4">>}}]>>

MCExamples ==
    <<[input |-> [c \in RequiredColumns |-> Blade[CHOOSE n \in 1 .. 6 : MCHeader[n] = c]],
       values |-> [c \in ClassificationFields |-> IF c = "Classpath" THEN "Blades" ELSE None]]>>

Observed(index, label, value, uom) ==
    [index |-> index, label |-> label, value |-> value, uom |-> uom]

Example(record, slots) == [record |-> record, classpath |-> "Blades", slots |-> slots]

MCCatalogs ==
    {<<Example("P1", <<Observed(1, "Size", <<"10">>, "in"), Observed(2, "Color", None, None)>>)>>,
     <<Example("P1", <<Observed(1, "Size", <<"10">>, "inch"), Observed(2, "Color", <<"Red", "">>, None),
                         Observed(3, None, None, None)>>),
       Example("P2", <<Observed(1, "Size", None, "in"), Observed(2, "Color", None, None)>>)>>,
     <<Example("P1", <<Observed(1, "Size", <<"12">>, "ell"), Observed(2, "Color", None, None)>>),
       Example("P2", <<Observed(1, "Size", <<"10">>, "inch"), Observed(2, "Color", None, None)>>)>>}

MCReads ==
    ("TEXT" :> ((<<"10">> :> [means |-> "10", shown |-> <<"10">>, uom |-> None]) @@
                (<<"12">> :> [means |-> "12", shown |-> <<"12">>, uom |-> None]) @@
                (<<"Red">> :> [means |-> "Red", shown |-> <<"Red">>, uom |-> None]) @@
                (<<"Red", "">> :> [means |-> "Red", shown |-> <<"Red">>, uom |-> None]))) @@
    ("ENUM" :> ((<<"Red">> :> [means |-> "Red", shown |-> <<"Red">>, uom |-> None]) @@
                (<<"RED">> :> [means |-> "RED", shown |-> <<"RED">>, uom |-> None]))) @@
    ("NUMBER" :> (<<"10">> :> [means |-> "10", shown |-> <<"10">>, uom |-> None])) @@
    ("RANGE" :> << >>) @@ ("BOOLEAN" :> << >>)

MCTexts == <<<<"10">>, <<"12">>, <<"RED">>, <<"Red">>, <<"Red", "">>>>
MCUnits == <<"ell", "in", "inch">>
MCPrecedence == {<<"DISHWASHER", "APPLIANCE">>, <<"POWER_TOOL_ACCESSORY", "POWER_TOOL">>}
MCCaseFold == ("Red" :> "red") @@ ("RED" :> "red")
MCUomAliases == ("in" :> "in") @@ ("inch" :> "in")

Offered(key, label, value, decision, authority, evidence) ==
    [key |-> key, label |-> label, value |-> value, decision |-> decision,
     authority |-> authority, evidence |-> evidence]

Proven == [artifact |-> "a", locator |-> "l", verified |-> TRUE]
Color(word, decision, authority, evidence) ==
    Offered(2, "Color", ParseScalar("ENUM", <<word>>, None), decision, authority, evidence)

MCOffers ==
    {Color("Red", "COMMIT", "MANUFACTURER_EVIDENCE", {Proven}),
     Color("RED", "COMMIT", "HUMAN_APPROVED", {}),
     Color("RED", "COMMIT", "MANUFACTURER_EVIDENCE", {Proven}),
     Color("Red", "COMMIT", "MANUFACTURER_EVIDENCE", {[Proven EXCEPT !.verified = FALSE]}),
     Color("Red", "WITHHOLD", "MODEL_PROPOSAL", {}),
     Offered(2, "Colour", ParseScalar("TEXT", <<"Red">>, None), "COMMIT", "HUMAN_APPROVED", {}),
     Offered(1, "Size", ParseScalar("TEXT", <<"12">>, "in"), "REVIEW", "MODEL_PROPOSAL", {}),
     Offered(1, "Size", ParseScalar("TEXT", <<"10">>, "inch"), "COMMIT", "HUMAN_APPROVED", {})}

MCHints ==
    {<<Written(Acme)>>, <<Spelt(Acme, Inc, Plain, Upper, Plain)>>,
     <<Written(Bolt), Spelt(Acme, Plain, Dots, Plain, Plain)>>,
     <<Written(Acme), Spelt(Acme, Inc, Plain, Plain, Plain)>>}

\* The bound on the search: two approvals; a file of names is read with the first
\* schema only, offers are made for the first row of a file and before approvals;
\* and the
\* API answers for one row, before a file is opened.
Plainly == registry = << >>
MCNext ==
    \/ /\ Len(registry) < 2 /\ schema = None
       /\ \E hints \in MCHints : Review(hints)
    \/ schema = None /\ Cardinality(answers) < 2 /\ \E row \in {RowAt(MCHeader, Blade, 1)} : Analyze(row)
    \/ /\ ~Plainly /\ answers = {}
       /\ \E input \in NameInputs, header \in {h \in MCHeaders : Len(h) = 15} :
             Open(input, header, <<Example("P1", <<Observed(1, "Size", <<"10">>, "in")>>)>>)
    \/ /\ Plainly /\ answers = {}
       /\ \E input \in FileInputs, header \in MCHeaders, examples \in MCCatalogs :
             Open(input, header, examples)
    \/ ReadLine \/ NormalizeRows \/ ClassifyRows
    \/ Plainly /\ records = << >> /\ \E candidate \in MCOffers : Offer(candidate)
    \/ \E k \in DOMAIN rows, key \in Keys : Build(k, key)
    \/ Write

MCSpec == Init /\ [][MCNext]_vars
=================================================================================
