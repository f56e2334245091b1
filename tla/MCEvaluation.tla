------------------------------ MODULE MCEvaluation ------------------------------
(* A class of seven features over five units, their proposals, seven          *)
(* sources, two products and a family, and manifests of up to three cases.    *)
EXTENDS Evaluation, TLC

U(dimension, factor, affine) == [dimension |-> dimension, factor |-> factor, affine |-> affine]
MCUnitRegistry == ("A" :> U("current", 1000, FALSE)) @@ ("mA" :> U("current", 1, FALSE))
    @@ ("V" :> U("voltage", 1000, FALSE))
    @@ ("C" :> U("temperature", 1000, TRUE)) @@ ("K" :> U("temperature", 1000, TRUE))

MCFold == ("Screw" :> "screw") @@ ("SCREW" :> "screw") @@ ("Clamp" :> "clamp") @@ ("glue" :> "glue")

Row(f, type, unit, nr) == [class |-> "EC1", feature |-> f, type |-> type, unit |-> unit, nr |-> nr]
MCArchive ==
    [classes |-> {"EC1"},
     units |-> ("u1" :> "A") @@ ("u2" :> "C") @@ ("u3" :> "lm"),
     features |-> {"current", "range", "fixing", "din", "light", "poles", "sealed", "odd"},
     values |-> ("v1" :> "Screw") @@ ("v2" :> "Clamp"),
     featureMap |-> {Row("current", "N", "u1", 1), Row("range", "R", "u2", 2),
                     Row("fixing", "A", None, 3), Row("din", "L", None, 4),
                     Row("light", "N", "u3", 5), Row("poles", "N", "u9", 6),
                     Row("sealed", "L", "u1", 9), Row("odd", "X", None, 7), Row("unnamed", "N", None, 8)},
     valueMap |-> {[nr |-> 3, value |-> "v1", sort |-> 1], [nr |-> 3, value |-> "v2", sort |-> 2],
                   [nr |-> 3, value |-> "v9", sort |-> 3], [nr |-> 9, value |-> "v1", sort |-> 4]}]

\* One rule that needs two kinds, one that needs none, and a file that pins what it does not require.
Rule(required, expected) == [required |-> required, expected |-> expected]
MCDemoData ==
    {[buyerCritical |-> {"current"},
      qualifiers |-> ("current" :> Rule({"USE", "VOLTAGE"}, "USE" :> "AC-3"))],
     [buyerCritical |-> {"current", "fixing"},
      qualifiers |-> ("current" :> Rule({}, <<>>)) @@ ("fixing" :> Rule({"USE"}, <<>>))],
     [buyerCritical |-> {}, qualifiers |-> ("current" :> Rule({}, "USE" :> "AC-3"))]}

MCWanted == {{"current", "range", "fixing", "din", "light", "poles", "sealed"}, {"current", "fixing", "gone"}}

Use(value) == [kind |-> "USE", value |-> value]
Voltage == [kind |-> "VOLTAGE", value |-> "400V"]
Full == <<Use("AC-3"), Voltage>>

Blank == [shape |-> "object", wellFormed |-> TRUE, number |-> None, minimum |-> None, maximum |-> None,
          finite |-> TRUE, unit |-> None, text |-> None, boolean |-> None,
          raw |-> "seen", page |-> 1, conditions |-> <<>>]
Number(n, unit, raw, conditions) ==
    [Blank EXCEPT !.number = n, !.unit = unit, !.raw = raw, !.conditions = conditions]
Text(text) == [Blank EXCEPT !.text = text, !.raw = text]
Between(lo, hi, unit) == [Blank EXCEPT !.minimum = lo, !.maximum = hi, !.unit = unit]

Amps == Number(2, "A", "0.002 A", Full)
MilliAmps == Number(2000, "mA", "2 mA", Full)
BareAmps == Number(2, "A", "0.002 A", <<>>)

CurrentProposals ==
    {Amps, MilliAmps, BareAmps, Number(2, "A", "0.002 A", <<Voltage>>), Number(2, "V", "0.002 V", Full),
     Number(2, "lm", "2", <<>>), Number(2, None, "2", <<>>), Number(None, "A", "0.002 A", <<>>),
     Number(2, "A", "0.002 A", <<Use("AC-3"), Use("AC-1")>>), [Amps EXCEPT !.finite = FALSE],
     Number(2, "A", "0.002 A", <<[kind |-> "MOOD", value |-> "AC-3"]>>),
     [Amps EXCEPT !.page = 2], [Amps EXCEPT !.page = None], [Amps EXCEPT !.raw = None],
     [Amps EXCEPT !.wellFormed = FALSE], [shape |-> "null"], [shape |-> "other"]}
FixingProposals == {Text("Screw"), Text("SCREW"), Text("glue"), Text(None),
                    [Text("Clamp") EXCEPT !.unit = "A"], [Text("Clamp") EXCEPT !.conditions = <<Use("AC-3")>>],
                    [shape |-> "null"]}
OtherProposals ==
    {"range" :> Between(1000, 9000, "C"), "range" :> Between(9000, 1000, "C"),
     "range" :> Between(1000, 9000, "K"), "range" :> Between(1000, None, "C"),
     "din" :> [Blank EXCEPT !.boolean = TRUE], "din" :> [Blank EXCEPT !.boolean = TRUE, !.unit = "A"],
     "light" :> Number(5000, "lm", "5 lm", <<>>), "poles" :> Number(3000, None, "3", <<>>),
     "poles" :> Number(3000, "A", "3 A", <<>>), "invented" :> Blank,
     "sealed" :> [Blank EXCEPT !.boolean = TRUE, !.unit = "A"]}

MCPayloads ==
    {("current" :> p) @@ ("fixing" :> q) : p \in CurrentProposals, q \in FixingProposals}
    \cup OtherProposals
    \cup {("current" :> p) @@ o : p \in {Amps}, o \in OtherProposals}
MCFollowed == {("current" :> p) @@ ("fixing" :> q) :
                  p \in {MilliAmps, BareAmps, [shape |-> "null"]}, q \in {Text("SCREW")}}

MCOtherValue == Value(NumericKey(32000, "A"), "32 A", "VERBATIM")

Source(artifact, scope, covers) ==
    [artifact |-> artifact, page |-> 1, manufacturer |-> TRUE, scope |-> scope, covers |-> covers,
     structured |-> TRUE, verified |-> TRUE, proves |-> FALSE, reads |-> "value", states |-> "all"]
MCObservations ==
    {Source("own", "EXACT_SKU", "m"),
     [Source("shop", "EXACT_SKU", "sibling") EXCEPT !.manufacturer = FALSE],
     [Source("range", "FAMILY", None) EXCEPT !.proves = TRUE, !.states = "none"],
     [Source("lost", "EXACT_SKU", "M") EXCEPT !.verified = FALSE, !.page = None],
     [Source("rival", "EXACT_SKU", "M") EXCEPT !.reads = "other"],
     [Source("scan", "EXACT_SKU", "M") EXCEPT !.reads = "rewritten", !.states = "other"],
     [Source("web", "RANGE", None) EXCEPT !.manufacturer = FALSE, !.states = "other"]}

MCCanonicalMpn == ("m" :> "M") @@ ("M" :> "M") @@ ("sibling" :> "S") @@ ("stem" :> "STEM")

Identity(disposition, mpn, axes, candidates) ==
    [disposition |-> disposition, mpn |-> mpn, axes |-> axes, candidates |-> candidates]
MCIdentities ==
    {Identity("EXACT", "M", {}, {}), Identity("EXACT", None, {}, {}),
     Identity("FAMILY_OR_INCOMPLETE_REFERENCE", "stem", {"coil"}, {}),
     Identity("CONTRADICTORY", None, {}, {"m"}), Identity("UNKNOWN", None, {}, {})}

Point == ("USE" :> "AC-3") @@ ("VOLTAGE" :> "400V")
Truth(f, applicability, critical, value, point) ==
    [feature |-> f, applicability |-> applicability, buyerCritical |-> critical, value |-> value,
     point |-> point, status |-> None, reasons |-> {},
     evidence |-> [artifact |-> "own", page |-> 1, scope |-> "EXACT_SKU"]]
Rated == Value(NumericKey(2, "A"), "0.002 A", "VERBATIM")
Screwed == Value(AlphanumericKey("v1"), "Screw", "VERBATIM")

Case(id, where, family, disposition, mpn, truths) ==
    [id |-> id, split |-> where, family |-> family, disposition |-> disposition, mpn |-> mpn,
     discriminators |-> {"coil"}, truths |-> truths, synthetic |-> FALSE]
Own == Case("c1", "DEV", "f1", "EXACT", "m",
            <<Truth("current", "APPLICABLE", TRUE, Rated, Point),
              Truth("current", "APPLICABLE", FALSE, MCOtherValue, <<>>),
              Truth("din", "NOT_APPLICABLE", FALSE, None, <<>>)>>)
Stem == Case("c2", "DEV", "f2", "FAMILY_OR_INCOMPLETE_REFERENCE", None,
             <<[Truth("fixing", "UNKNOWN", TRUE, Screwed, <<>>) EXCEPT !.evidence = None],
               Truth("current", "APPLICABLE", TRUE, None, <<>>)>>)
Locked == [Case("c3", "LOCKED_TEST", "f3", "UNKNOWN", None,
                <<[Truth("fixing", "APPLICABLE", FALSE, Screwed, <<>>) EXCEPT !.evidence.page = None]>>)
           EXCEPT !.synthetic = TRUE]
MCManifests ==
    {<<Own, Stem, Locked>>, <<Stem, Own>>, <<Own, [Stem EXCEPT !.id = "c1"]>>,
     <<Own, [Stem EXCEPT !.family = "f1", !.split = "LOCKED_TEST"]>>,
     <<[Stem EXCEPT !.discriminators = {}]>>, <<[Own EXCEPT !.truths[3].buyerCritical = TRUE]>>,
     <<[Own EXCEPT !.truths[3].feature = "gone"]>>, <<[Own EXCEPT !.truths[2].point = Point]>>}

Predicted(f, status, value, point, grade, verified) ==
    [feature |-> f, status |-> status, value |-> value, point |-> point, grade |-> grade,
     verified |-> verified, citation |-> None]
Baseline(disposition, mpn, attrs, tokens, cost) ==
    [outcome |-> "SCORED", system |-> "baseline", disposition |-> disposition, mpn |-> mpn,
     attributes |-> attrs, mode |-> "LIVE", tokens |-> tokens, cost |-> cost]
MCBaselines ==
    {Baseline("EXACT", "sibling", <<Predicted("current", "ACCEPTED", MCOtherValue, Point, None, FALSE),
                                    Predicted("fixing", "ACCEPTED", Screwed, <<>>, "B", TRUE)>>,
              100, [currency |-> "EUR", amount |-> 3]),
     Baseline("EXACT", "m", <<[Predicted("current", "ACCEPTED", Rated, Point, "A", TRUE) EXCEPT
                                  !.citation = [artifact |-> "own", page |-> 1, scope |-> "EXACT_SKU",
                                                verified |-> TRUE]],
                              Predicted("din", "ACCEPTED", Value(LogicalKey(TRUE), "yes", "VERBATIM"),
                                        <<>>, None, FALSE)>>,
              None, [currency |-> "USD", amount |-> 5]),
     Baseline("UNKNOWN", None, <<Predicted("fixing", "WITHHELD", None, <<>>, None, FALSE),
                                 Predicted("fixing", "ACCEPTED", Screwed, <<>>, "C", TRUE)>>,
              20, [currency |-> "EUR", amount |-> 4])}
=================================================================================
