------------------------------- MODULE Evaluation -------------------------------
(* From one extraction to a scored report: the answers a model's payload is   *)
(* given, the record its candidates become, the prediction the record is      *)
(* turned into (eval/models.py), and the scoring of a split of a manifest     *)
(* (eval/scoring.py, eval/report.py).                                         *)
(*                                                                            *)
(* Nothing in the repository but its tests constructs a record: here a caller *)
(* may propose any attribute over what was observed, and the contract decides.*)
EXTENDS ProductRecord

CONSTANTS
    Archive, Class, DemoData,       \* the archive, the class asked for, the reviewed files
    Wanted,                         \* the sets of features a run may ask for
    Payloads, Followed,             \* what a model may answer; the answers that go on to a record
    Pages,                          \* of the document
    Observations,                   \* what reading the sources may give for a candidate
    OtherValue, OtherQualifier,     \* a value and a qualifier nobody proposed
    Identities,
    Manifests, Splits,
    Baselines,                      \* predictions of another system
    MaxAttributes                   \* bound: attributes of a record

Features == LoadEtim(Archive)[Class]

Outcomes == {"SCORED", "MISSING_PREDICTION", "EXECUTION_ERROR", "REPLAY_MISS", "INVALID_OUTPUT"}

\* A number that a payload states, in each unit it may be converted to, is whole thousandths.
ConvertsExactly(number, unit) ==
    number # None =>
        /\ number \in Int
        /\ IsKnown(unit) => \A to \in CompatibleUnits(unit) :
              (number * UnitRegistry[unit].factor) % UnitRegistry[to].factor = 0

\* What a citation says of the span it points at.
Cited(e) == [artifact |-> e.artifact, page |-> e.page, scope |-> e.scope, verified |-> e.verified]

ASSUME EvaluationAssumption ==
    /\ Class \in Archive.classes
    /\ \A row \in Archive.valueMap : row.sort \in Nat
    /\ Pages \in Nat
    /\ \A p \in Payloads : \A f \in DOMAIN p :
          /\ p[f].shape \in {"null", "other", "object"}
          /\ p[f].shape = "object" =>
                /\ p[f].page # None => p[f].page \in Nat
                /\ \A number \in {p[f].number, p[f].minimum, p[f].maximum} :
                      ConvertsExactly(number, p[f].unit)
    /\ \A o \in Observations : Cited(o) # None
    /\ \A m \in Manifests :
          /\ m \in Seq(Members(m))
          /\ \A case \in Members(m) :
                /\ case.truths \in Seq(Members(case.truths))
                /\ \A truth \in Members(case.truths) : truth.applicability \in Applicabilities
    /\ \A b \in Baselines :
          /\ b.system # "skutruth" /\ b.outcome \in Outcomes
          /\ b.attributes \in Seq(Members(b.attributes))
          /\ \A a \in Members(b.attributes) : a.grade \in Grades \cup {None}

VARIABLES
    phase,
    config, schemas,                \* what the run was set up with
    payload, answers,               \* of the extraction
    identity, attributes, record,
    manifest, split, predictions,
    position, place, acc, report    \* of the scoring: the case, and the truth, that is next

setup == <<config, schemas>>
extraction == <<payload, answers>>
building == <<identity, attributes, record>>
predicting == <<manifest, split, predictions>>
scoring == <<position, place, acc, report>>
vars == <<phase, setup, extraction, building, predicting, scoring>>

Tally == [num |-> 0, den |-> 0]
Add(tally, correct) ==
    [num |-> tally.num + (IF correct THEN 1 ELSE 0), den |-> tally.den + 1]
AddDenominatorOnly(tally) == Add(tally, FALSE)

GradeKeys == Grades \cup {"UNGRADED"}
CitationOutcomes == {"VALID", "INVALID", "NOT_EVALUATED"}

ScoreAccumulator ==
    [identity |-> Tally, falseExact |-> Tally, precision |-> Tally, normalization |-> Tally,
     supported |-> Tally, coverage |-> Tally,
     buyer |-> [accepted |-> 0, applicable |-> 0, withheld |-> 0, notApplicable |-> 0, unknown |-> 0],
     citations |-> [o \in CitationOutcomes |-> 0],
     byGrade |-> [g \in GradeKeys |-> Tally],
     outcomes |-> [o \in Outcomes |-> 0]]

Init ==
    /\ phase = "setup"
    /\ config = None /\ schemas = <<>>
    /\ payload = <<>> /\ answers = <<>>
    /\ identity = None /\ attributes = <<>> /\ record = None
    /\ manifest = <<>> /\ split = None /\ predictions = <<>>
    /\ position = 1 /\ place = 0 /\ acc = ScoreAccumulator /\ report = None

\* --- extraction -----------------------------------------------------------------

\* A run may have no reviewed file; one that is malformed stops it.
SetUp ==
    /\ phase = "setup"
    /\ \E data \in DemoData \cup {None}, wanted \in Wanted :
          LET parsed == IF data = None THEN None ELSE ParseDemoClass(data)
          IN  /\ config' = parsed
              /\ schemas' = IF data # None /\ parsed = None THEN <<>>
                            ELSE BuildExtractionSchema(Features, parsed, wanted)
              /\ phase' = IF data # None /\ parsed = None THEN "stopped" ELSE "extract"
    /\ UNCHANGED <<extraction, building, predicting, scoring>>

Extract ==
    /\ phase = "extract"
    /\ \E p \in Payloads :
          LET made == ValidateRawExtraction(p, schemas, Features, config, Pages)
          IN  /\ payload' = p
              /\ answers' = IF IsRaised(made) THEN <<>> ELSE made
              /\ phase' = IF IsRaised(made) THEN "stopped" ELSE "extracted"
    /\ UNCHANGED <<setup, building, predicting, scoring>>

Candidates == {f \in DOMAIN answers : answers[f].answer = "candidate"}

\* --- the record -------------------------------------------------------------------

BeginRecord ==
    /\ phase = "extracted" /\ payload \in Followed
    /\ \E i \in Identities : IsIdentity(i) /\ identity' = i
    /\ phase' = "record"
    /\ UNCHANGED <<setup, extraction, attributes, record, predicting, scoring>>

\* The value as the document writes it, before it was converted.
AsRead(c) ==
    IF KindOf(c.value) = "numeric" /\ c.value.derivation = "UNIT_CONVERSION"
    THEN Value(NumericKey(payload[c.feature].number, payload[c.feature].unit), c.value.raw, "VERBATIM")
    ELSE Value(c.value.key, c.value.raw, "VERBATIM")

EvidenceOf(o, c) ==
    [artifact |-> o.artifact, page |-> o.page, manufacturer |-> o.manufacturer, scope |-> o.scope,
     covers |-> o.covers, structured |-> o.structured, verified |-> o.verified, proves |-> o.proves,
     observed |-> CASE o.reads = "value" -> AsRead(c)
                    [] o.reads = "rewritten" -> [AsRead(c) EXCEPT !.raw = OtherValue.raw]
                    [] o.reads = "other" -> OtherValue,
     point |-> CASE o.states = "all" -> c.point
                 [] o.states = "none" -> <<>>
                 [] o.states = "other" -> [k \in DOMAIN c.point |-> OtherQualifier]]

GroupOf(id, members) ==
    [id |-> id, representative |-> members[1].observed, point |-> members[1].point, members |-> members]

\* One or two observations, in one group or in two.
GroupsOver(c) ==
    LET E == [o \in Observations |-> EvidenceOf(o, c)]
    IN  {<<GroupOf(1, <<E[o]>>)>> : o \in Observations}
        \cup {<<GroupOf(1, <<E[o], E[p]>>)>> : o, p \in Observations}
        \cup {<<GroupOf(1, <<E[o]>>), GroupOf(2, <<E[p]>>)>> : o, p \in Observations}

\* Two groups that read different values are on record as a conflict.
ConflictsOf(groups) ==
    IF Len(groups) = 2 /\ ~Agrees(groups[1].representative, groups[2].representative)
    THEN {[cause |-> "FACTUAL", groups |-> <<1, 2>>, resolvedBy |-> "unresolved"]} ELSE {}

AcceptAttribute ==
    /\ phase = "record" /\ Len(attributes) < MaxAttributes
    /\ \E f \in Candidates : \E groups \in GroupsOver(answers[f]), value \in {answers[f].value, OtherValue},
          point \in {answers[f].point, <<>>}, completeness \in {answers[f].completeness, "COMPLETE"},
          invariance \in Invariances, anchor \in {None, identity.mpn}, grade \in Grades :
          LET a == [feature |-> f, type |-> Features[f].type, unit |-> Features[f].unit,
                    buyerCritical |-> answers[f].buyerCritical, applicability |-> "APPLICABLE",
                    status |-> "ACCEPTED", value |-> value, point |-> point,
                    completeness |-> completeness, invariance |-> invariance, anchor |-> anchor,
                    grade |-> grade, reason |-> None, groups |-> groups,
                    conflicts |-> ConflictsOf(groups)]
          IN  IsAttribute(a) /\ attributes' = Append(attributes, a)
    /\ UNCHANGED <<phase, setup, extraction, identity, record, predicting, scoring>>

\* What was not found, or does not apply, is on the record too.
WithholdAttribute ==
    /\ phase = "record" /\ Len(attributes) < MaxAttributes
    /\ \E f \in DOMAIN schemas, applicability \in Applicabilities, anchor \in {None, identity.mpn},
          reason \in {"NOT_FOUND", "NOT_APPLICABLE"} :
          LET a == [feature |-> f, type |-> Features[f].type, unit |-> Features[f].unit,
                    buyerCritical |-> schemas[f].buyerCritical, applicability |-> applicability,
                    status |-> "WITHHELD", value |-> None, point |-> <<>>,
                    completeness |-> "UNKNOWN", invariance |-> "NOT_REQUIRED", anchor |-> anchor,
                    grade |-> None, reason |-> reason, groups |-> <<>>, conflicts |-> {}]
          IN  IsAttribute(a) /\ attributes' = Append(attributes, a)
    /\ UNCHANGED <<phase, setup, extraction, identity, record, predicting, scoring>>

FinishRecord ==
    /\ phase = "record" /\ attributes # <<>>
    /\ \E provenance \in [mode : {"LIVE", "REPLAY", "MIXED"}, captured : {None, "then"}] :
          LET r == [identity |-> identity, provenance |-> provenance, attributes |-> attributes]
          IN  IsRecord(r) /\ record' = r
    /\ phase' = "recorded"
    /\ UNCHANGED <<setup, extraction, identity, attributes, predicting, scoring>>

\* --- predictions --------------------------------------------------------------------

\* A plausible slip: what backs the value is looked for among all that was found.
CitationOfAnything(a) ==
    IF a.groups = <<>> THEN None ELSE Cited(a.groups[1].members[1])

CitationOf(a) ==
    IF LicensingEvidence(a) = {} THEN None ELSE Cited(FirstLicensingEvidence(a))

PredictedAttribute(a) ==
    [feature |-> a.feature, status |-> a.status, value |-> a.value, point |-> a.point,
     grade |-> a.grade, verified |-> LicensingEvidence(a) # {}, citation |-> CitationOf(a)]

PredictionFromRecord(r) ==
    [outcome |-> "SCORED", system |-> "skutruth", disposition |-> r.identity.disposition,
     mpn |-> r.identity.mpn, attributes |-> [i \in DOMAIN r.attributes |-> PredictedAttribute(r.attributes[i])],
     mode |-> r.provenance.mode, tokens |-> None, cost |-> None]

\* All that resolving an identity tells; a candidate is not a resolved reference.
PredictionFromIdentity(i) ==
    [outcome |-> "SCORED", system |-> "skutruth", disposition |-> i.disposition,
     mpn |-> IF IsExact(i) THEN i.mpn ELSE None, attributes |-> <<>>,
     mode |-> None, tokens |-> None, cost |-> None]

\* The caller names the failure; scoring treats every name of one alike.
Failure ==
    [outcome |-> "EXECUTION_ERROR", system |-> "skutruth", disposition |-> None, mpn |-> None,
     attributes |-> <<>>, mode |-> None, tokens |-> None, cost |-> None]

\* --- the truth ----------------------------------------------------------------------

IsJudgeable(truth) == truth.value # None

IsTruth(truth) ==
    /\ truth.applicability = "NOT_APPLICABLE" => truth.value = None
    /\ truth.status = "ACCEPTED" => truth.value # None

\* One truth for a feature at an operating point.
IsCase(case) ==
    /\ case.disposition = "EXACT" => case.mpn # None
    /\ \A i \in DOMAIN case.truths : IsTruth(case.truths[i])
    /\ \A i, j \in DOMAIN case.truths :
          (case.truths[i].feature = case.truths[j].feature
           /\ case.truths[i].point = case.truths[j].point) => i = j

CaseProblems(case) ==
    (IF case.disposition = "FAMILY_OR_INCOMPLETE_REFERENCE" /\ case.discriminators = {}
     THEN {<<case.id, "unfalsifiable">>} ELSE {})
    \cup {<<case.id, truth.feature>> : truth \in {t \in Members(case.truths) :
            \/ t.applicability = "NOT_APPLICABLE" /\ (t.buyerCritical \/ t.status = "ACCEPTED")
            \/ t.status = "ACCEPTED" /\ t.reasons # {}}}

ManifestProblems(cases) ==
    (UNION {CaseProblems(case) : case \in Members(cases)})
    \cup {<<cases[i].id, "duplicate">> :
            i \in {k \in DOMAIN cases : \E j \in DOMAIN cases : j # k /\ cases[j].id = cases[k].id}}
    \cup {<<case.family, "straddles">> : case \in {c \in Members(cases) :
            \E d \in Members(cases) : d.family = c.family /\ d.split # c.split}}

\* Features the cases name and their class does not have.
StraysAgainstEtim(cases) ==
    {truth.feature : truth \in UNION {Members(case.truths) : case \in Members(cases)}} \ DOMAIN Features

\* The places in ascending order.
InOrder(places) ==
    CHOOSE f \in [1..Cardinality(places) -> places] : \A i, j \in DOMAIN f : i < j => f[i] < f[j]

ForSplit(cases, s) ==
    LET of == InOrder({i \in DOMAIN cases : cases[i].split = s})
    IN  [k \in DOMAIN of |-> cases[of[k]]]

LoadManifest ==
    /\ \/ phase = "setup"                                \* another system's predictions
       \/ phase = "recorded"
    /\ \E m \in Manifests, s \in Splits :
          /\ \A case \in Members(m) : IsCase(case)
          /\ ManifestProblems(m) = {} /\ StraysAgainstEtim(m) = {}
          /\ manifest' = m /\ split' = s
          /\ predictions' = IF record = None THEN <<>>
                            ELSE [c \in {m[i].id : i \in DOMAIN m \cap {1}} |-> PredictionFromRecord(record)]
    /\ phase' = "predict"
    /\ identity' = None /\ attributes' = <<>> /\ record' = None
    /\ config' = None /\ schemas' = <<>> /\ payload' = <<>> /\ answers' = <<>>
    /\ UNCHANGED scoring

Predict(id, prediction) ==
    /\ phase = "predict" /\ id \notin DOMAIN predictions
    /\ predictions' = [c \in DOMAIN predictions \cup {id} |->
                          IF c = id THEN prediction ELSE predictions[c]]
    /\ UNCHANGED <<phase, setup, extraction, building, manifest, split, scoring>>

CaseIds == {case.id : case \in Members(manifest)}

\* A case may be answered by another system, by its identity alone, or with a failure.
PredictAny ==
    \E id \in CaseIds :
        \/ \E p \in Baselines : Predict(id, p)
        \/ \E i \in Identities : IsIdentity(i) /\ Predict(id, PredictionFromIdentity(i))
        \/ Predict(id, Failure)

BeginScoring ==
    /\ phase = "predict"
    /\ phase' = "score"
    /\ UNCHANGED <<setup, extraction, building, predicting, scoring>>

\* --- scoring --------------------------------------------------------------------------

AttributeOf(prediction, f) ==
    LET hits == {i \in DOMAIN prediction.attributes : prediction.attributes[i].feature = f}
    IN  IF hits = {} THEN None ELSE prediction.attributes[CHOOSE i \in hits : \A j \in hits : i <= j]

Accepts(predicted) == predicted # None /\ predicted.status = "ACCEPTED"

ScoreCitation(truth, predicted) ==
    CASE truth.evidence = None -> "NOT_EVALUATED"
      [] truth.evidence # None /\ (truth.evidence.artifact = None \/ truth.evidence.page = None) ->
            "NOT_EVALUATED"
      [] OTHER ->
            IF /\ predicted.citation # None
               /\ predicted.citation.verified
               /\ predicted.citation.artifact = truth.evidence.artifact
               /\ predicted.citation.page = truth.evidence.page
               /\ truth.evidence.scope \in {None, predicted.citation.scope}
            THEN "VALID" ELSE "INVALID"

ScoreIdentity(tallies, case, prediction) ==
    LET correct == /\ prediction.disposition = case.disposition
                   /\ case.disposition = "EXACT" => Matches(prediction.mpn, case.mpn)
        scored == [tallies EXCEPT !.identity = Add(@, correct)]
    IN  IF case.disposition = "EXACT" THEN scored
        ELSE [scored EXCEPT !.falseExact = Add(@, prediction.disposition = "EXACT")]

CountBuyer(tallies, truth, key) ==
    IF truth.buyerCritical THEN [tallies EXCEPT !.buyer[key] = @ + 1] ELSE tallies

\* A value for a feature that does not apply is wrong, and counted nowhere else.
ScoreNotApplicable(tallies, predicted) ==
    IF Accepts(predicted) THEN [tallies EXCEPT !.precision = Add(@, FALSE)] ELSE tallies

\* An accepted value, by what the truth says of it.
ScoreCommitted(tallies, truth, predicted) ==
    LET valueOk == predicted.value # None /\ predicted.value.key = truth.value.key
        correct == valueOk /\ predicted.point = truth.point
        grade == IF predicted.grade = None THEN "UNGRADED" ELSE predicted.grade
    IN  [tallies EXCEPT !.precision = Add(@, correct),
                        !.byGrade[grade] = Add(@, correct),
                        !.normalization = Add(@, valueOk),
                        !.citations[ScoreCitation(truth, predicted)] = @ + 1]

ScoreApplicable(tallies, truth, predicted) ==
    LET accepted == Accepts(predicted)
        bought == CountBuyer(CountBuyer(tallies, truth, "applicable"), truth,
                             IF accepted THEN "accepted" ELSE "withheld")
        covered == IF IsJudgeable(truth) THEN [bought EXCEPT !.coverage = Add(@, accepted)] ELSE bought
        backed == IF accepted THEN [covered EXCEPT !.supported = Add(@, predicted.verified)] ELSE covered
    IN  IF accepted /\ IsJudgeable(truth) THEN ScoreCommitted(backed, truth, predicted) ELSE backed

\* A plausible slip: a value withheld is a value missed.
ScoreAttributeAsAnswered(tallies, truth, predicted) ==
    CASE truth.applicability = "NOT_APPLICABLE" -> ScoreNotApplicable(tallies, predicted)
      [] truth.applicability = "UNKNOWN" -> CountBuyer(tallies, truth, "unknown")
      [] truth.applicability = "APPLICABLE" ->
            IF Accepts(predicted) \/ ~IsJudgeable(truth) THEN ScoreApplicable(tallies, truth, predicted)
            ELSE [ScoreApplicable(tallies, truth, predicted) EXCEPT !.precision = Add(@, FALSE)]

ScoreAttribute(tallies, truth, predicted) ==
    CASE truth.applicability = "NOT_APPLICABLE" -> ScoreNotApplicable(tallies, predicted)
      [] truth.applicability = "UNKNOWN" -> CountBuyer(tallies, truth, "unknown")
      [] truth.applicability = "APPLICABLE" -> ScoreApplicable(tallies, truth, predicted)

\* A case that produced nothing filled nothing.
ScoreAbsent(tallies, truth) ==
    LET missed == IF IsJudgeable(truth) THEN [tallies EXCEPT !.coverage = AddDenominatorOnly(@)]
                  ELSE tallies
    IN  IF truth.applicability = "NOT_APPLICABLE" THEN tallies
        ELSE CountBuyer(CountBuyer(missed, truth, "applicable"), truth, "withheld")

Answered(id) == id \in DOMAIN predictions /\ predictions[id].outcome = "SCORED"

OutcomeOf(id) == IF id \in DOMAIN predictions THEN predictions[id].outcome ELSE "MISSING_PREDICTION"

Cases == ForSplit(manifest, split)

\* A case that produced nothing identified nothing.
ScoreOutcome(case) ==
    LET counted == [acc EXCEPT !.outcomes[OutcomeOf(case.id)] = @ + 1]
    IN  IF Answered(case.id) THEN ScoreIdentity(counted, case, predictions[case.id])
        ELSE [counted EXCEPT !.identity = AddDenominatorOnly(@)]

\* A plausible slip: the split is asked for and not applied.
BeginCaseOfAny ==
    /\ phase = "score" /\ place = 0 /\ position <= Len(manifest)
    /\ acc' = ScoreOutcome(manifest[position])
    /\ place' = 1
    /\ UNCHANGED <<phase, setup, extraction, building, predicting, position, report>>

BeginCase ==
    /\ phase = "score" /\ place = 0 /\ position <= Len(Cases)
    /\ acc' = ScoreOutcome(Cases[position])
    /\ place' = 1
    /\ UNCHANGED <<phase, setup, extraction, building, predicting, position, report>>

ScoreTruth ==
    /\ place > 0 /\ place <= Len(Cases[position].truths)
    /\ LET case == Cases[position]
           truth == case.truths[place]
       IN  acc' = IF Answered(case.id)
                  THEN ScoreAttribute(acc, truth, AttributeOf(predictions[case.id], truth.feature))
                  ELSE ScoreAbsent(acc, truth)
    /\ place' = place + 1
    /\ UNCHANGED <<phase, setup, extraction, building, predicting, position, report>>

EndCase ==
    /\ place > 0 /\ Len(Cases[position].truths) < place
    /\ position' = position + 1 /\ place' = 0
    /\ UNCHANGED <<phase, setup, extraction, building, predicting, acc, report>>

\* --- the report -----------------------------------------------------------------------

\* A ratio of more successes than attempts cannot be constructed.
IsRatio(tally) == tally.num <= tally.den
Complement(tally) == [num |-> tally.den - tally.num, den |-> tally.den]

UnexpectedPredictions == DOMAIN predictions \ {c.id : c \in Members(Cases)}

Relevant == DOMAIN predictions \ UnexpectedPredictions

\* What nobody reported is not zero.
SumOrNone(amounts) ==
    LET present == {id \in DOMAIN amounts : amounts[id] # None}
    IN  [reported |-> present # {}, sum |-> MapThenSumSet(LAMBDA id : amounts[id], present)]

CostByCurrency ==
    LET reported == {id \in Relevant : predictions[id].cost # None}
        currencies == {predictions[id].cost.currency : id \in reported}
    IN  [c \in currencies |->
            MapThenSumSet(LAMBDA id : predictions[id].cost.amount,
                          {id \in reported : predictions[id].cost.currency = c})]

RunModes ==
    LET modes == {predictions[id].mode : id \in Relevant} \ {None}
    IN  [m \in modes |-> Cardinality({id \in Relevant : predictions[id].mode = m})]

Failures ==
    acc.outcomes["MISSING_PREDICTION"] + acc.outcomes["EXECUTION_ERROR"]
    + acc.outcomes["REPLAY_MISS"] + acc.outcomes["INVALID_OUTPUT"]

BuildReport ==
    /\ phase = "score" /\ place = 0 /\ position > Len(Cases)
    /\ \A key \in {"identity", "falseExact", "precision", "normalization", "supported", "coverage"} :
          IsRatio(acc[key])
    /\ report' = [unsupported |-> Complement(acc.supported),
                  failed |-> Failures,
                  unexpected |-> UnexpectedPredictions,
                  modes |-> RunModes,
                  tokens |-> SumOrNone([id \in Relevant |-> predictions[id].tokens]),
                  costs |-> CostByCurrency,
                  synthetic |-> /\ Cases # <<>>
                                /\ \A c \in Members(Cases) : c.synthetic]
    /\ phase' = "done"
    /\ UNCHANGED <<setup, extraction, building, predicting, position, place, acc>>

Next ==
    \/ SetUp \/ Extract
    \/ BeginRecord \/ AcceptAttribute \/ WithholdAttribute \/ FinishRecord
    \/ LoadManifest \/ PredictAny \/ BeginScoring
    \/ BeginCase \/ ScoreTruth \/ EndCase \/ BuildReport

Spec == Init /\ [][Next]_vars

\* --- correctness ------------------------------------------------------------------------

Phases == {"setup", "extract", "extracted", "record", "recorded", "predict", "score", "done", "stopped"}

\* Type invariant: where a run is, and what it holds there.
TypeOK ==
    /\ phase \in Phases
    /\ DOMAIN schemas \subseteq DOMAIN Features
    /\ DOMAIN answers \subseteq DOMAIN payload
    /\ \A i \in DOMAIN attributes :
          /\ attributes[i].feature \in DOMAIN Features
          /\ attributes[i].grade \in Grades \cup {None}
          /\ IsAccepted(attributes[i]) => attributes[i].value # None
    /\ record # None => CountsAgree(BuildCoverage(record))
    /\ DOMAIN predictions \subseteq CaseIds
    /\ position \in 1..(Len(Cases) + 1)
    /\ IF position > Len(Cases) THEN place = 0 ELSE place \in 0..(Len(Cases[position].truths) + 1)
    /\ place > 0 => phase = "score"
    /\ report # None => phase = "done"

ProposedIn(f) == f \in DOMAIN schemas /\ payload[f].shape = "object"

Repeats(f) == \E i, j \in DOMAIN payload[f].conditions :
    i # j /\ payload[f].conditions[i].kind = payload[f].conditions[j].kind

\* The response schema and the validators are written apart and must agree: a
\* proposal the schema lets a model make, citing a page of the document,
\* becomes a candidate.  The exceptions are named: a scale with an offset, a
\* unit outside the registry, a unit the archive gives to a feature that is no
\* quantity, a number that is none, a range the wrong way round, and a qualifier
\* bound twice, which takes every other proposal of its payload down with it
\* (etim/schema_gen.py, etim/validators.py, extraction/service.py).
SchemaAndValidatorAgree ==
    \A f \in DOMAIN payload :
        (ProposedIn(f) /\ FollowsSchema(schemas[f], payload[f]) /\ payload[f].page <= Pages) =>
            \/ f \in DOMAIN answers /\ answers[f].answer = "candidate"
            \/ ~payload[f].finite
            \/ payload[f].unit # None /\ payload[f].unit \notin DOMAIN UnitRegistry
            \/ /\ payload[f].unit # Features[f].unit
               /\ \E u \in {payload[f].unit, Features[f].unit} : UnitRegistry[u].affine
            \/ schemas[f].type \in {"A", "L"} /\ schemas[f].unit # None
            \/ schemas[f].type = "R" /\ payload[f].minimum > payload[f].maximum
            \/ \E g \in DOMAIN payload : ProposedIn(g) /\ Repeats(g)

\* The same quantity, in the base unit of its dimension.
SameQuantity(number, unit, told, toldUnit) ==
    IF unit = None THEN toldUnit = None /\ number = told
    ELSE number * UnitRegistry[unit].factor = told * UnitRegistry[toldUnit].factor

\* A candidate says what the model read: the same quantity, in the unit the
\* class asks for; the picklist member whose text it is; every qualifier it
\* bound and no other.  It counts as complete only when a reviewed rule asks
\* for no kind that is not bound (etim/units.py, etim/validators.py).
CandidatesSayWhatWasRead ==
    \A f \in Candidates :
        LET c == answers[f]
            p == payload[f]
            bound == {<<p.conditions[i].kind, p.conditions[i].value>> : i \in DOMAIN p.conditions}
        IN  /\ schemas[f].type = "N" =>
                  SameQuantity(c.value.key[2], Features[f].unit, p.number, p.unit)
            /\ schemas[f].type = "R" =>
                  /\ SameQuantity(c.value.key[2], Features[f].unit, p.minimum, p.unit)
                  /\ SameQuantity(c.value.key[3], Features[f].unit, p.maximum, p.unit)
            /\ (schemas[f].type = "A" /\ Features[f].allowed # {}) =>
                  \E v \in Features[f].allowed :
                      c.value.key[2] = v.id /\ Fold[p.text] = Fold[v.text]
            /\ bound = {<<k, c.point[k]>> : k \in DOMAIN c.point}
            /\ c.completeness = "COMPLETE" =>
                  /\ config # None /\ f \in DOMAIN config.qualifiers
                  /\ config.qualifiers[f].required \subseteq {b[1] : b \in bound}

\* --- of the record

SpeaksFor(e, r) ==
    r.identity.disposition = "EXACT" /\ e.scope = "EXACT_SKU" =>
        e.covers # None /\ CanonicalMpn[e.covers] = CanonicalMpn[r.identity.mpn]

Witnesses(a, r) ==
    UNION {{e \in Members(g.members) :
              /\ e.verified /\ e.page # None /\ SpeaksFor(e, r)
              /\ \/ e.observed.key = a.value.key
                 \/ a.value.derivation # "VERBATIM" /\ g.representative.raw = a.value.raw} :
           g \in Members(a.groups)}

\* Every accepted value of a record is witnessed: a located span, of a document
\* that speaks for the product of the record, reads the value or the text it
\* was derived from, and states the whole operating point; no witness
\* contradicts that point; the best grade needs the maker's own word; and a
\* record of no exact product needs proof across the family
\* (contracts/product.py, contracts/support.py).
AcceptedIsWitnessed ==
    record # None =>
        \A a \in {x \in Members(record.attributes) : x.status = "ACCEPTED"} :
            LET witnesses == Witnesses(a, record)
            IN  /\ \E e \in witnesses :
                      \A k \in DOMAIN a.point : k \in DOMAIN e.point /\ e.point[k] = a.point[k]
                /\ \A e \in witnesses, k \in DOMAIN a.point :
                      k \in DOMAIN e.point => e.point[k] = a.point[k]
                /\ a.grade = "A" =>
                      /\ \E e \in witnesses : e.manufacturer
                      /\ \E e \in witnesses : e.scope = "EXACT_SKU" \/ e.proves
                /\ record.identity.disposition # "EXACT" =>
                      \/ \E e \in witnesses : e.proves
                      \/ \E e, g \in witnesses : e.covers # None /\ g.covers # None
                                                 /\ CanonicalMpn[e.covers] # CanonicalMpn[g.covers]

\* What the record has licensed, its prediction cites: an accepted value of
\* this system comes to the scorer with a located span, and none is ever
\* counted as an unsupported claim (eval/models.py, eval/scoring.py).
RecordsAreSupported ==
    /\ \A id \in DOMAIN predictions :
          predictions[id].system = "skutruth" =>
              \A a \in Members(predictions[id].attributes) :
                  a.status = "ACCEPTED" =>
                      a.verified /\ a.citation # None /\ a.citation.verified /\ a.citation.page # None
    /\ (\A id \in DOMAIN predictions : predictions[id].system = "skutruth") =>
          acc.supported.num = acc.supported.den

\* --- of the scores

\* The cases begun so far, and the truths scored so far, by their places.
ScoredCases == 1..(IF place > 0 THEN position ELSE position - 1)

ScoredTruths ==
    (UNION {{<<k, i>> : i \in DOMAIN Cases[k].truths} : k \in 1..(position - 1)})
    \cup {<<position, i>> : i \in 1..(place - 1)}

TruthOf(t) == Cases[t[1]].truths[t[2]]

Succeeded(k) == Answered(Cases[k].id)

Claims(k, disposition) == Succeeded(k) /\ predictions[Cases[k].id].disposition = disposition

Committed(t) ==
    /\ Succeeded(t[1])
    /\ Accepts(AttributeOf(predictions[Cases[t[1]].id], TruthOf(t).feature))

Judged(t) == TruthOf(t).applicability = "APPLICABLE" /\ TruthOf(t).value # None

SumOverGrades ==
    acc.byGrade["A"].den + acc.byGrade["B"].den + acc.byGrade["C"].den + acc.byGrade["UNGRADED"].den
SumOfCitations == acc.citations["VALID"] + acc.citations["INVALID"] + acc.citations["NOT_EVALUATED"]

\* The numbers account for every case and every truth, whatever order they are
\* scored in and whatever failed.  A case that failed keeps its place: it is
\* counted as identified wrongly and as filling nothing.  A value withheld is
\* never counted as a wrong one.  Every committed value that truth can judge
\* has one grade, one representation and one citation to its name, and the
\* features that apply are accepted or withheld (eval/scoring.py).
ScoresFollowTheTruth ==
    /\ acc.identity.den = Cardinality(ScoredCases)
    /\ acc.identity.num = Cardinality({k \in ScoredCases :
          /\ Claims(k, Cases[k].disposition)
          /\ Cases[k].disposition = "EXACT" =>
                /\ predictions[Cases[k].id].mpn # None
                /\ CanonicalMpn[predictions[Cases[k].id].mpn] = CanonicalMpn[Cases[k].mpn]})
    /\ acc.falseExact.num = Cardinality({k \in ScoredCases :
          Cases[k].disposition # "EXACT" /\ Claims(k, "EXACT")})
    /\ Cardinality({t \in ScoredTruths : Judged(t)}) <= acc.coverage.den
    /\ acc.coverage.num = Cardinality({t \in ScoredTruths : Judged(t) /\ Committed(t)})
    /\ acc.precision.den = Cardinality({t \in ScoredTruths :
          Committed(t) /\ (Judged(t) \/ TruthOf(t).applicability = "NOT_APPLICABLE")})
    /\ acc.precision.num <= acc.normalization.num
    /\ acc.normalization.den = acc.coverage.num
    /\ SumOverGrades = acc.coverage.num /\ SumOfCitations = acc.coverage.num
    /\ acc.buyer.accepted + acc.buyer.withheld = acc.buyer.applicable
    /\ acc.outcomes["SCORED"] + Failures = Cardinality(ScoredCases)
    /\ phase = "done" => /\ report.failed = Cardinality({k \in ScoredCases : ~Succeeded(k)})
                         /\ report.tokens.reported <=>
                               \E k \in ScoredCases :
                                   /\ Cases[k].id \in DOMAIN predictions
                                   /\ predictions[Cases[k].id].tokens # None

\* The scorer's comment says that false exact answers are measured over every
\* case whose truth is not EXACT (eval/scoring.py, _score_identity).
FalseExactIsOverEveryCase ==
    acc.falseExact.den = Cardinality({k \in ScoredCases : Cases[k].disposition # "EXACT"})
=================================================================================
