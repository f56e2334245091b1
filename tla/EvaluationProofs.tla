----------------------------- MODULE EvaluationProofs -----------------------------
(***************************************************************************)
(* Proofs about the way from an extraction to a report, for any archive,   *)
(* any payloads, documents, products and manifests: what the response      *)
(* schema lets through the validators accept, a candidate is what was      *)
(* read, an accepted value is witnessed, its prediction cites it, and the  *)
(* counts of a report are those of the cases and truths of the split.      *)
(***************************************************************************)
EXTENDS Evaluation, FiniteSetTheorems, SequenceTheorems, WellFoundedInduction, TLAPS

------------------------------------------------------------------------------
(* The least of some numbers. *)

\* The least element of a set, from the order as a relation.
LEMMA LeastOf ==
    ASSUME NEW R, NEW T \in SUBSET Nat,
           \A x, y \in Nat : <<x, y>> \in R <=> x < y,
           \E x \in T : \A y \in T : <<y, x>> \notin R
    PROVE  \E m \in T : \A n \in T : m <= n
<1>1. PICK x \in T : \A y \in T : <<y, x>> \notin R
  OBVIOUS
<1>2. \A y \in T : x \in Nat /\ y \in Nat /\ ~ (y < x)
  BY <1>1
<1>3. \A y \in T : x <= y
  BY <1>2
<1> QED BY <1>3

LEMMA LeastNatural ==
    ASSUME NEW T \in SUBSET Nat, T # {}
    PROVE  \E m \in T : \A n \in T : m <= n
<1> DEFINE R == OpToRel(<, Nat)
<1>1. IsWellFoundedOn(R, Nat)
  BY NatLessThanWellFounded
<1>2. \A x, y \in Nat : <<x, y>> \in R <=> x < y
  BY DEF OpToRel
<1> HIDE DEF R
<1>3. \E x \in T : \A y \in T : <<y, x>> \notin R
  BY <1>1, WFMin
<1> QED BY <1>2, <1>3, LeastOf

LEMMA FirstPlaceIsOne ==
    ASSUME NEW T \in SUBSET Nat, T # {}
    PROVE  FirstPlace(T) \in T
BY LeastNatural DEF FirstPlace

------------------------------------------------------------------------------
(* Units. *)

LEMMA ConversionIsExact ==
    ASSUME NEW number \in Int, NEW from \in DOMAIN UnitRegistry, NEW to \in DOMAIN UnitRegistry,
           (number * UnitRegistry[from].factor) % UnitRegistry[to].factor = 0
    PROVE  /\ Convert(number, from, to) \in Int
           /\ Convert(number, from, to) * UnitRegistry[to].factor = number * UnitRegistry[from].factor
<1>1. UnitRegistry[from].factor \in Nat \ {0} /\ UnitRegistry[to].factor \in Nat \ {0}
  BY UnitsAreReviewed
<1> DEFINE n == number * UnitRegistry[from].factor
           g == UnitRegistry[to].factor
<1>2. n \in Int /\ g \in Nat \ {0}
  BY <1>1
<1>3. n % g = 0
  OBVIOUS
<1> HIDE DEF n, g
<1>4. n \div g \in Int /\ (n \div g) * g = n
  BY <1>2, <1>3, SMTT(30)
<1>5. CASE from = to
  BY <1>5 DEF Convert
<1>6. CASE from # to
  BY <1>4, <1>6 DEF Convert, n, g
<1> QED BY <1>5, <1>6

LEMMA QuotientsAreOrdered ==
    ASSUME NEW m \in Int, NEW n \in Int, NEW f \in Nat \ {0}, NEW g \in Nat \ {0}, m <= n
    PROVE  (m * f) \div g <= (n * f) \div g
<1>1. m * f \in Int /\ n * f \in Int /\ m * f <= n * f
  BY SMTT(30)
<1> QED BY <1>1, SMTT(30)

LEMMA ConversionIsOrdered ==
    ASSUME NEW m \in Int, NEW n \in Int, m <= n,
           NEW from \in DOMAIN UnitRegistry, NEW to \in DOMAIN UnitRegistry
    PROVE  Convert(m, from, to) <= Convert(n, from, to)
<1>1. UnitRegistry[from].factor \in Nat \ {0} /\ UnitRegistry[to].factor \in Nat \ {0}
  BY UnitsAreReviewed
<1>2. (m * UnitRegistry[from].factor) \div UnitRegistry[to].factor
         <= (n * UnitRegistry[from].factor) \div UnitRegistry[to].factor
  BY <1>1, QuotientsAreOrdered
<1>3. CASE from = to
  BY <1>3 DEF Convert
<1>4. CASE from # to
  BY <1>2, <1>4 DEF Convert
<1> QED BY <1>3, <1>4

------------------------------------------------------------------------------
(* What a class asks for. *)

LEMMA FeatureIsOfItsName ==
    ASSUME NEW f \in DOMAIN Features
    PROVE  /\ Features[f].id = f /\ Features[f].type \in FeatureTypes
           /\ \A v \in Features[f].allowed : v.sort \in Nat
<1> DEFINE rows == {row \in Archive.featureMap : row.class = Class /\ IsLoadable(Archive, row)}
           chosen == CHOOSE row \in rows : row.feature = f
<1>1. LoadEtim(Archive)[Class] =
        [g \in {row.feature : row \in rows} |->
            FeatureOf(Archive, CHOOSE row \in rows : row.feature = g)]
  BY EvaluationAssumption DEF LoadEtim
<1>2. f \in {row.feature : row \in rows} /\ Features[f] = FeatureOf(Archive, chosen)
  BY <1>1 DEF Features
<1>3. chosen \in rows /\ chosen.feature = f
  BY <1>2
<1>4. chosen.type \in FeatureTypes
  BY <1>3 DEF IsLoadable
<1> HIDE DEF chosen
<1>5. /\ Features[f].id = chosen.feature /\ Features[f].type = chosen.type
      /\ Features[f].allowed = AllowedValues(Archive, chosen.nr)
  BY <1>2 DEF FeatureOf
<1>6. \A v \in AllowedValues(Archive, chosen.nr) : v.sort \in Nat
  BY EvaluationAssumption DEF AllowedValues
<1> QED BY <1>3, <1>4, <1>5, <1>6

LEMMA FirstAllowed ==
    ASSUME NEW feature, NEW text, \A v \in feature.allowed : v.sort \in Nat,
           AllowedAs(feature, text) # {}
    PROVE  FindAllowed(feature, text) \in AllowedAs(feature, text)
<1> DEFINE A == AllowedAs(feature, text)
           sorts == {v.sort : v \in A}
<1>1. \A v \in A : v.sort \in Nat
  BY DEF AllowedAs
<1>2. sorts \in SUBSET Nat /\ sorts # {}
  BY <1>1
<1>3. PICK m \in sorts : \A n \in sorts : m <= n
  <2> HIDE DEF sorts
  <2> QED BY <1>2, LeastNatural
<1>4. \E v \in A : \A w \in A : v.sort <= w.sort
  BY <1>3
<1> QED BY <1>4 DEF FindAllowed

------------------------------------------------------------------------------
(* What the response schema lets through, the validators accept. *)

\* The exceptions that are of one proposal.
Excepted(feature, p) ==
    \/ ~p.finite
    \/ p.unit # None /\ p.unit \notin DOMAIN UnitRegistry
    \/ /\ p.unit # feature.unit
       /\ \E u \in {p.unit, feature.unit} : UnitRegistry[u].affine
    \/ feature.type \in {"A", "L"} /\ feature.unit # None
    \/ feature.type = "R" /\ p.minimum > p.maximum

LEMMA UnitIsAccepted ==
    ASSUME NEW feature, NEW rules, NEW p,
           FollowsSchema(FeatureSchema(feature, rules), p), ~Excepted(feature, p)
    PROVE  /\ UnitProblems(feature, p.unit) = {}
           /\ feature.unit = None => p.unit = None
           /\ feature.unit # None => p.unit \in DOMAIN UnitRegistry /\ feature.unit \in DOMAIN UnitRegistry
<1> DEFINE units == AcceptedUnits(feature)
<1>1. IF units = {} THEN p.unit = None ELSE p.unit \in units
  BY DEF FollowsSchema, FeatureSchema
<1>2. /\ p.unit # None => p.unit \in DOMAIN UnitRegistry
      /\ p.unit # feature.unit => ~UnitRegistry[p.unit].affine /\ ~UnitRegistry[feature.unit].affine
  BY DEF Excepted
<1>3. CASE feature.unit = None
  <2>1. units = {}
    BY <1>3, UnitsAreReviewed DEF AcceptedUnits, IsKnown
  <2> QED BY <1>1, <1>3, <2>1 DEF UnitProblems
<1>4. CASE feature.unit # None /\ ~IsKnown(feature.unit)
  <2>1. units = {feature.unit}
    BY <1>4 DEF AcceptedUnits
  <2>2. p.unit = feature.unit
    BY <1>1, <2>1
  <2> QED BY <1>2, <1>4, <2>2 DEF IsKnown
<1>5. CASE feature.unit # None /\ IsKnown(feature.unit)
  <2>1. units = CompatibleUnits(feature.unit)
    BY <1>5 DEF AcceptedUnits
  <2>2. feature.unit \in CompatibleUnits(feature.unit)
    BY <1>5 DEF CompatibleUnits, IsKnown
  <2>3. p.unit \in CompatibleUnits(feature.unit)
    BY <1>1, <2>1, <2>2
  <2>4. p.unit \in DOMAIN UnitRegistry /\ DimensionOf(p.unit) = DimensionOf(feature.unit)
    BY <2>3 DEF CompatibleUnits
  <2>5. p.unit # None
    BY <2>4, UnitsAreReviewed
  <2>6. IsConvertible(p.unit, feature.unit)
    BY <1>2 DEF IsConvertible
  <2>7. IsKnown(p.unit)
    BY <2>4 DEF IsKnown
  <2>8. UnitProblems(feature, p.unit) = {}
    BY <1>5, <2>4, <2>5, <2>6, <2>7 DEF UnitProblems
  <2> QED BY <1>5, <2>4, <2>8 DEF IsKnown
<1> QED BY <1>3, <1>4, <1>5

LEMMA NumbersAreAccepted ==
    ASSUME NEW feature, NEW rules, NEW p, feature.type = "N",
           FollowsSchema(FeatureSchema(feature, rules), p), ~Excepted(feature, p)
    PROVE  ValueProblems(feature, p) = {} /\ IsCanonical(feature, BuildValue(feature, p))
<1>1. p.number # None
  BY DEF FollowsSchema, FeatureSchema
<1>2. UnitProblems(feature, p.unit) = {}
  BY UnitIsAccepted
<1>3. p.finite
  BY DEF Excepted
<1>4. ValueProblems(feature, p) = {}
  BY <1>1, <1>2, <1>3 DEF ValueProblems, NumberProblems
<1>5. PICK n, d : BuildValue(feature, p) = Value(NumericKey(n, feature.unit), p.raw, d)
  <2>1. CASE feature.unit = None
    BY <2>1 DEF BuildValue
  <2>2. CASE feature.unit # None
    BY <2>2 DEF BuildValue, NormalizeNumeric
  <2> QED BY <2>1, <2>2
<1>6. /\ KindOf(BuildValue(feature, p)) = "numeric"
      /\ BuildValue(feature, p).key[3] = feature.unit
  BY <1>5 DEF Value, NumericKey, KindOf
<1>7. UnitOf(BuildValue(feature, p)) = feature.unit
  BY <1>6 DEF UnitOf
<1>8. KindForType["N"] = "numeric"
  BY DEF KindForType
<1> QED BY <1>4, <1>6, <1>7, <1>8 DEF IsCanonical

LEMMA RangesAreAccepted ==
    ASSUME NEW feature, NEW rules, NEW p, feature.type = "R",
           p.minimum # None => p.minimum \in Int, p.maximum # None => p.maximum \in Int,
           FollowsSchema(FeatureSchema(feature, rules), p), ~Excepted(feature, p)
    PROVE  ValueProblems(feature, p) = {} /\ IsCanonical(feature, BuildValue(feature, p))
<1>1. p.minimum \in Int /\ p.maximum \in Int /\ p.minimum # None /\ p.maximum # None
  BY DEF FollowsSchema, FeatureSchema
<1>2. /\ UnitProblems(feature, p.unit) = {}
      /\ feature.unit # None => p.unit \in DOMAIN UnitRegistry /\ feature.unit \in DOMAIN UnitRegistry
  BY UnitIsAccepted
<1>3. p.finite /\ ~(p.minimum > p.maximum)
  BY DEF Excepted
<1>4. p.minimum <= p.maximum
  BY <1>1, <1>3
<1>5. ValueProblems(feature, p) = {}
  BY <1>1, <1>2, <1>3 DEF ValueProblems, NumberProblems
<1>6. PICK m, n, d : /\ BuildValue(feature, p) = Value(RangeKey(m, n, feature.unit), p.raw, d)
                     /\ m <= n
  <2>1. CASE feature.unit = None
    BY <1>4, <2>1 DEF BuildValue
  <2>2. CASE feature.unit # None
    <3>1. Convert(p.minimum, p.unit, feature.unit) <= Convert(p.maximum, p.unit, feature.unit)
      BY <1>1, <1>2, <1>4, <2>2, ConversionIsOrdered
    <3> QED BY <2>2, <3>1 DEF BuildValue, NormalizeRange
  <2> QED BY <2>1, <2>2
<1>7. /\ KindOf(BuildValue(feature, p)) = "range"
      /\ BuildValue(feature, p).key[4] = feature.unit
      /\ BuildValue(feature, p).key[2] = m /\ BuildValue(feature, p).key[3] = n
  BY <1>6 DEF Value, RangeKey, KindOf
<1>8. UnitOf(BuildValue(feature, p)) = feature.unit
  BY <1>7 DEF UnitOf
<1>9. KindForType["R"] = "range"
  BY DEF KindForType
<1> QED BY <1>5, <1>6, <1>7, <1>8, <1>9 DEF IsCanonical

LEMMA TextsAreAccepted ==
    ASSUME NEW feature, NEW rules, NEW p, feature.type = "A",
           \A v \in feature.allowed : v.sort \in Nat,
           FollowsSchema(FeatureSchema(feature, rules), p), ~Excepted(feature, p)
    PROVE  ValueProblems(feature, p) = {} /\ IsCanonical(feature, BuildValue(feature, p))
<1>1. /\ p.text # None
      /\ feature.allowed # {} => \E v \in feature.allowed : v.text = p.text
  BY DEF FollowsSchema, FeatureSchema
<1>2. p.unit = None
  BY UnitIsAccepted DEF Excepted
<1>3. feature.allowed # {} => AllowedAs(feature, p.text) # {}
  BY <1>1 DEF AllowedAs
<1>4. ValueProblems(feature, p) = {}
  BY <1>1, <1>2, <1>3 DEF ValueProblems
<1>5. KindForType["A"] = "alphanumeric"
  BY DEF KindForType
<1> DEFINE value == BuildAlphanumeric(feature, p)
<1>6. BuildValue(feature, p) = value
  BY DEF BuildValue
<1>7. CASE feature.allowed = {}
  <2>1. KindOf(value) = "alphanumeric"
    BY <1>7 DEF BuildAlphanumeric, Value, AlphanumericKey, KindOf
  <2> HIDE DEF value
  <2> QED BY <1>4, <1>5, <1>6, <1>7, <2>1 DEF IsCanonical
<1>8. CASE feature.allowed # {}
  <2> DEFINE v == FindAllowed(feature, p.text)
  <2>1. v \in feature.allowed
    BY <1>3, <1>8, FirstAllowed DEF AllowedAs
  <2> HIDE DEF v
  <2>2. KindOf(value) = "alphanumeric" /\ value.key[2] = v.id
    BY <1>8 DEF BuildAlphanumeric, Value, AlphanumericKey, KindOf, v
  <2> HIDE DEF value
  <2> QED BY <1>4, <1>5, <1>6, <2>1, <2>2 DEF IsCanonical
<1> QED BY <1>7, <1>8

LEMMA LogicalsAreAccepted ==
    ASSUME NEW feature, NEW rules, NEW p, feature.type = "L",
           FollowsSchema(FeatureSchema(feature, rules), p), ~Excepted(feature, p)
    PROVE  ValueProblems(feature, p) = {} /\ IsCanonical(feature, BuildValue(feature, p))
<1>1. p.boolean # None
  BY DEF FollowsSchema, FeatureSchema
<1>2. p.unit = None
  BY UnitIsAccepted DEF Excepted
<1>3. ValueProblems(feature, p) = {}
  BY <1>1, <1>2 DEF ValueProblems
<1>4. KindForType["L"] = "logical"
  BY DEF KindForType
<1> DEFINE value == BuildValue(feature, p)
<1>5. KindOf(value) = "logical"
  BY DEF BuildValue, Value, LogicalKey, KindOf
<1> HIDE DEF value
<1> QED BY <1>3, <1>4, <1>5 DEF IsCanonical, value

LEMMA ProposalsAreAccepted ==
    ASSUME NEW feature, NEW rules, NEW p, feature.type \in FeatureTypes,
           \A v \in feature.allowed : v.sort \in Nat,
           p.minimum # None => p.minimum \in Int, p.maximum # None => p.maximum \in Int,
           FollowsSchema(FeatureSchema(feature, rules), p), ~Excepted(feature, p)
    PROVE  ValueProblems(feature, p) = {} /\ IsCanonical(feature, BuildValue(feature, p))
<1>1. \/ feature.type = "N" \/ feature.type = "R"
      \/ feature.type = "A" \/ feature.type = "L"
  BY DEF FeatureTypes
<1> QED BY <1>1, NumbersAreAccepted, RangesAreAccepted, TextsAreAccepted, LogicalsAreAccepted

\* A proposal of that kind becomes a candidate, or what it binds is bound twice.
LEMMA AcceptedOrRaised ==
    ASSUME NEW set, NEW f \in DOMAIN set, f \in DOMAIN Features, NEW setting, NEW p,
           p.shape = "object",
           p.page # None => p.page \in Nat, p.page <= Pages,
           p.minimum # None => p.minimum \in Int, p.maximum # None => p.maximum \in Int,
           FollowsSchema(FeatureSchema(Features[f], setting), p), ~Excepted(Features[f], p),
           BindsOnce(p.conditions)
    PROVE  AnswerTo(f, p, set, Features, setting, Pages).answer = "candidate"
<1>1. ValueProblems(Features[f], p) = {} /\ IsCanonical(Features[f], BuildValue(Features[f], p))
  BY FeatureIsOfItsName, ProposalsAreAccepted
<1>2. IsWellFormed(p) /\ p.raw # None /\ p.page # None
  BY DEF FollowsSchema
<1>3. ~(p.page > Pages)
  BY <1>2, EvaluationAssumption
<1>4. ValidateOne(f, p, set[f], Features[f], setting, Pages) =
         Candidate(f, BuildValue(Features[f], p), PointOf(p.conditions),
                   ResolveConditions(setting, f, PointOf(p.conditions)), set[f], p.page)
  BY <1>1, <1>2, <1>3 DEF ValidateOne
<1>5. AnswerTo(f, p, set, Features, setting, Pages)
         = ValidateOne(f, p, set[f], Features[f], setting, Pages)
  BY DEF AnswerTo
<1> QED BY <1>4, <1>5 DEF Candidate

\* What a candidate is made from.
LEMMA CandidateIsBuilt ==
    ASSUME NEW f, NEW p, NEW set, NEW features, NEW setting, NEW pages,
           AnswerTo(f, p, set, features, setting, pages).answer = "candidate"
    PROVE  /\ f \in DOMAIN set /\ p.shape # "null" /\ p.shape # "other"
           /\ ValueProblems(features[f], p) = {} /\ BindsOnce(p.conditions)
           /\ AnswerTo(f, p, set, features, setting, pages) =
                Candidate(f, BuildValue(features[f], p), PointOf(p.conditions),
                          ResolveConditions(setting, f, PointOf(p.conditions)), set[f], p.page)
<1> DEFINE answer == AnswerTo(f, p, set, features, setting, pages)
<1>1. \A code : Rejected(code).answer # "candidate"
  BY DEF Rejected
<1>2. Abstained.answer # "candidate" /\ Raised.answer # "candidate"
  BY DEF Abstained, Raised
<1>3. /\ f \in DOMAIN set /\ p.shape # "null" /\ p.shape # "other"
      /\ answer = ValidateOne(f, p, set[f], features[f], setting, pages)
  BY <1>1, <1>2 DEF AnswerTo
<1> QED BY <1>1, <1>2, <1>3 DEF ValidateOne

\* Nothing raises but a qualifier bound twice.
LEMMA RaisedIsBoundTwice ==
    ASSUME NEW f, NEW p, NEW set, NEW features, NEW setting, NEW pages,
           AnswerTo(f, p, set, features, setting, pages).answer = "raised"
    PROVE  f \in DOMAIN set /\ p.shape # "null" /\ p.shape # "other" /\ ~BindsOnce(p.conditions)
<1> DEFINE answer == AnswerTo(f, p, set, features, setting, pages)
<1>1. \A code : Rejected(code).answer # "raised"
  BY DEF Rejected
<1>2. Abstained.answer # "raised"
  BY DEF Abstained
<1>3. /\ f \in DOMAIN set /\ p.shape # "null" /\ p.shape # "other"
      /\ answer = ValidateOne(f, p, set[f], features[f], setting, pages)
  BY <1>1, <1>2 DEF AnswerTo
<1>4. \A value, point, completeness, schema, page :
         Candidate(f, value, point, completeness, schema, page).answer # "raised"
  BY DEF Candidate
<1> QED BY <1>1, <1>3, <1>4 DEF ValidateOne

------------------------------------------------------------------------------
(* What is held of an extraction. *)

\* The answers are those to the payload, over the schema of the class.
ExtractionIsValid ==
    /\ \/ schemas = << >>
       \/ \E wanted \in Wanted : schemas = BuildExtractionSchema(Features, config, wanted)
    /\ \/ payload = << >> /\ answers = << >>
       \/ /\ payload \in Payloads
          /\ LET made == ValidateRawExtraction(payload, schemas, Features, config, Pages)
             IN  answers = IF IsRaised(made) THEN << >> ELSE made
    /\ phase \in {"setup", "extract"} => payload = << >> /\ answers = << >>

LEMMA EmptyDomain == DOMAIN << >> = {}
OBVIOUS

LEMMA SchemaOfFeature ==
    ASSUME ExtractionIsValid, NEW f \in DOMAIN schemas
    PROVE  f \in DOMAIN Features /\ schemas[f] = FeatureSchema(Features[f], config)
BY EmptyDomain DEF ExtractionIsValid, BuildExtractionSchema

LEMMA PayloadsAreTyped ==
    ASSUME ExtractionIsValid, NEW f \in DOMAIN payload, f \in DOMAIN schemas,
           payload[f].shape # "null", payload[f].shape # "other"
    PROVE  LET p == payload[f]
           IN  /\ p.shape = "object" /\ payload \in Payloads
               /\ p.page # None => p.page \in Nat
               /\ ConvertsExactly(p.number, p.unit)
               /\ ConvertsExactly(p.minimum, p.unit) /\ ConvertsExactly(p.maximum, p.unit)
<1>1. payload \in Payloads
  BY EmptyDomain DEF ExtractionIsValid
<1>2. payload[f].shape = "object"
  BY <1>1, EvaluationAssumption
<1> QED BY <1>1, <1>2, EvaluationAssumption

LEMMA AnswersAgree ==
    ASSUME ExtractionIsValid
    PROVE  SchemaAndValidatorAgree
<1> SUFFICES ASSUME NEW f \in DOMAIN payload, ProposedIn(f),
                    FollowsSchema(schemas[f], payload[f]), payload[f].page <= Pages,
                    ~Excepted(Features[f], payload[f]),
                    ~ \E g \in DOMAIN payload : ProposedIn(g) /\ Repeats(g)
             PROVE  f \in DOMAIN answers /\ answers[f].answer = "candidate"
  <2>1. \A f \in DOMAIN payload : ProposedIn(f) =>
           schemas[f].type = Features[f].type /\ schemas[f].unit = Features[f].unit
    BY SchemaOfFeature DEF ProposedIn, FeatureSchema
  <2> QED BY <2>1 DEF SchemaAndValidatorAgree, Excepted
<1> DEFINE p == payload[f]
           made == ValidateRawExtraction(payload, schemas, Features, config, Pages)
<1>1. /\ f \in DOMAIN schemas /\ p.shape = "object"
      /\ f \in DOMAIN Features /\ schemas[f] = FeatureSchema(Features[f], config)
  BY SchemaOfFeature DEF ProposedIn
<1>2. /\ payload \in Payloads
      /\ p.page # None => p.page \in Nat
      /\ p.minimum # None => p.minimum \in Int
      /\ p.maximum # None => p.maximum \in Int
  BY <1>1, PayloadsAreTyped DEF ConvertsExactly
<1>3. \A g \in DOMAIN payload : made[g] = AnswerTo(g, payload[g], schemas, Features, config, Pages)
  BY DEF ValidateRawExtraction
<1>4. DOMAIN made = DOMAIN payload
  BY DEF ValidateRawExtraction
<1>5. ASSUME IsRaised(made)
      PROVE  FALSE
  <2>1. PICK g \in DOMAIN payload : made[g].answer = "raised"
    BY <1>4, <1>5 DEF IsRaised
  <2>2. /\ g \in DOMAIN schemas /\ payload[g].shape # "null" /\ payload[g].shape # "other"
        /\ ~BindsOnce(payload[g].conditions)
    BY <1>3, <2>1, RaisedIsBoundTwice
  <2>3. payload[g].shape = "object"
    BY <2>2, PayloadsAreTyped
  <2> QED BY <2>2, <2>3 DEF BindsOnce, Repeats, ProposedIn
<1>6. answers = made
  <2>1. payload # << >>
    BY EmptyDomain
  <2> QED BY <1>5, <2>1 DEF ExtractionIsValid
<1>7. BindsOnce(p.conditions)
  BY DEF BindsOnce, Repeats
<1>8. made[f] = AnswerTo(f, p, schemas, Features, config, Pages)
  BY <1>3
<1>9. /\ FollowsSchema(FeatureSchema(Features[f], config), p)
      /\ ~Excepted(Features[f], p) /\ p.page <= Pages
  BY <1>1
<1> HIDE DEF made, p
<1>10. AnswerTo(f, p, schemas, Features, config, Pages).answer = "candidate"
  BY <1>1, <1>2, <1>7, <1>9, AcceptedOrRaised
<1> QED BY <1>4, <1>6, <1>8, <1>10

LEMMA QuantityIsKept ==
    ASSUME NEW feature, NEW p, NEW number \in Int,
           UnitProblems(feature, p.unit) = {}, number # None, ConvertsExactly(number, p.unit)
    PROVE  SameQuantity(IF feature.unit = None THEN number ELSE Convert(number, p.unit, feature.unit),
                        feature.unit, number, p.unit)
<1>1. CASE feature.unit = None
  <2>1. p.unit = None
    BY <1>1 DEF UnitProblems
  <2> QED BY <1>1, <2>1 DEF SameQuantity
<1>2. CASE feature.unit # None
  <2>1. /\ IsKnown(p.unit) /\ IsKnown(feature.unit)
        /\ DimensionOf(p.unit) = DimensionOf(feature.unit)
    BY <1>2 DEF UnitProblems
  <2>2. /\ p.unit \in DOMAIN UnitRegistry /\ feature.unit \in DOMAIN UnitRegistry
        /\ feature.unit \in CompatibleUnits(p.unit)
    BY <2>1 DEF IsKnown, CompatibleUnits
  <2>3. (number * UnitRegistry[p.unit].factor) % UnitRegistry[feature.unit].factor = 0
    BY <2>1, <2>2 DEF ConvertsExactly
  <2>4. Convert(number, p.unit, feature.unit) * UnitRegistry[feature.unit].factor
           = number * UnitRegistry[p.unit].factor
    BY <2>2, <2>3, ConversionIsExact
  <2> QED BY <1>2, <2>4 DEF SameQuantity
<1> QED BY <1>1, <1>2

LEMMA NumbersAreKept ==
    ASSUME NEW feature, NEW p, feature.type = "N", ValueProblems(feature, p) = {},
           ConvertsExactly(p.number, p.unit)
    PROVE  SameQuantity(BuildValue(feature, p).key[2], feature.unit, p.number, p.unit)
<1>1. p.number # None /\ UnitProblems(feature, p.unit) = {}
  BY DEF ValueProblems, NumberProblems
<1>2. p.number \in Int
  BY <1>1 DEF ConvertsExactly
<1>3. BuildValue(feature, p).key[2] =
         IF feature.unit = None THEN p.number ELSE Convert(p.number, p.unit, feature.unit)
  BY DEF BuildValue, NormalizeNumeric, Value, NumericKey
<1> QED BY <1>1, <1>2, <1>3, QuantityIsKept

LEMMA RangesAreKept ==
    ASSUME NEW feature, NEW p, feature.type = "R", ValueProblems(feature, p) = {},
           ConvertsExactly(p.minimum, p.unit), ConvertsExactly(p.maximum, p.unit)
    PROVE  /\ SameQuantity(BuildValue(feature, p).key[2], feature.unit, p.minimum, p.unit)
           /\ SameQuantity(BuildValue(feature, p).key[3], feature.unit, p.maximum, p.unit)
<1>1. p.minimum # None /\ p.maximum # None /\ UnitProblems(feature, p.unit) = {}
  BY DEF ValueProblems, NumberProblems
<1>2. p.minimum \in Int /\ p.maximum \in Int
  BY <1>1 DEF ConvertsExactly
<1>3. /\ BuildValue(feature, p).key[2] =
            IF feature.unit = None THEN p.minimum ELSE Convert(p.minimum, p.unit, feature.unit)
      /\ BuildValue(feature, p).key[3] =
            IF feature.unit = None THEN p.maximum ELSE Convert(p.maximum, p.unit, feature.unit)
  BY DEF BuildValue, NormalizeRange, Value, RangeKey
<1> QED BY <1>1, <1>2, <1>3, QuantityIsKept

LEMMA TextsAreKept ==
    ASSUME NEW feature, NEW p, feature.type = "A", ValueProblems(feature, p) = {},
           feature.allowed # {}, \A v \in feature.allowed : v.sort \in Nat
    PROVE  \E v \in feature.allowed :
              BuildValue(feature, p).key[2] = v.id /\ Fold[p.text] = Fold[v.text]
<1>1. AllowedAs(feature, p.text) # {}
  BY DEF ValueProblems
<1>2. FindAllowed(feature, p.text) \in AllowedAs(feature, p.text)
  BY <1>1, FirstAllowed
<1>3. BuildValue(feature, p).key[2] = FindAllowed(feature, p.text).id
  BY DEF BuildValue, BuildAlphanumeric, Value, AlphanumericKey
<1> QED BY <1>2, <1>3 DEF AllowedAs

LEMMA PointIsWhatIsBound ==
    ASSUME NEW conditions, BindsOnce(conditions)
    PROVE  /\ {<<conditions[i].kind, conditions[i].value>> : i \in DOMAIN conditions}
                = {<<k, PointOf(conditions)[k]>> : k \in DOMAIN PointOf(conditions)}
           /\ DOMAIN PointOf(conditions) = {conditions[i].kind : i \in DOMAIN conditions}
<1>1. DOMAIN PointOf(conditions) = {conditions[i].kind : i \in DOMAIN conditions}
  BY DEF PointOf
<1>2. \A i \in DOMAIN conditions : PointOf(conditions)[conditions[i].kind] = conditions[i].value
  <2> TAKE i \in DOMAIN conditions
  <2>1. (CHOOSE j \in DOMAIN conditions : conditions[j].kind = conditions[i].kind) = i
    BY DEF BindsOnce
  <2> QED BY <2>1 DEF PointOf
<1> QED BY <1>1, <1>2

LEMMA CandidatesAreRead ==
    ASSUME ExtractionIsValid
    PROVE  CandidatesSayWhatWasRead
<1> SUFFICES ASSUME NEW f \in Candidates
             PROVE  LET c == answers[f]
                        p == payload[f]
                        bound == {<<p.conditions[i].kind, p.conditions[i].value>> :
                                     i \in DOMAIN p.conditions}
                    IN  /\ schemas[f].type = "N" =>
                              SameQuantity(c.value.key[2], Features[f].unit, p.number, p.unit)
                        /\ schemas[f].type = "R" =>
                              /\ SameQuantity(c.value.key[2], Features[f].unit, p.minimum, p.unit)
                              /\ SameQuantity(c.value.key[3], Features[f].unit, p.maximum, p.unit)
                        /\ (schemas[f].type = "A" /\ Features[f].allowed # {}) =>
                              \E v \in Features[f].allowed :
                                  c.value.key[2] = v.id /\ Fold[p.text] = Fold[v.text]
                        /\ bound = {<<k, c.point[k]>> : k \in DOMAIN c.point}
                        /\ c.completeness = "COMPLETE" =>
                              /\ config # None /\ f \in DOMAIN config.qualifiers
                              /\ config.qualifiers[f].required \subseteq {b[1] : b \in bound}
  BY DEF CandidatesSayWhatWasRead
<1> DEFINE p == payload[f]
           made == ValidateRawExtraction(payload, schemas, Features, config, Pages)
           bound == {<<p.conditions[i].kind, p.conditions[i].value>> : i \in DOMAIN p.conditions}
<1>1. f \in DOMAIN answers /\ answers[f].answer = "candidate"
  BY DEF Candidates
<1>2. payload \in Payloads /\ answers = made
  BY <1>1, EmptyDomain DEF ExtractionIsValid
<1>3. f \in DOMAIN payload /\ answers[f] = AnswerTo(f, p, schemas, Features, config, Pages)
  BY <1>1, <1>2 DEF ValidateRawExtraction
<1>4. /\ f \in DOMAIN schemas /\ p.shape # "null" /\ p.shape # "other"
      /\ ValueProblems(Features[f], p) = {} /\ BindsOnce(p.conditions)
      /\ answers[f] = Candidate(f, BuildValue(Features[f], p), PointOf(p.conditions),
                                ResolveConditions(config, f, PointOf(p.conditions)), schemas[f], p.page)
  <2> HIDE DEF p
  <2> QED BY <1>1, <1>3, CandidateIsBuilt
<1>5. /\ answers[f].value = BuildValue(Features[f], p)
      /\ answers[f].point = PointOf(p.conditions)
      /\ answers[f].completeness = ResolveConditions(config, f, PointOf(p.conditions))
  BY <1>4 DEF Candidate
<1>6. f \in DOMAIN Features /\ schemas[f].type = Features[f].type
  BY <1>4, SchemaOfFeature DEF FeatureSchema
<1>7. /\ ConvertsExactly(p.number, p.unit)
      /\ ConvertsExactly(p.minimum, p.unit) /\ ConvertsExactly(p.maximum, p.unit)
  BY <1>3, <1>4, PayloadsAreTyped
<1>8. \A v \in Features[f].allowed : v.sort \in Nat
  BY <1>6, FeatureIsOfItsName
<1>9. /\ bound = {<<k, answers[f].point[k]>> : k \in DOMAIN answers[f].point}
      /\ DOMAIN answers[f].point = {p.conditions[i].kind : i \in DOMAIN p.conditions}
  <2> HIDE DEF p
  <2>1. /\ {<<p.conditions[i].kind, p.conditions[i].value>> : i \in DOMAIN p.conditions}
              = {<<k, PointOf(p.conditions)[k]>> : k \in DOMAIN PointOf(p.conditions)}
        /\ DOMAIN PointOf(p.conditions) = {p.conditions[i].kind : i \in DOMAIN p.conditions}
    BY <1>4, PointIsWhatIsBound
  <2> QED BY <1>5, <2>1
<1>10. DOMAIN answers[f].point \subseteq {b[1] : b \in bound}
  <2>1. \A i \in DOMAIN p.conditions :
           /\ <<p.conditions[i].kind, p.conditions[i].value>> \in bound
           /\ <<p.conditions[i].kind, p.conditions[i].value>>[1] = p.conditions[i].kind
    OBVIOUS
  <2> HIDE DEF bound, p
  <2> QED BY <1>9, <2>1
<1> HIDE DEF p, bound
<1>11. answers[f].completeness = "COMPLETE" =>
          /\ config # None /\ f \in DOMAIN config.qualifiers
          /\ config.qualifiers[f].required \subseteq {b[1] : b \in bound}
  BY <1>5, <1>9, <1>10 DEF ResolveConditions, HasRule
<1>12. schemas[f].type = "N" =>
          SameQuantity(answers[f].value.key[2], Features[f].unit, p.number, p.unit)
  BY <1>4, <1>5, <1>6, <1>7, NumbersAreKept
<1>13. schemas[f].type = "R" =>
          /\ SameQuantity(answers[f].value.key[2], Features[f].unit, p.minimum, p.unit)
          /\ SameQuantity(answers[f].value.key[3], Features[f].unit, p.maximum, p.unit)
  BY <1>4, <1>5, <1>6, <1>7, RangesAreKept
<1>14. (schemas[f].type = "A" /\ Features[f].allowed # {}) =>
          \E v \in Features[f].allowed :
              answers[f].value.key[2] = v.id /\ Fold[p.text] = Fold[v.text]
  <2>1. ASSUME Features[f].type = "A", Features[f].allowed # {}
        PROVE  \E v \in Features[f].allowed :
                  BuildValue(Features[f], p).key[2] = v.id /\ Fold[p.text] = Fold[v.text]
    BY <1>4, <1>8, <2>1, TextsAreKept
  <2> QED BY <1>5, <1>6, <2>1
<1>15. bound = {<<k, answers[f].point[k]>> : k \in DOMAIN answers[f].point}
  BY <1>9
<1> QED BY <1>11, <1>12, <1>13, <1>14, <1>15 DEF p, bound

LEMMA ExtractionIsKept ==
    ASSUME ExtractionIsValid, [Next]_vars
    PROVE  ExtractionIsValid'
<1>1. CASE SetUp
  <2>1. payload = << >> /\ answers = << >>
    BY <1>1 DEF SetUp, ExtractionIsValid
  <2>2. UNCHANGED extraction
    BY <1>1 DEF SetUp
  <2>3. \/ schemas' = << >>
        \/ \E wanted \in Wanted : schemas' = BuildExtractionSchema(Features, config', wanted)
    BY <1>1 DEF SetUp
  <2> QED BY <2>1, <2>2, <2>3 DEF ExtractionIsValid, extraction
<1>2. CASE Extract
  <2>1. UNCHANGED <<config, schemas>> /\ phase' \notin {"setup", "extract"}
    BY <1>2 DEF Extract, setup
  <2>2. PICK p \in Payloads :
           LET made == ValidateRawExtraction(p, schemas, Features, config, Pages)
           IN  payload' = p /\ answers' = IF IsRaised(made) THEN << >> ELSE made
    BY <1>2 DEF Extract
  <2>3. /\ payload' \in Payloads
        /\ LET made == ValidateRawExtraction(payload', schemas', Features, config', Pages)
           IN  answers' = IF IsRaised(made) THEN << >> ELSE made
    BY <2>1, <2>2
  <2> QED BY <2>1, <2>3 DEF ExtractionIsValid
<1>3. ASSUME UNCHANGED <<config, schemas, payload, answers>>,
             phase' \in {"setup", "extract"} => phase' = phase
      PROVE  ExtractionIsValid'
  BY <1>3 DEF ExtractionIsValid
<1>4. CASE BeginRecord
  BY <1>3, <1>4 DEF BeginRecord, setup, extraction
<1>5. CASE AcceptAttribute
  BY <1>3, <1>5 DEF AcceptAttribute, setup, extraction
<1>6. CASE WithholdAttribute
  BY <1>3, <1>6 DEF WithholdAttribute, setup, extraction
<1>7. CASE FinishRecord
  BY <1>3, <1>7 DEF FinishRecord, setup, extraction
<1>8. CASE LoadManifest
  <2>1. schemas' = << >> /\ payload' = << >> /\ answers' = << >> /\ phase' = "predict"
    BY <1>8 DEF LoadManifest
  <2> QED BY <2>1 DEF ExtractionIsValid
<1>9. CASE PredictAny
  BY <1>3, <1>9 DEF PredictAny, Predict, setup, extraction
<1>10. CASE BeginScoring
  BY <1>3, <1>10 DEF BeginScoring, setup, extraction
<1>11. CASE BeginCase
  BY <1>3, <1>11 DEF BeginCase, setup, extraction
<1>12. CASE ScoreTruth
  BY <1>3, <1>12 DEF ScoreTruth, setup, extraction
<1>13. CASE EndCase
  BY <1>3, <1>13 DEF EndCase, setup, extraction
<1>14. CASE BuildReport
  BY <1>3, <1>14 DEF BuildReport, setup, extraction
<1>15. CASE UNCHANGED vars
  BY <1>3, <1>15 DEF vars, setup, extraction
<1> QED BY <1>1, <1>2, <1>4, <1>5, <1>6, <1>7, <1>8, <1>9, <1>10, <1>11, <1>12, <1>13,
           <1>14, <1>15 DEF Next

LEMMA ExtractionInvariant == Spec => []ExtractionIsValid
<1>1. Init => ExtractionIsValid
  BY DEF Init, ExtractionIsValid
<1> QED BY <1>1, ExtractionIsKept, PTL DEF Spec

\* A proposal that the response schema lets a model make, and that cites a page
\* of the document, is accepted by the validators, but for the exceptions the
\* property names (etim/schema_gen.py, etim/validators.py, extraction/service.py).
THEOREM SchemaAndValidatorAgreeAlways == Spec => []SchemaAndValidatorAgree
BY ExtractionInvariant, AnswersAgree, PTL

\* A candidate is what the model read, in the unit the class asks for, as the
\* picklist member of that text, at the qualifiers it bound, and complete only
\* by a reviewed rule (etim/units.py, etim/validators.py).
THEOREM CandidatesSayWhatWasReadAlways == Spec => []CandidatesSayWhatWasRead
BY ExtractionInvariant, CandidatesAreRead, PTL

------------------------------------------------------------------------------
(* What is held of a record. *)

RecordIsValid == record # None => IsRecord(record)

LEMMA RecordInvariant == Spec => []RecordIsValid
<1>1. Init => RecordIsValid
  BY DEF Init, RecordIsValid
<1>2. ASSUME RecordIsValid, [Next]_vars
      PROVE  RecordIsValid'
  <2>1. CASE FinishRecord
    BY <2>1 DEF FinishRecord, RecordIsValid
  <2>2. CASE LoadManifest
    BY <2>2 DEF LoadManifest, RecordIsValid
  <2>3. CASE SetUp \/ Extract \/ BeginRecord \/ AcceptAttribute \/ WithholdAttribute
    BY <1>2, <2>3 DEF SetUp, Extract, BeginRecord, AcceptAttribute, WithholdAttribute, RecordIsValid,
                      building
  <2>4. CASE PredictAny \/ BeginScoring \/ BeginCase \/ ScoreTruth \/ EndCase \/ BuildReport
    BY <1>2, <2>4 DEF PredictAny, Predict, BeginScoring, BeginCase, ScoreTruth, EndCase, BuildReport,
                      RecordIsValid, building
  <2>5. CASE UNCHANGED vars
    BY <1>2, <2>5 DEF vars, RecordIsValid, building
  <2> QED BY <1>2, <2>1, <2>2, <2>3, <2>4, <2>5 DEF Next
<1> QED BY <1>1, <1>2, PTL DEF Spec

LEMMA LicensedIsInAGroup ==
    ASSUME NEW a, NEW e \in LicensingEvidence(a)
    PROVE  /\ a.value # None
           /\ \E i \in DOMAIN a.groups : \E j \in DOMAIN a.groups[i].members :
                 /\ SupportsValue(a.groups[i], a.value)
                 /\ e = a.groups[i].members[j] /\ e.verified /\ IsEligibleEvidence(e, a.anchor)
BY DEF LicensingEvidence, LicensingGroups, LicensingMembers

LEMMA GroupedIsLicensed ==
    ASSUME NEW a, a.value # None, NEW i \in DOMAIN a.groups, NEW j \in DOMAIN a.groups[i].members,
           SupportsValue(a.groups[i], a.value),
           a.groups[i].members[j].verified, IsEligibleEvidence(a.groups[i].members[j], a.anchor)
    PROVE  a.groups[i].members[j] \in LicensingEvidence(a)
<1>1. j \in LicensingMembers(a.groups[i], a)
  BY DEF LicensingMembers
<1>2. i \in LicensingGroups(a)
  BY <1>1 DEF LicensingGroups
<1> QED BY <1>1, <1>2 DEF LicensingEvidence

\* What licenses a value on a record is what witnesses it, and nothing else.
LEMMA LicensedIsWitness ==
    ASSUME NEW r, IsRecord(r), NEW a \in Members(r.attributes), a.status = "ACCEPTED"
    PROVE  Witnesses(a, r) = LicensingEvidence(a)
<1>1. IsAttribute(a) /\ a.value # None
  BY DEF IsRecord, IsAttribute, StatusAndValueAgree, IsAccepted
<1>2. \A g \in Members(a.groups) : IsGroup(g)
  BY <1>1 DEF IsAttribute
<1>3. IF r.identity.disposition = "EXACT" THEN Matches(a.anchor, r.identity.mpn) ELSE a.anchor = None
  BY DEF IsRecord, AnchoredToIdentity, IsExact
<1>4. ASSUME NEW e \in LicensingEvidence(a)
      PROVE  e \in Witnesses(a, r)
  <2>1. PICK i \in DOMAIN a.groups : \E j \in DOMAIN a.groups[i].members :
              /\ SupportsValue(a.groups[i], a.value)
              /\ e = a.groups[i].members[j] /\ e.verified /\ IsEligibleEvidence(e, a.anchor)
    BY LicensedIsInAGroup
  <2> DEFINE g == a.groups[i]
  <2>2. g \in Members(a.groups) /\ e \in Members(g.members)
    BY <2>1 DEF Members
  <2>3. e.page # None /\ e.observed.key = g.representative.key
    BY <1>2, <2>1, <2>2 DEF IsGroup, IsLocatable, Agrees
  <2>4. SpeaksFor(e, r)
    BY <1>3, <2>1 DEF SpeaksFor, IsEligibleEvidence, Matches
  <2>5. e.observed.key = a.value.key
        \/ (a.value.derivation # "VERBATIM" /\ g.representative.raw = a.value.raw)
    BY <2>1, <2>3 DEF SupportsValue, Agrees
  <2> HIDE DEF g
  <2> QED BY <2>1, <2>2, <2>3, <2>4, <2>5 DEF Witnesses
<1>5. ASSUME NEW e \in Witnesses(a, r)
      PROVE  e \in LicensingEvidence(a)
  <2>1. PICK g \in Members(a.groups) :
              /\ e \in Members(g.members) /\ e.verified /\ e.page # None /\ SpeaksFor(e, r)
              /\ \/ e.observed.key = a.value.key
                 \/ a.value.derivation # "VERBATIM" /\ g.representative.raw = a.value.raw
    BY DEF Witnesses
  <2>2. PICK i \in DOMAIN a.groups : g = a.groups[i]
    BY DEF Members
  <2>3. PICK j \in DOMAIN g.members : e = g.members[j]
    BY <2>1 DEF Members
  <2>4. e.observed.key = g.representative.key
    BY <1>2, <2>1 DEF IsGroup, Agrees
  <2>5. SupportsValue(g, a.value)
    BY <2>1, <2>4 DEF SupportsValue, Agrees
  <2>6. IsEligibleEvidence(e, a.anchor)
    BY <1>3, <2>1 DEF SpeaksFor, IsEligibleEvidence, Matches
  <2> QED BY <1>1, <2>1, <2>2, <2>3, <2>5, <2>6, GroupedIsLicensed
<1> QED BY <1>4, <1>5

LEMMA NothingIsMissing ==
    ASSUME NEW factors,
           Cardinality({k \in {"manufacturer", "scope", "conditions"} : ~factors[k]}) = 0
    PROVE  factors.manufacturer /\ factors.scope /\ factors.conditions
<1> DEFINE missing == {k \in {"manufacturer", "scope", "conditions"} : ~factors[k]}
<1>1. IsFiniteSet({"manufacturer", "scope", "conditions"})
  <2>1. IsFiniteSet({"manufacturer"} \cup {"scope"} \cup {"conditions"})
    BY FS_Singleton, FS_Union
  <2>2. {"manufacturer"} \cup {"scope"} \cup {"conditions"} = {"manufacturer", "scope", "conditions"}
    OBVIOUS
  <2> QED BY <2>1, <2>2
<1>2. IsFiniteSet(missing)
  BY <1>1, FS_Subset
<1>3. missing = {}
  BY <1>2, FS_EmptySet
<1> QED BY <1>3

LEMMA BestGradeIsEarned ==
    ASSUME NEW factors, SupportGrade(factors) = "A", SupportGrade(factors) # None
    PROVE  factors.manufacturer /\ factors.scope /\ factors.conditions
<1> DEFINE missing == Cardinality({k \in {"manufacturer", "scope", "conditions"} : ~factors[k]})
<1>1. missing = 0
  BY DEF SupportGrade
<1> QED BY <1>1, NothingIsMissing

LEMMA TwoDiffer ==
    ASSUME NEW S, Cardinality(S) >= 2
    PROVE  \E x, y \in S : x # y
<1> SUFFICES ASSUME \A x, y \in S : x = y PROVE FALSE
  OBVIOUS
<1>1. CASE S = {}
  BY <1>1, FS_EmptySet
<1>2. CASE S # {}
  <2>1. PICK x \in S : TRUE
    BY <1>2
  <2>2. S = {x}
    BY <2>1
  <2>3. Cardinality(S) = 1
    BY <2>2, FS_Singleton
  <2> QED BY <2>3
<1> QED BY <1>1, <1>2

LEMMA RecordsAreWitnessed ==
    ASSUME RecordIsValid
    PROVE  AcceptedIsWitnessed
<1> SUFFICES ASSUME record # None, NEW a \in Members(record.attributes), a.status = "ACCEPTED"
             PROVE  LET witnesses == Witnesses(a, record)
                    IN  /\ \E e \in witnesses :
                              \A k \in DOMAIN a.point : k \in DOMAIN e.point /\ e.point[k] = a.point[k]
                        /\ \A e \in witnesses, k \in DOMAIN a.point :
                              k \in DOMAIN e.point => e.point[k] = a.point[k]
                        /\ a.grade = "A" =>
                              /\ \E e \in witnesses : e.manufacturer
                              /\ \E e \in witnesses : e.scope = "EXACT_SKU" \/ e.proves
                        /\ record.identity.disposition # "EXACT" =>
                              \/ \E e \in witnesses : e.proves
                              \/ \E e, g \in witnesses :
                                    e.covers # None /\ g.covers # None
                                    /\ CanonicalMpn[e.covers] # CanonicalMpn[g.covers]
  BY DEF AcceptedIsWitnessed
<1> DEFINE W == LicensingEvidence(a)
<1>1. IsRecord(record) /\ IsAttribute(a) /\ IsAccepted(a)
  BY DEF RecordIsValid, IsRecord, IsAccepted
<1>2. Witnesses(a, record) = W
  BY <1>1, LicensedIsWitness
<1>3. \E e \in W : \A k \in DOMAIN a.point : k \in DOMAIN e.point /\ e.point[k] = a.point[k]
  BY <1>1 DEF IsAttribute, AcceptedHasAVerifiedSpan, BoundConditionsAreSupported, States
<1>4. \A e \in W, k \in DOMAIN a.point : k \in DOMAIN e.point => e.point[k] = a.point[k]
  BY <1>1 DEF IsAttribute, BoundConditionsAreSupported, IsCompatible, ConflictingKinds
<1>5. ASSUME a.grade = "A"
      PROVE  /\ \E e \in W : e.manufacturer
             /\ \E e \in W : e.scope = "EXACT_SKU" \/ e.proves
  <2> DEFINE factors == SupportFactors(W, a.invariance, a.completeness)
  <2>1. GradeOf(a) = "A" /\ GradeOf(a) # None
    BY <1>1, <1>5 DEF IsAttribute, GradeIsDerived, UnprovenInvarianceBlocks
  <2>2. SupportGrade(factors) = "A" /\ SupportGrade(factors) # None
    BY <2>1 DEF GradeOf
  <2>3. factors.manufacturer /\ factors.scope
    <3> HIDE DEF factors
    <3> QED BY <2>2, BestGradeIsEarned
  <2>4. /\ \E e \in {x \in W : x.verified} : e.manufacturer
        /\ \E e \in {x \in W : x.verified} : EstablishesScope(e)
    <3> HIDE DEF W
    <3> QED BY <2>3 DEF SupportFactors
  <2> QED BY <2>4 DEF EstablishesScope
<1>6. ASSUME record.identity.disposition # "EXACT"
      PROVE  \/ \E e \in W : e.proves
             \/ \E e, g \in W : /\ e.covers # None /\ g.covers # None
                               /\ CanonicalMpn[e.covers] # CanonicalMpn[g.covers]
  <2>1. a.invariance = "PROVEN"
    BY <1>1, <1>6 DEF IsRecord, NonExactIdentityGates, IsExact
  <2> DEFINE covered == {x \in W : x.scope = "EXACT_SKU" /\ x.covers # None}
             references == {CanonicalMpn[e.covers] : e \in covered}
  <2>2. (\E e \in W : e.proves) \/ Cardinality(references) >= 2
    BY <1>1, <2>1 DEF IsAttribute, ProvenInvarianceIsBacked
  <2>3. ASSUME Cardinality(references) >= 2
        PROVE  \E e, g \in covered : CanonicalMpn[e.covers] # CanonicalMpn[g.covers]
    <3>1. \E x, y \in references : x # y
      <4> HIDE DEF references
      <4> QED BY <2>3, TwoDiffer
    <3> QED BY <3>1
  <2> QED BY <2>2, <2>3
<1> HIDE DEF W
<1> QED BY <1>2, <1>3, <1>4, <1>5, <1>6

\* Every accepted value of a record is witnessed by a located span of a document
\* that speaks for the product, at the whole operating point, and nothing that
\* witnesses it contradicts that point; the best grade needs the maker's word,
\* and a record of no exact product needs proof across the family
\* (contracts/product.py, contracts/support.py).
THEOREM AcceptedIsWitnessedAlways == Spec => []AcceptedIsWitnessed
BY RecordInvariant, RecordsAreWitnessed, PTL

------------------------------------------------------------------------------
(* The attributes of a record. *)

\* Each is one its contract lets be built, over what was observed.
AttributeIsBuilt(a) ==
    /\ IsAttribute(a)
    /\ a.feature \in DOMAIN Features /\ a.applicability \in Applicabilities
    /\ DOMAIN a.groups \subseteq Nat
    /\ \A g \in Members(a.groups) :
          /\ DOMAIN g.members \subseteq Nat
          /\ \A e \in Members(g.members) : \E o \in Observations : Cited(e) = Cited(o)

AttributesAreBuilt ==
    /\ attributes \in Seq(Members(attributes))
    /\ \A a \in Members(attributes) : AttributeIsBuilt(a)

\* A record is of the attributes it was built from, until a manifest is loaded.
RecordIsOfAttributes == record # None => phase = "recorded" /\ record.attributes = attributes

LEMMA GroupsAreObserved ==
    ASSUME NEW c, NEW groups \in GroupsOver(c)
    PROVE  /\ DOMAIN groups \subseteq Nat
           /\ \A g \in Members(groups) :
                 /\ DOMAIN g.members \subseteq Nat
                 /\ \A e \in Members(g.members) : \E o \in Observations : e = EvidenceOf(o, c)
<1> DEFINE Fits(members) == /\ DOMAIN members \subseteq Nat
                            /\ \A e \in Members(members) : \E o \in Observations : e = EvidenceOf(o, c)
<1>1. ASSUME NEW o \in Observations, NEW id
      PROVE  Fits(GroupOf(id, <<EvidenceOf(o, c)>>).members)
  BY DEF GroupOf, Members
<1>2. ASSUME NEW o \in Observations, NEW q \in Observations, NEW id
      PROVE  Fits(GroupOf(id, <<EvidenceOf(o, c), EvidenceOf(q, c)>>).members)
  BY DEF GroupOf, Members
<1>3. CASE \E o \in Observations : groups = <<GroupOf(1, <<EvidenceOf(o, c)>>)>>
  <2>1. PICK o \in Observations : groups = <<GroupOf(1, <<EvidenceOf(o, c)>>)>>
    BY <1>3
  <2> DEFINE g == GroupOf(1, <<EvidenceOf(o, c)>>)
  <2>2. Fits(g.members)
    BY <1>1
  <2>3. DOMAIN <<g>> \subseteq Nat /\ Members(<<g>>) = {g}
    BY DEF Members
  <2> HIDE DEF g
  <2> QED BY <2>1, <2>2, <2>3 DEF g
<1>4. CASE \E o, q \in Observations : groups = <<GroupOf(1, <<EvidenceOf(o, c), EvidenceOf(q, c)>>)>>
  <2>1. PICK o \in Observations, q \in Observations :
             groups = <<GroupOf(1, <<EvidenceOf(o, c), EvidenceOf(q, c)>>)>>
    BY <1>4
  <2> DEFINE g == GroupOf(1, <<EvidenceOf(o, c), EvidenceOf(q, c)>>)
  <2>2. Fits(g.members)
    BY <1>2
  <2>3. DOMAIN <<g>> \subseteq Nat /\ Members(<<g>>) = {g}
    BY DEF Members
  <2> HIDE DEF g
  <2> QED BY <2>1, <2>2, <2>3 DEF g
<1>5. CASE \E o, q \in Observations :
              groups = <<GroupOf(1, <<EvidenceOf(o, c)>>), GroupOf(2, <<EvidenceOf(q, c)>>)>>
  <2>1. PICK o \in Observations, q \in Observations :
             groups = <<GroupOf(1, <<EvidenceOf(o, c)>>), GroupOf(2, <<EvidenceOf(q, c)>>)>>
    BY <1>5
  <2> DEFINE g == GroupOf(1, <<EvidenceOf(o, c)>>)
             h == GroupOf(2, <<EvidenceOf(q, c)>>)
  <2>2. Fits(g.members) /\ Fits(h.members)
    BY <1>1
  <2>3. DOMAIN <<g, h>> \subseteq Nat /\ Members(<<g, h>>) = {g, h}
    BY DEF Members
  <2> HIDE DEF g, h
  <2> QED BY <2>1, <2>2, <2>3 DEF g, h
<1> QED BY <1>3, <1>4, <1>5 DEF GroupsOver

LEMMA AppendedIsBuilt ==
    ASSUME NEW s, s \in Seq(Members(s)), NEW a
    PROVE  /\ Append(s, a) \in Seq(Members(Append(s, a)))
           /\ Members(Append(s, a)) = Members(s) \cup {a}
<1> DEFINE T == Members(s) \cup {a}
           t == Append(s, a)
<1>1. s \in Seq(T)
  BY SeqMonotonic
<1>2. t \in Seq(T) /\ Len(t) = Len(s) + 1 /\ Len(s) \in Nat /\ DOMAIN s = 1..Len(s)
  BY <1>1, LenProperties
<1>3. DOMAIN t = 1..(Len(s) + 1)
  BY <1>2, LenProperties
<1>4. /\ t[Len(s) + 1] = a
      /\ \A i \in 1..Len(s) : t[i] = s[i]
  BY <1>1, <1>2
<1> HIDE DEF t
<1>5. Members(t) = T
  BY <1>2, <1>3, <1>4 DEF Members
<1> QED BY <1>2, <1>5 DEF t

\* What is cited for an accepted value was located.
LEMMA AcceptedIsCited ==
    ASSUME NEW a, AttributeIsBuilt(a), IsAccepted(a)
    PROVE  /\ PredictedAttribute(a).verified
           /\ PredictedAttribute(a).citation # None
           /\ PredictedAttribute(a).citation.verified /\ PredictedAttribute(a).citation.page # None
<1>1. LicensingEvidence(a) # {}
  BY DEF AttributeIsBuilt, IsAttribute, AcceptedHasAVerifiedSpan
<1>2. LicensingGroups(a) # {} /\ LicensingGroups(a) \in SUBSET Nat
  BY <1>1 DEF LicensingEvidence, LicensingGroups, AttributeIsBuilt
<1> DEFINE i == FirstPlace(LicensingGroups(a))
           g == a.groups[i]
           j == FirstPlace(LicensingMembers(g, a))
           e == g.members[j]
<1>3. i \in LicensingGroups(a)
  BY <1>2, FirstPlaceIsOne
<1> HIDE DEF i
<1>4. i \in DOMAIN a.groups /\ LicensingMembers(g, a) # {} /\ g \in Members(a.groups)
  BY <1>3 DEF LicensingGroups, Members
<1> HIDE DEF g
<1>5. LicensingMembers(g, a) \in SUBSET Nat
  BY <1>4 DEF LicensingMembers, AttributeIsBuilt
<1>6. j \in LicensingMembers(g, a)
  BY <1>4, <1>5, FirstPlaceIsOne
<1> HIDE DEF j
<1>7. e.verified /\ e \in Members(g.members)
  BY <1>6 DEF LicensingMembers, Members
<1> HIDE DEF e
<1>8. e.page # None
  BY <1>4, <1>7 DEF AttributeIsBuilt, IsAttribute, IsGroup, IsLocatable
<1>9. PICK o \in Observations : Cited(e) = Cited(o)
  BY <1>4, <1>7 DEF AttributeIsBuilt
<1>10. Cited(e) # None
  BY <1>9, EvaluationAssumption
<1>11. FirstLicensingEvidence(a) = e
  BY DEF FirstLicensingEvidence, e, j, g, i
<1>12. PredictedAttribute(a).citation = Cited(e) /\ PredictedAttribute(a).verified
  BY <1>1, <1>11 DEF PredictedAttribute, CitationOf
<1> QED BY <1>7, <1>8, <1>10, <1>12 DEF Cited

LEMMA CandidateIsAFeature ==
    ASSUME ExtractionIsValid, NEW f \in Candidates
    PROVE  f \in DOMAIN Features
<1> DEFINE made == ValidateRawExtraction(payload, schemas, Features, config, Pages)
<1>1. f \in DOMAIN answers /\ answers[f].answer = "candidate"
  BY DEF Candidates
<1>2. answers = made
  BY <1>1, EmptyDomain DEF ExtractionIsValid
<1>3. AnswerTo(f, payload[f], schemas, Features, config, Pages).answer = "candidate"
  BY <1>1, <1>2 DEF ValidateRawExtraction
<1>4. f \in DOMAIN schemas
  BY <1>3, CandidateIsBuilt
<1> QED BY <1>4, SchemaOfFeature

LEMMA AttributesAreKept ==
    ASSUME ExtractionIsValid, AttributesAreBuilt, [Next]_vars
    PROVE  AttributesAreBuilt'
<1>1. ASSUME NEW a, AttributeIsBuilt(a), attributes' = Append(attributes, a)
      PROVE  AttributesAreBuilt'
  <2>1. /\ attributes' \in Seq(Members(attributes'))
        /\ Members(attributes') = Members(attributes) \cup {a}
    BY <1>1, AppendedIsBuilt DEF AttributesAreBuilt
  <2> QED BY <1>1, <2>1 DEF AttributesAreBuilt
<1>2. CASE attributes' = attributes
  BY <1>2 DEF AttributesAreBuilt
<1>3. CASE AcceptAttribute
  <2>1. PICK f \in Candidates : \E groups \in GroupsOver(answers[f]) : \E a :
             /\ a.feature = f /\ a.applicability = "APPLICABLE" /\ a.groups = groups
             /\ IsAttribute(a) /\ attributes' = Append(attributes, a)
    BY <1>3 DEF AcceptAttribute
  <2>2. PICK groups \in GroupsOver(answers[f]) : \E a :
             /\ a.feature = f /\ a.applicability = "APPLICABLE" /\ a.groups = groups
             /\ IsAttribute(a) /\ attributes' = Append(attributes, a)
    BY <2>1
  <2>3. PICK a : /\ a.feature = f /\ a.applicability = "APPLICABLE" /\ a.groups = groups
                 /\ IsAttribute(a) /\ attributes' = Append(attributes, a)
    BY <2>2
  <2>4. /\ DOMAIN groups \subseteq Nat
        /\ \A g \in Members(groups) :
              /\ DOMAIN g.members \subseteq Nat
              /\ \A e \in Members(g.members) : \E o \in Observations : e = EvidenceOf(o, answers[f])
    BY GroupsAreObserved
  <2>5. \A o : Cited(EvidenceOf(o, answers[f])) = Cited(o)
    BY DEF Cited, EvidenceOf
  <2>6. f \in DOMAIN Features
    BY CandidateIsAFeature
  <2>7. \A g \in Members(groups) : \A e \in Members(g.members) : \E o \in Observations : Cited(e) = Cited(o)
    <3> SUFFICES ASSUME NEW g \in Members(groups), NEW e \in Members(g.members)
                 PROVE  \E o \in Observations : Cited(e) = Cited(o)
      OBVIOUS
    <3>1. PICK o \in Observations : e = EvidenceOf(o, answers[f])
      BY <2>4
    <3> QED BY <2>5, <3>1
  <2>8. a.applicability \in Applicabilities
    BY <2>3 DEF Applicabilities
  <2>9. AttributeIsBuilt(a)
    BY <2>3, <2>4, <2>6, <2>7, <2>8 DEF AttributeIsBuilt
  <2> QED BY <1>1, <2>3, <2>9
<1>4. CASE WithholdAttribute
  <2>1. PICK f \in DOMAIN schemas : \E a :
             /\ a.feature = f /\ a.applicability \in Applicabilities /\ a.groups = << >>
             /\ IsAttribute(a) /\ attributes' = Append(attributes, a)
    BY <1>4 DEF WithholdAttribute
  <2>2. PICK a : /\ a.feature = f /\ a.applicability \in Applicabilities /\ a.groups = << >>
                 /\ IsAttribute(a) /\ attributes' = Append(attributes, a)
    BY <2>1
  <2>3. DOMAIN a.groups = {} /\ Members(a.groups) = {}
    BY <2>2, EmptyDomain DEF Members
  <2>4. f \in DOMAIN Features
    BY SchemaOfFeature
  <2>5. AttributeIsBuilt(a)
    BY <2>2, <2>3, <2>4 DEF AttributeIsBuilt
  <2> QED BY <1>1, <2>2, <2>5
<1>5. CASE LoadManifest
  <2>1. attributes' = << >> /\ Members(<< >>) = {}
    BY <1>5, EmptyDomain DEF LoadManifest, Members
  <2> QED BY <2>1, EmptySeq DEF AttributesAreBuilt
<1>6. CASE SetUp \/ Extract \/ BeginRecord \/ FinishRecord
  BY <1>2, <1>6 DEF SetUp, Extract, BeginRecord, FinishRecord, building
<1>7. CASE PredictAny \/ BeginScoring \/ BeginCase \/ ScoreTruth \/ EndCase \/ BuildReport
  BY <1>2, <1>7 DEF PredictAny, Predict, BeginScoring, BeginCase, ScoreTruth, EndCase, BuildReport, building
<1>8. CASE UNCHANGED vars
  BY <1>2, <1>8 DEF vars, building
<1> QED BY <1>3, <1>4, <1>5, <1>6, <1>7, <1>8 DEF Next

LEMMA RecordOfAttributesIsKept ==
    ASSUME RecordIsOfAttributes, [Next]_vars
    PROVE  RecordIsOfAttributes'
<1>1. CASE FinishRecord
  BY <1>1 DEF FinishRecord, RecordIsOfAttributes
<1>2. CASE LoadManifest
  BY <1>2 DEF LoadManifest, RecordIsOfAttributes
<1>3. CASE SetUp \/ Extract \/ BeginRecord \/ AcceptAttribute \/ WithholdAttribute
  BY <1>3 DEF SetUp, Extract, BeginRecord, AcceptAttribute, WithholdAttribute, RecordIsOfAttributes, building
<1>4. CASE PredictAny \/ BeginScoring \/ BeginCase \/ BuildReport
  BY <1>4 DEF PredictAny, Predict, BeginScoring, BeginCase, BuildReport, RecordIsOfAttributes, building
<1>5. CASE ScoreTruth \/ EndCase
  BY <1>5 DEF ScoreTruth, EndCase, RecordIsOfAttributes, building
<1>6. CASE UNCHANGED vars
  BY <1>6 DEF vars, RecordIsOfAttributes, building
<1> QED BY <1>1, <1>2, <1>3, <1>4, <1>5, <1>6 DEF Next

------------------------------------------------------------------------------
(* The predictions. *)

IsCited(a) ==
    a.status = "ACCEPTED" => a.verified /\ a.citation # None /\ a.citation.verified /\ a.citation.page # None

PredictionIsTyped(p) ==
    /\ p.outcome \in Outcomes
    /\ p.attributes \in Seq(Members(p.attributes))
    /\ \A a \in Members(p.attributes) : a.grade \in Grades \cup {None}
    /\ p.system = "skutruth" => \A a \in Members(p.attributes) : IsCited(a)

PredictionsAreTyped ==
    /\ manifest = << >> \/ manifest \in Manifests
    /\ \A case \in Members(manifest) : IsCase(case)
    /\ DOMAIN predictions \subseteq CaseIds
    /\ \A id \in DOMAIN predictions : PredictionIsTyped(predictions[id])

LEMMA RecordsArePredicted ==
    ASSUME AttributesAreBuilt, NEW r, r.attributes = attributes
    PROVE  PredictionIsTyped(PredictionFromRecord(r))
<1> DEFINE predicted == [k \in DOMAIN attributes |-> PredictedAttribute(attributes[k])]
           P == Members(predicted)
<1>1. /\ PredictionFromRecord(r).attributes = predicted
      /\ PredictionFromRecord(r).outcome = "SCORED"
  BY DEF PredictionFromRecord
<1>2. attributes \in [1..Len(attributes) -> Members(attributes)] /\ Len(attributes) \in Nat
  BY LenProperties DEF AttributesAreBuilt
<1>3. predicted \in Seq(P)
  <2>1. DOMAIN predicted = 1..Len(attributes) /\ predicted \in [1..Len(attributes) -> P]
    BY <1>2 DEF Members
  <2> QED BY <1>2, <2>1, SeqDef
<1>4. \A b \in P : \E a \in Members(attributes) : b = PredictedAttribute(a)
  BY DEF Members
<1>5. ASSUME NEW a \in Members(attributes)
      PROVE  /\ PredictedAttribute(a).grade \in Grades \cup {None}
             /\ IsCited(PredictedAttribute(a))
  <2>1. AttributeIsBuilt(a)
    BY DEF AttributesAreBuilt
  <2>2. \A factors : SupportGrade(factors) \in Grades \cup {None}
    BY DEF SupportGrade, Grades
  <2>3. a.grade \in Grades \cup {None}
    BY <2>1, <2>2 DEF AttributeIsBuilt, IsAttribute, GradeIsDerived, GradeOf
  <2>4. IsAccepted(a) <=> PredictedAttribute(a).status = "ACCEPTED"
    BY DEF IsAccepted, PredictedAttribute
  <2>5. IsCited(PredictedAttribute(a))
    BY <2>1, <2>4, AcceptedIsCited DEF IsCited
  <2>6. PredictedAttribute(a).grade = a.grade
    BY DEF PredictedAttribute
  <2> QED BY <2>3, <2>5, <2>6
<1> HIDE DEF predicted
<1> QED BY <1>1, <1>3, <1>4, <1>5 DEF PredictionIsTyped, Outcomes

LEMMA OthersArePredicted ==
    /\ \A b \in Baselines : PredictionIsTyped(b)
    /\ \A i : PredictionIsTyped(PredictionFromIdentity(i))
    /\ PredictionIsTyped(Failure)
<1>1. << >> \in Seq(Members(<< >>)) /\ Members(<< >>) = {}
  BY EmptySeq, EmptyDomain DEF Members
<1>2. PredictionIsTyped(Failure)
  BY <1>1 DEF PredictionIsTyped, Failure, Outcomes
<1>3. \A i : PredictionIsTyped(PredictionFromIdentity(i))
  BY <1>1 DEF PredictionIsTyped, PredictionFromIdentity, Outcomes
<1>4. \A b \in Baselines : PredictionIsTyped(b)
  BY EvaluationAssumption DEF PredictionIsTyped
<1> QED BY <1>2, <1>3, <1>4

LEMMA PredictionsAreKept ==
    ASSUME AttributesAreBuilt, RecordIsOfAttributes, PredictionsAreTyped, [Next]_vars
    PROVE  PredictionsAreTyped'
<1>1. CASE LoadManifest
  <2>1. PICK m \in Manifests :
             /\ manifest' = m /\ \A case \in Members(m) : IsCase(case)
             /\ predictions' = IF record = None THEN << >>
                               ELSE [c \in {m[k].id : k \in DOMAIN m \cap {1}} |-> PredictionFromRecord(record)]
    BY <1>1 DEF LoadManifest
  <2>2. CASE record = None
    BY <2>1, <2>2, EmptyDomain DEF PredictionsAreTyped
  <2>3. CASE record # None
    <3>1. PredictionIsTyped(PredictionFromRecord(record))
      BY <2>3, RecordsArePredicted DEF RecordIsOfAttributes
    <3>2. DOMAIN predictions' \subseteq {m[k].id : k \in DOMAIN m}
      BY <2>1, <2>3
    <3>3. CaseIds' = {m[k].id : k \in DOMAIN m}
      BY <2>1 DEF CaseIds, Members
    <3>4. \A id \in DOMAIN predictions' : predictions'[id] = PredictionFromRecord(record)
      BY <2>1, <2>3
    <3> QED BY <2>1, <3>1, <3>2, <3>3, <3>4 DEF PredictionsAreTyped
  <2> QED BY <2>2, <2>3
<1>2. CASE PredictAny
  <2>1. PICK id \in CaseIds : \E p : Predict(id, p) /\ PredictionIsTyped(p)
    BY <1>2, OthersArePredicted DEF PredictAny
  <2>2. PICK p : Predict(id, p) /\ PredictionIsTyped(p)
    BY <2>1
  <2>3. /\ manifest' = manifest
        /\ predictions' = [c \in DOMAIN predictions \cup {id} |-> IF c = id THEN p ELSE predictions[c]]
    BY <2>2 DEF Predict
  <2>4. CaseIds' = CaseIds
    BY <2>3 DEF CaseIds
  <2> QED BY <2>2, <2>3, <2>4 DEF PredictionsAreTyped
<1>3. CASE UNCHANGED <<manifest, predictions>>
  BY <1>3 DEF PredictionsAreTyped, CaseIds
<1>4. CASE SetUp \/ Extract \/ BeginRecord \/ AcceptAttribute \/ WithholdAttribute \/ FinishRecord
  BY <1>3, <1>4 DEF SetUp, Extract, BeginRecord, AcceptAttribute, WithholdAttribute, FinishRecord, predicting
<1>5. CASE BeginScoring \/ BeginCase \/ ScoreTruth \/ EndCase \/ BuildReport
  BY <1>3, <1>5 DEF BeginScoring, BeginCase, ScoreTruth, EndCase, BuildReport, predicting
<1>6. CASE UNCHANGED vars
  BY <1>3, <1>6 DEF vars, predicting
<1> QED BY <1>1, <1>2, <1>4, <1>5, <1>6 DEF Next

------------------------------------------------------------------------------
(* The cases of a split. *)

\* The set can be counted upwards.
IsOrdered(S) == \E f \in [1..Cardinality(S) -> S] : \A i, j \in DOMAIN f : i < j => f[i] < f[j]

LEMMA OneMoreIsOrdered ==
    ASSUME NEW S, IsFiniteSet(S), S \in SUBSET Nat, IsOrdered(S),
           NEW n \in Nat, \A x \in S : x < n
    PROVE  IsOrdered(S \cup {n})
<1> DEFINE T == S \cup {n}
           c == Cardinality(S)
<1>1. c \in Nat /\ Cardinality(T) = c + 1
  <2>1. n \notin S
    OBVIOUS
  <2> QED BY <2>1, FS_CardinalityType, FS_AddElement
<1>2. PICK f \in [1..c -> S] : \A i, j \in DOMAIN f : i < j => f[i] < f[j]
  BY DEF IsOrdered
<1> DEFINE g == [i \in 1..(c + 1) |-> IF i = c + 1 THEN n ELSE f[i]]
<1> HIDE DEF c
<1>3. g \in [1..(c + 1) -> T]
  <2>1. \A i \in 1..(c + 1) : i # c + 1 => i \in 1..c
    BY <1>1
  <2> QED BY <1>2, <2>1
<1>4. ASSUME NEW i \in 1..(c + 1), NEW j \in 1..(c + 1), i < j
      PROVE  g[i] < g[j]
  <2>1. i \in 1..c /\ i # c + 1
    BY <1>1, <1>4
  <2>2. g[i] = f[i] /\ f[i] \in S
    BY <1>2, <2>1
  <2>3. CASE j = c + 1
    BY <2>2, <2>3
  <2>4. CASE j # c + 1
    <3>1. j \in 1..c
      BY <1>1, <2>4
    <3>2. g[j] = f[j]
      BY <2>4
    <3> QED BY <1>2, <1>4, <2>1, <2>2, <3>1, <3>2
  <2> QED BY <2>3, <2>4
<1> QED BY <1>1, <1>3, <1>4 DEF IsOrdered, c

LEMMA PlacesAreOrdered ==
    ASSUME NEW n \in Nat, NEW S \in SUBSET (1..n)
    PROVE  IsOrdered(S)
<1> DEFINE Ordered(m) == \A T \in SUBSET (1..m) : IsOrdered(T)
           others == {m \in Nat : ~Ordered(m)}
<1>1. Ordered(0)
  <2>1. \A T \in SUBSET (1..0) : T = {}
    OBVIOUS
  <2>2. IsOrdered({})
    <3>1. Cardinality({}) = 0
      BY FS_EmptySet
    <3>2. [k \in 1..0 |-> k] \in [1..0 -> {}]
      OBVIOUS
    <3> QED BY <3>1, <3>2 DEF IsOrdered
  <2> QED BY <2>1, <2>2
<1>2. ASSUME NEW m \in Nat, Ordered(m)
      PROVE  Ordered(m + 1)
  <2> SUFFICES ASSUME NEW T \in SUBSET (1..(m + 1)) PROVE IsOrdered(T)
    OBVIOUS
  <2>1. CASE m + 1 \notin T
    <3>1. T \in SUBSET (1..m)
      BY <2>1
    <3> QED BY <1>2, <3>1
  <2>2. CASE m + 1 \in T
    <3> DEFINE R == T \ {m + 1}
    <3>1. R \in SUBSET (1..m) /\ T = R \cup {m + 1}
      BY <2>2
    <3>2. IsOrdered(R)
      BY <1>2, <3>1
    <3>3. R \in SUBSET Nat /\ \A x \in R : x < m + 1
      BY <3>1
    <3>4. m + 1 \in Nat /\ IsFiniteSet(1..m)
      BY FS_Interval
    <3> DEFINE k == m + 1
    <3> HIDE DEF R, k
    <3>5. IsFiniteSet(R)
      BY <3>1, <3>4, FS_Subset
    <3>6. IsOrdered(R \cup {k})
      BY <3>2, <3>3, <3>4, <3>5, OneMoreIsOrdered DEF k
    <3> QED BY <3>1, <3>6 DEF k
  <2> QED BY <2>1, <2>2
<1>3. others = {}
  <2> SUFFICES ASSUME others # {} PROVE FALSE
    OBVIOUS
  <2>1. PICK m \in others : \A k \in others : m <= k
    <3>1. others \in SUBSET Nat
      OBVIOUS
    <3> HIDE DEF others
    <3> QED BY <3>1, LeastNatural
  <2> HIDE DEF Ordered
  <2>2. m # 0
    BY <1>1, <2>1
  <2>3. m - 1 \in Nat /\ m - 1 \notin others
    BY <2>1, <2>2
  <2>4. Ordered(m - 1)
    BY <2>3
  <2>5. Ordered((m - 1) + 1)
    BY <1>2, <2>3, <2>4
  <2>6. (m - 1) + 1 = m
    BY <2>1
  <2> QED BY <2>1, <2>5, <2>6
<1> HIDE DEF Ordered
<1>4. Ordered(n)
  BY <1>3
<1> QED BY <1>4 DEF Ordered

LEMMA ManifestIsASequence ==
    ASSUME PredictionsAreTyped
    PROVE  /\ Len(manifest) \in Nat /\ DOMAIN manifest = 1..Len(manifest)
           /\ \A c \in Members(manifest) :
                 /\ Len(c.truths) \in Nat /\ DOMAIN c.truths = 1..Len(c.truths)
                 /\ \A t \in Members(c.truths) : t.applicability \in Applicabilities
<1>1. CASE manifest = << >>
  <2>1. Members(<< >>) = {}
    BY EmptyDomain DEF Members
  <2>2. Len(<< >>) = 0 /\ DOMAIN << >> = 1..0
    BY EmptySeq, EmptyDomain
  <2> QED BY <1>1, <2>1, <2>2
<1>2. CASE manifest \in Manifests
  <2>1. manifest \in Seq(Members(manifest))
    BY <1>2, EvaluationAssumption
  <2>2. \A c \in Members(manifest) : c.truths \in Seq(Members(c.truths))
    BY <1>2, EvaluationAssumption
  <2>3. \A c \in Members(manifest) : Len(c.truths) \in Nat /\ DOMAIN c.truths = 1..Len(c.truths)
    BY <2>2, LenProperties
  <2>4. \A c \in Members(manifest) : \A t \in Members(c.truths) : t.applicability \in Applicabilities
    BY <1>2, EvaluationAssumption
  <2> QED BY <2>1, <2>3, <2>4, LenProperties
<1> QED BY <1>1, <1>2 DEF PredictionsAreTyped

CasesAreTyped ==
    /\ Len(Cases) \in Nat /\ DOMAIN Cases = 1..Len(Cases)
    /\ \A k \in DOMAIN Cases :
          /\ Cases[k] \in Members(manifest)
          /\ Len(Cases[k].truths) \in Nat /\ DOMAIN Cases[k].truths = 1..Len(Cases[k].truths)
          /\ \A i \in DOMAIN Cases[k].truths : Cases[k].truths[i].applicability \in Applicabilities

LEMMA CasesAreOfTheManifest ==
    ASSUME PredictionsAreTyped
    PROVE  CasesAreTyped
<1> DEFINE places == {k \in DOMAIN manifest : manifest[k].split = split}
           of == InOrder(places)
           c == Cardinality(places)
<1>1. places \in SUBSET (1..Len(manifest)) /\ Len(manifest) \in Nat
  BY ManifestIsASequence
<1>2. IsFiniteSet(places)
  BY <1>1, FS_Interval, FS_Subset
<1>3. c \in Nat
  BY <1>2, FS_CardinalityType
<1>4. of \in [1..c -> places]
  <2>1. IsOrdered(places)
    <3> HIDE DEF places
    <3> QED BY <1>1, PlacesAreOrdered
  <2> HIDE DEF places
  <2> QED BY <2>1 DEF IsOrdered, InOrder
<1>5. Cases = [k \in DOMAIN of |-> manifest[of[k]]]
  BY DEF Cases, ForSplit
<1>6. \A k \in 1..c : of[k] \in DOMAIN manifest
  BY <1>4
<1> HIDE DEF of, c, places
<1>7. Cases \in [1..c -> Members(manifest)]
  BY <1>4, <1>5, <1>6 DEF Members
<1>8. Cases \in Seq(Members(manifest))
  BY <1>3, <1>7, SeqDef
<1>9. Len(Cases) \in Nat /\ DOMAIN Cases = 1..Len(Cases)
  BY <1>8, LenProperties
<1>10. ASSUME NEW k \in DOMAIN Cases
       PROVE  /\ Cases[k] \in Members(manifest)
              /\ Len(Cases[k].truths) \in Nat /\ DOMAIN Cases[k].truths = 1..Len(Cases[k].truths)
              /\ \A i \in DOMAIN Cases[k].truths : Cases[k].truths[i].applicability \in Applicabilities
  <2> DEFINE case == Cases[k]
  <2>1. case \in Members(manifest)
    BY <1>7
  <2> HIDE DEF case
  <2>2. /\ Len(case.truths) \in Nat /\ DOMAIN case.truths = 1..Len(case.truths)
        /\ \A t \in Members(case.truths) : t.applicability \in Applicabilities
    BY <2>1, ManifestIsASequence
  <2>3. \A i \in DOMAIN case.truths : case.truths[i] \in Members(case.truths)
    BY DEF Members
  <2> QED BY <2>1, <2>2, <2>3 DEF case
<1> QED BY <1>9, <1>10 DEF CasesAreTyped

LEMMA CasesAreOfTheSplit ==
    ASSUME UNCHANGED <<manifest, split>>
    PROVE  Cases' = Cases
BY DEF Cases

------------------------------------------------------------------------------
(* Where a run is. *)

RunIsInPlace ==
    /\ phase \in Phases
    /\ phase \notin {"score", "done"} => acc = ScoreAccumulator /\ position = 1 /\ place = 0
    /\ position \in 1..(Len(Cases) + 1)
    /\ IF position > Len(Cases) THEN place = 0 ELSE place \in 0..(Len(Cases[position].truths) + 1)
    /\ place > 0 => phase = "score"
    /\ report # None => phase = "done"

LEMMA PlaceIsKept ==
    ASSUME PredictionsAreTyped, CasesAreTyped', RunIsInPlace, [Next]_vars
    PROVE  RunIsInPlace'
<1>1. Len(Cases) \in Nat /\ DOMAIN Cases = 1..Len(Cases)
  BY CasesAreOfTheManifest DEF CasesAreTyped
<1>2. Len(Cases') \in Nat
  BY DEF CasesAreTyped
<1>3. UNCHANGED <<manifest, split>> => Cases' = Cases
  BY CasesAreOfTheSplit
<1>4. ASSUME phase' \in Phases \ {"score", "done"}, phase \notin {"score", "done"},
             UNCHANGED <<position, place, acc, report>>
      PROVE  RunIsInPlace'
  <2>1. acc' = ScoreAccumulator /\ position' = 1 /\ place' = 0
    BY <1>4 DEF RunIsInPlace
  <2>2. report' = None
    BY <1>4 DEF RunIsInPlace
  <2>3. IF 1 > Len(Cases') THEN TRUE ELSE Len(Cases'[1].truths) \in Nat
    BY <1>2 DEF CasesAreTyped
  <2>4. /\ position' \in 1..(Len(Cases') + 1)
        /\ IF position' > Len(Cases') THEN place' = 0
           ELSE place' \in 0..(Len(Cases'[position'].truths) + 1)
    BY <1>2, <2>1, <2>3
  <2> QED BY <1>4, <2>1, <2>2, <2>4 DEF RunIsInPlace
<1>5. CASE SetUp \/ Extract \/ BeginRecord \/ FinishRecord
  BY <1>4, <1>5 DEF SetUp, Extract, BeginRecord, FinishRecord, scoring, Phases
<1>6. CASE AcceptAttribute \/ WithholdAttribute
  BY <1>4, <1>6 DEF AcceptAttribute, WithholdAttribute, scoring, Phases
<1>7. CASE LoadManifest
  BY <1>4, <1>7 DEF LoadManifest, scoring, Phases
<1>8. CASE PredictAny
  BY <1>4, <1>8 DEF PredictAny, Predict, scoring, Phases
<1>9. ASSUME UNCHANGED <<manifest, split>>, UNCHANGED <<position, place, report>>,
             acc' = acc, phase' = phase \/ (phase = "predict" /\ phase' = "score")
      PROVE  RunIsInPlace'
  BY <1>3, <1>9 DEF RunIsInPlace, Phases
<1>10. CASE BeginScoring
  BY <1>9, <1>10 DEF BeginScoring, scoring, predicting
<1>11. CASE BeginCase
  <2>1. /\ phase = "score" /\ place = 0 /\ position <= Len(Cases) /\ place' = 1
        /\ UNCHANGED <<manifest, split>> /\ UNCHANGED <<phase, position, report>>
    BY <1>11 DEF BeginCase, predicting
  <2>2. position \in 1..Len(Cases)
    BY <1>1, <2>1 DEF RunIsInPlace
  <2>3. Len(Cases[position].truths) \in Nat
    BY <2>2, CasesAreOfTheManifest DEF CasesAreTyped
  <2> QED BY <1>1, <1>3, <2>1, <2>2, <2>3 DEF RunIsInPlace
<1>12. CASE ScoreTruth
  <2>1. /\ place > 0 /\ place <= Len(Cases[position].truths) /\ place' = place + 1
        /\ UNCHANGED <<manifest, split>> /\ UNCHANGED <<phase, position, report>>
    BY <1>12 DEF ScoreTruth, predicting
  <2>2. position \in 1..Len(Cases)
    BY <1>1, <2>1 DEF RunIsInPlace
  <2>3. Len(Cases[position].truths) \in Nat
    BY <2>2, CasesAreOfTheManifest DEF CasesAreTyped
  <2> QED BY <1>1, <1>3, <2>1, <2>2, <2>3 DEF RunIsInPlace
<1>13. CASE EndCase
  <2>1. /\ place > 0 /\ place' = 0 /\ position' = position + 1
        /\ UNCHANGED <<manifest, split>> /\ UNCHANGED <<phase, report>>
    BY <1>13 DEF EndCase, predicting
  <2>2. position \in 1..Len(Cases) /\ phase = "score"
    BY <1>1, <2>1 DEF RunIsInPlace
  <2>3. /\ Cases' = Cases /\ position' \in 1..(Len(Cases) + 1)
        /\ position' > Len(Cases) \/ Len(Cases[position'].truths) \in Nat
    BY <1>1, <1>3, <2>1, <2>2, CasesAreOfTheManifest DEF CasesAreTyped
  <2> QED BY <1>1, <2>1, <2>2, <2>3 DEF RunIsInPlace
<1>14. CASE BuildReport
  <2>1. /\ phase = "score" /\ phase' = "done" /\ place = 0
        /\ UNCHANGED <<manifest, split>> /\ UNCHANGED <<position, place>>
    BY <1>14 DEF BuildReport, predicting
  <2> QED BY <1>3, <2>1 DEF RunIsInPlace, Phases
<1>15. CASE UNCHANGED vars
  BY <1>9, <1>15 DEF vars, scoring, predicting
<1> QED BY <1>5, <1>6, <1>7, <1>8, <1>10, <1>11, <1>12, <1>13, <1>14, <1>15 DEF Next

LEMMA PartsAddUp ==
    ASSUME NEW D, IsFiniteSet(D), NEW A \in SUBSET D, NEW B \in SUBSET D, NEW C \in SUBSET D,
           D = A \cup B \cup C, A \cap B = {}, A \cap C = {}, B \cap C = {}
    PROVE  Cardinality(A) + Cardinality(B) + Cardinality(C) = Cardinality(D)
<1>1. IsFiniteSet(A) /\ IsFiniteSet(B) /\ IsFiniteSet(C) /\ IsFiniteSet(A \cup B)
  BY FS_Subset, FS_Union
<1>2. Cardinality(A) \in Nat /\ Cardinality(B) \in Nat /\ Cardinality(C) \in Nat
  BY <1>1, FS_CardinalityType
<1>3. Cardinality(A \cup B) = Cardinality(A) + Cardinality(B)
  BY <1>1, <1>2, FS_Union, FS_EmptySet
<1>4. (A \cup B) \cap C = {} /\ (A \cup B) \cup C = D
  OBVIOUS
<1>5. Cardinality((A \cup B) \cup C) = Cardinality(A \cup B) + Cardinality(C)
  <2>1. Cardinality((A \cup B) \cup C)
          = Cardinality(A \cup B) + Cardinality(C) - Cardinality((A \cup B) \cap C)
    BY <1>1, FS_Union
  <2> QED BY <1>2, <1>3, <1>4, <2>1, FS_EmptySet
<1> QED BY <1>2, <1>3, <1>4, <1>5

LEMMA CoverageAgrees ==
    ASSUME NEW r, r.attributes \in Seq(Members(r.attributes)),
           \A a \in Members(r.attributes) : a.applicability \in Applicabilities
    PROVE  CountsAgree(BuildCoverage(r))
<1> DEFINE s == r.attributes
           D == DOMAIN s
           A == {i \in D : s[i].applicability = "APPLICABLE"}
           N == {i \in D : s[i].applicability = "NOT_APPLICABLE"}
           U == {i \in D : s[i].applicability = "UNKNOWN"}
           K == {i \in D : s[i].buyerCritical}
           G == {i \in A : IsAccepted(s[i])}
<1>1. Len(s) \in Nat /\ D = 1..Len(s)
  BY LenProperties
<1>2. IsFiniteSet(D) /\ Cardinality(D) = Len(s)
  BY <1>1, FS_Interval
<1>3. \A i \in D : s[i].applicability \in {"APPLICABLE", "NOT_APPLICABLE", "UNKNOWN"}
  BY DEF Members, Applicabilities
<1>4. D = A \cup N \cup U /\ A \cap N = {} /\ A \cap U = {} /\ N \cap U = {}
  BY <1>3
<1>5. Cardinality(A) + Cardinality(N) + Cardinality(U) = Len(s)
  <2> HIDE DEF D, A, N, U
  <2>1. A \in SUBSET D /\ N \in SUBSET D /\ U \in SUBSET D
    BY <1>4
  <2> QED BY <1>2, <1>4, <2>1, PartsAddUp
<1>6. G \subseteq A /\ K \cap A \subseteq K /\ K \cap G \subseteq K \cap A
  OBVIOUS
<1>7. IsFiniteSet(A) /\ IsFiniteSet(K) /\ IsFiniteSet(K \cap A)
  <2>1. A \subseteq D /\ K \subseteq D /\ K \cap A \subseteq D
    OBVIOUS
  <2> HIDE DEF D, A, K
  <2> QED BY <1>2, <2>1, FS_Subset
<1>8. /\ Cardinality(G) <= Cardinality(A) /\ Cardinality(K \cap A) <= Cardinality(K)
      /\ Cardinality(K \cap G) <= Cardinality(K \cap A)
  <2> HIDE DEF D, A, K, G
  <2> QED BY <1>6, <1>7, FS_Subset
<1> DEFINE coverage == BuildCoverage(r)
<1>9. /\ coverage.total = Len(s) /\ coverage.applicable = Cardinality(A)
      /\ coverage.notApplicable = Cardinality(N) /\ coverage.unknown = Cardinality(U)
      /\ coverage.accepted = Cardinality(G) /\ coverage.critical = Cardinality(K)
      /\ coverage.criticalApplicable = Cardinality(K \cap A)
      /\ coverage.criticalAccepted = Cardinality(K \cap G)
  BY DEF BuildCoverage
<1> HIDE DEF coverage, A, N, U, K, G, D
<1> QED BY <1>5, <1>8, <1>9 DEF CountsAgree, coverage

\* What TypeOK rests on.
RunIsTyped ==
    /\ ExtractionIsValid /\ AttributesAreBuilt /\ RecordIsOfAttributes
    /\ PredictionsAreTyped /\ CasesAreTyped /\ RunIsInPlace

LEMMA RunInvariant == Spec => []RunIsTyped
<1>1. Init => AttributesAreBuilt /\ RecordIsOfAttributes /\ PredictionsAreTyped
  <2>1. Members(<< >>) = {} /\ << >> \in Seq(Members(<< >>))
    BY EmptyDomain, EmptySeq DEF Members
  <2> QED BY <2>1, EmptyDomain DEF Init, AttributesAreBuilt, RecordIsOfAttributes, PredictionsAreTyped
<1>2. ExtractionIsValid /\ AttributesAreBuilt /\ [Next]_vars => AttributesAreBuilt'
  BY AttributesAreKept
<1>3. RecordIsOfAttributes /\ [Next]_vars => RecordIsOfAttributes'
  BY RecordOfAttributesIsKept
<1>4. AttributesAreBuilt /\ RecordIsOfAttributes /\ PredictionsAreTyped /\ [Next]_vars => PredictionsAreTyped'
  BY PredictionsAreKept
<1>5. PredictionsAreTyped => CasesAreTyped
  BY CasesAreOfTheManifest
<1>6. Init /\ CasesAreTyped => RunIsInPlace
  <2> SUFFICES ASSUME Init, CasesAreTyped PROVE RunIsInPlace
    OBVIOUS
  <2>1. position = 1 /\ place = 0 /\ phase = "setup" /\ acc = ScoreAccumulator /\ report = None
    BY DEF Init
  <2>2. Len(Cases) \in Nat /\ (1 > Len(Cases) \/ Len(Cases[1].truths) \in Nat)
    BY DEF CasesAreTyped
  <2> QED BY <2>1, <2>2 DEF RunIsInPlace, Phases
<1>7. PredictionsAreTyped /\ CasesAreTyped' /\ RunIsInPlace /\ [Next]_vars => RunIsInPlace'
  BY PlaceIsKept
<1> QED BY <1>1, <1>2, <1>3, <1>4, <1>5, <1>6, <1>7, ExtractionInvariant, PTL DEF Spec, RunIsTyped

LEMMA RunsAreTyped ==
    ASSUME RunIsTyped
    PROVE  TypeOK
<1>1. DOMAIN schemas \subseteq DOMAIN Features
  BY SchemaOfFeature DEF RunIsTyped
<1>2. DOMAIN answers \subseteq DOMAIN payload
  BY EmptyDomain DEF RunIsTyped, ExtractionIsValid, ValidateRawExtraction
<1>3. \A k \in DOMAIN attributes :
         /\ attributes[k].feature \in DOMAIN Features
         /\ attributes[k].grade \in Grades \cup {None}
         /\ IsAccepted(attributes[k]) => attributes[k].value # None
  <2>1. \A factors : SupportGrade(factors) \in Grades \cup {None}
    BY DEF SupportGrade, Grades
  <2>2. ASSUME NEW a, AttributeIsBuilt(a)
        PROVE  /\ a.feature \in DOMAIN Features /\ a.grade \in Grades \cup {None}
               /\ IsAccepted(a) => a.value # None
    BY <2>1, <2>2 DEF AttributeIsBuilt, IsAttribute, GradeIsDerived, GradeOf, StatusAndValueAgree
  <2>3. \A k \in DOMAIN attributes : AttributeIsBuilt(attributes[k])
    BY DEF RunIsTyped, AttributesAreBuilt, Members
  <2> QED BY <2>2, <2>3
<1>4. record # None => CountsAgree(BuildCoverage(record))
  BY CoverageAgrees DEF RunIsTyped, RecordIsOfAttributes, AttributesAreBuilt, AttributeIsBuilt
<1>5. /\ phase \in Phases /\ DOMAIN predictions \subseteq CaseIds
      /\ position \in 1..(Len(Cases) + 1)
      /\ IF position > Len(Cases) THEN place = 0 ELSE place \in 0..(Len(Cases[position].truths) + 1)
      /\ place > 0 => phase = "score"
      /\ report # None => phase = "done"
  BY DEF RunIsTyped, RunIsInPlace, PredictionsAreTyped
<1> QED BY <1>1, <1>2, <1>3, <1>4, <1>5 DEF TypeOK

\* Where a run is and what it holds there: the features it works on are those
\* of the class, the counts of a record's coverage add up, predictions are of
\* cases, and the scorer is at one case and one truth of the split.
THEOREM EvaluationIsTyped == Spec => []TypeOK
BY RunInvariant, RunsAreTyped, PTL

------------------------------------------------------------------------------
(* What is counted. *)

TallyType == [num : Nat, den : Nat]
BuyerType == [accepted : Nat, applicable : Nat, withheld : Nat, notApplicable : Nat, unknown : Nat]
AccumulatorType ==
    [identity : TallyType, falseExact : TallyType, precision : TallyType, normalization : TallyType,
     supported : TallyType, coverage : TallyType, buyer : BuyerType,
     citations : [CitationOutcomes -> Nat], byGrade : [GradeKeys -> TallyType],
     outcomes : [Outcomes -> Nat]]

GradeSum(t) == t.byGrade["A"].den + t.byGrade["B"].den + t.byGrade["C"].den + t.byGrade["UNGRADED"].den
CitationSum(t) == t.citations["VALID"] + t.citations["INVALID"] + t.citations["NOT_EVALUATED"]

\* What holds of the counts by themselves.
IsBalanced(t) ==
    /\ t \in AccumulatorType
    /\ t.buyer.accepted + t.buyer.withheld = t.buyer.applicable
    /\ t.precision.num <= t.normalization.num
    /\ t.normalization.den = t.coverage.num
    /\ GradeSum(t) = t.coverage.num /\ CitationSum(t) = t.coverage.num

\* One truth more: of what is not counted by it, nothing changes.
OfTheCase(t, u) ==
    u.identity = t.identity /\ u.falseExact = t.falseExact /\ u.outcomes = t.outcomes

One(b) == IF b THEN 1 ELSE 0

LEMMA AddedIsATally ==
    ASSUME NEW t \in TallyType, NEW correct
    PROVE  /\ Add(t, correct) \in TallyType /\ Add(t, correct).den = t.den + 1
           /\ Add(t, correct).num = t.num + One(correct)
BY DEF TallyType, Add, One

LEMMA BuyerIsCounted ==
    ASSUME NEW t \in AccumulatorType, NEW truth,
           NEW key \in {"accepted", "applicable", "withheld", "notApplicable", "unknown"}
    PROVE  LET u == CountBuyer(t, truth, key)
           IN  /\ u \in AccumulatorType /\ OfTheCase(t, u)
               /\ u.precision = t.precision /\ u.normalization = t.normalization
               /\ u.supported = t.supported /\ u.coverage = t.coverage
               /\ u.citations = t.citations /\ u.byGrade = t.byGrade
               /\ u.buyer = IF truth.buyerCritical THEN [t.buyer EXCEPT ![key] = @ + 1] ELSE t.buyer
<1>1. t.buyer \in BuyerType
  BY DEF AccumulatorType
<1>2. [t.buyer EXCEPT ![key] = @ + 1] \in BuyerType
  BY <1>1 DEF BuyerType
<1> QED BY <1>2 DEF CountBuyer, AccumulatorType, OfTheCase

\* A feature that applies is filled or not, and is counted once as either.
LEMMA FilledOrNot ==
    ASSUME NEW t \in AccumulatorType, NEW truth, NEW key \in {"accepted", "withheld"}
    PROVE  LET u == CountBuyer(CountBuyer(t, truth, "applicable"), truth, key)
           IN  /\ u \in AccumulatorType /\ OfTheCase(t, u)
               /\ u.precision = t.precision /\ u.normalization = t.normalization
               /\ u.supported = t.supported /\ u.coverage = t.coverage
               /\ u.citations = t.citations /\ u.byGrade = t.byGrade
               /\ t.buyer.accepted + t.buyer.withheld = t.buyer.applicable
                     => u.buyer.accepted + u.buyer.withheld = u.buyer.applicable
<1> DEFINE v == CountBuyer(t, truth, "applicable")
           u == CountBuyer(v, truth, key)
<1>1. /\ v \in AccumulatorType /\ OfTheCase(t, v)
      /\ v.precision = t.precision /\ v.normalization = t.normalization
      /\ v.supported = t.supported /\ v.coverage = t.coverage
      /\ v.citations = t.citations /\ v.byGrade = t.byGrade
      /\ v.buyer = IF truth.buyerCritical THEN [t.buyer EXCEPT !["applicable"] = @ + 1] ELSE t.buyer
  BY BuyerIsCounted
<1>0. key \in {"accepted", "applicable", "withheld", "notApplicable", "unknown"}
  OBVIOUS
<1> HIDE DEF v
<1>2. /\ u \in AccumulatorType /\ OfTheCase(v, u)
      /\ u.precision = v.precision /\ u.normalization = v.normalization
      /\ u.supported = v.supported /\ u.coverage = v.coverage
      /\ u.citations = v.citations /\ u.byGrade = v.byGrade
      /\ u.buyer = IF truth.buyerCritical THEN [v.buyer EXCEPT ![key] = @ + 1] ELSE v.buyer
  BY <1>0, <1>1, BuyerIsCounted
<1> HIDE DEF u
<1>3. t.buyer \in BuyerType
  BY DEF AccumulatorType
<1>4. t.buyer.accepted + t.buyer.withheld = t.buyer.applicable
         => u.buyer.accepted + u.buyer.withheld = u.buyer.applicable
  BY <1>1, <1>2, <1>3 DEF BuyerType
<1> QED BY <1>1, <1>2, <1>4 DEF OfTheCase, u, v

\* A value that truth can judge has one grade, one representation and one citation.
LEMMA CommittedIsCounted ==
    ASSUME NEW t \in AccumulatorType, NEW truth, NEW predicted,
           predicted.grade \in Grades \cup {None}
    PROVE  LET u == ScoreCommitted(t, truth, predicted)
           IN  /\ u \in AccumulatorType /\ OfTheCase(t, u)
               /\ u.coverage = t.coverage /\ u.supported = t.supported /\ u.buyer = t.buyer
               /\ u.precision.den = t.precision.den + 1
               /\ u.normalization.den = t.normalization.den + 1
               /\ t.precision.num <= t.normalization.num => u.precision.num <= u.normalization.num
               /\ GradeSum(u) = GradeSum(t) + 1 /\ CitationSum(u) = CitationSum(t) + 1
<1> DEFINE valueOk == predicted.value # None /\ predicted.value.key = truth.value.key
           correct == valueOk /\ predicted.point = truth.point
           g == IF predicted.grade = None THEN "UNGRADED" ELSE predicted.grade
           c == ScoreCitation(truth, predicted)
           u == ScoreCommitted(t, truth, predicted)
<1>1. g \in GradeKeys
  BY DEF GradeKeys
<1>2. c \in CitationOutcomes
  BY DEF ScoreCitation, CitationOutcomes
<1>3. u = [t EXCEPT !.precision = Add(@, correct), !.byGrade[g] = Add(@, correct),
                    !.normalization = Add(@, valueOk), !.citations[c] = @ + 1]
  BY DEF ScoreCommitted
<1>4. correct => valueOk
  OBVIOUS
<1> HIDE DEF g, c, u, correct, valueOk
<1>5. /\ t.precision \in TallyType /\ t.normalization \in TallyType
      /\ t.byGrade \in [GradeKeys -> TallyType] /\ t.citations \in [CitationOutcomes -> Nat]
  BY DEF AccumulatorType
<1>6. /\ u.precision = Add(t.precision, correct) /\ u.normalization = Add(t.normalization, valueOk)
      /\ u.byGrade = [t.byGrade EXCEPT ![g] = Add(@, correct)]
      /\ u.citations = [t.citations EXCEPT ![c] = @ + 1]
      /\ u.coverage = t.coverage /\ u.supported = t.supported /\ u.buyer = t.buyer
      /\ OfTheCase(t, u)
  BY <1>3 DEF AccumulatorType, OfTheCase
<1>7. /\ u.precision \in TallyType /\ u.precision.den = t.precision.den + 1
      /\ u.precision.num = t.precision.num + One(correct)
      /\ u.normalization \in TallyType /\ u.normalization.den = t.normalization.den + 1
      /\ u.normalization.num = t.normalization.num + One(valueOk)
  BY <1>5, <1>6, AddedIsATally
<1>8. t.precision.num <= t.normalization.num => u.precision.num <= u.normalization.num
  BY <1>4, <1>5, <1>7 DEF TallyType, One
<1>9. /\ u.byGrade \in [GradeKeys -> TallyType]
      /\ u.byGrade[g].den = t.byGrade[g].den + 1
      /\ \A k \in GradeKeys : k # g => u.byGrade[k] = t.byGrade[k]
  <2>1. t.byGrade[g] \in TallyType
    BY <1>1, <1>5
  <2>2. Add(t.byGrade[g], correct) \in TallyType /\ Add(t.byGrade[g], correct).den = t.byGrade[g].den + 1
    BY <2>1, AddedIsATally
  <2> QED BY <1>1, <1>5, <1>6, <2>2
<1>10. GradeSum(u) = GradeSum(t) + 1
  <2>1. g = "A" \/ g = "B" \/ g = "C" \/ g = "UNGRADED"
    BY <1>1 DEF GradeKeys, Grades
  <2>2. \A k \in GradeKeys : t.byGrade[k].den \in Nat
    BY <1>5 DEF TallyType
  <2> QED BY <1>9, <2>1, <2>2 DEF GradeSum, GradeKeys, Grades
<1>11. u.citations \in [CitationOutcomes -> Nat] /\ CitationSum(u) = CitationSum(t) + 1
  <2>1. c = "VALID" \/ c = "INVALID" \/ c = "NOT_EVALUATED"
    BY <1>2 DEF CitationOutcomes
  <2> QED BY <1>2, <1>5, <1>6, <2>1 DEF CitationSum, CitationOutcomes
<1>12. u \in AccumulatorType
  <2> DEFINE prec == Add(t.precision, correct)
             norm == Add(t.normalization, valueOk)
             byg == [t.byGrade EXCEPT ![g] = Add(@, correct)]
             cits == [t.citations EXCEPT ![c] = @ + 1]
  <2>1. u = [t EXCEPT !.precision = prec, !.byGrade = byg, !.normalization = norm, !.citations = cits]
    BY <1>3
  <2>2. /\ prec \in TallyType /\ norm \in TallyType
        /\ byg \in [GradeKeys -> TallyType] /\ cits \in [CitationOutcomes -> Nat]
    BY <1>6, <1>7, <1>9, <1>11
  <2> HIDE DEF prec, norm, byg, cits
  <2> QED BY <2>1, <2>2 DEF AccumulatorType
<1> QED BY <1>6, <1>7, <1>8, <1>10, <1>11, <1>12 DEF u

Judgeable(truth) == truth.applicability = "APPLICABLE" /\ truth.value # None

\* The effect of one truth on the counts, whatever was predicted.
LEMMA AnsweredIsScored ==
    ASSUME NEW t, IsBalanced(t), NEW truth, truth.applicability \in Applicabilities,
           NEW predicted, Accepts(predicted) => predicted.grade \in Grades \cup {None}
    PROVE  LET u == ScoreAttribute(t, truth, predicted)
               accepts == Accepts(predicted)
           IN  /\ IsBalanced(u) /\ OfTheCase(t, u)
               /\ u.coverage.den = t.coverage.den + One(Judgeable(truth))
               /\ u.coverage.num = t.coverage.num + One(Judgeable(truth) /\ accepts)
               /\ u.precision.den = t.precision.den
                     + One(accepts /\ (Judgeable(truth) \/ truth.applicability = "NOT_APPLICABLE"))
               /\ u.supported = IF accepts /\ truth.applicability = "APPLICABLE"
                                THEN Add(t.supported, predicted.verified) ELSE t.supported
<1> DEFINE u == ScoreAttribute(t, truth, predicted)
<1>1. t \in AccumulatorType
  BY DEF IsBalanced
<1>2. /\ t.precision \in TallyType /\ t.coverage \in TallyType /\ t.supported \in TallyType
      /\ t.normalization \in TallyType
  BY <1>1 DEF AccumulatorType
<1>3. CASE truth.applicability = "NOT_APPLICABLE"
  <2>1. u = ScoreNotApplicable(t, predicted)
    BY <1>3 DEF ScoreAttribute
  <2>2. ~Judgeable(truth) /\ truth.applicability # "APPLICABLE"
    BY <1>3 DEF Judgeable
  <2>3. CASE Accepts(predicted)
    <3> DEFINE prec == Add(t.precision, FALSE)
    <3>1. u = [t EXCEPT !.precision = prec]
      BY <2>1, <2>3 DEF ScoreNotApplicable
    <3>2. prec \in TallyType /\ prec.den = t.precision.den + 1 /\ prec.num = t.precision.num
      BY <1>2 DEF Add, TallyType
    <3> HIDE DEF prec, u
    <3>3. /\ u \in AccumulatorType /\ OfTheCase(t, u)
          /\ u.precision = prec /\ u.normalization = t.normalization
          /\ u.supported = t.supported /\ u.coverage = t.coverage /\ u.buyer = t.buyer
          /\ u.citations = t.citations /\ u.byGrade = t.byGrade
      BY <1>1, <3>1, <3>2 DEF AccumulatorType, OfTheCase
    <3>4. IsBalanced(u)
      BY <3>2, <3>3 DEF IsBalanced, GradeSum, CitationSum
    <3> QED BY <1>2, <1>3, <2>2, <2>3, <3>2, <3>3, <3>4 DEF One, TallyType, u
  <2>4. CASE ~Accepts(predicted)
    <3>1. u = t
      BY <2>1, <2>4 DEF ScoreNotApplicable
    <3> HIDE DEF u
    <3> QED BY <1>2, <2>2, <2>4, <3>1 DEF One, TallyType, OfTheCase, u
  <2> QED BY <2>3, <2>4
<1>4. CASE truth.applicability = "UNKNOWN"
  <2>1. u = CountBuyer(t, truth, "unknown")
    BY <1>4 DEF ScoreAttribute
  <2>2. ~Judgeable(truth) /\ truth.applicability # "APPLICABLE" /\ truth.applicability # "NOT_APPLICABLE"
    BY <1>4 DEF Judgeable
  <2> HIDE DEF u
  <2>3. /\ u \in AccumulatorType /\ OfTheCase(t, u)
        /\ u.precision = t.precision /\ u.normalization = t.normalization
        /\ u.supported = t.supported /\ u.coverage = t.coverage
        /\ u.citations = t.citations /\ u.byGrade = t.byGrade
        /\ u.buyer = IF truth.buyerCritical THEN [t.buyer EXCEPT !["unknown"] = @ + 1] ELSE t.buyer
    BY <1>1, <2>1, BuyerIsCounted
  <2>4. t.buyer \in BuyerType
    BY <1>1 DEF AccumulatorType
  <2>5. /\ u.buyer.accepted = t.buyer.accepted /\ u.buyer.withheld = t.buyer.withheld
        /\ u.buyer.applicable = t.buyer.applicable
    BY <2>3, <2>4 DEF BuyerType
  <2>6. IsBalanced(u)
    BY <2>3, <2>5 DEF IsBalanced, GradeSum, CitationSum
  <2> QED BY <1>2, <2>2, <2>3, <2>6 DEF One, TallyType, u
<1>5. CASE truth.applicability = "APPLICABLE"
  <2> DEFINE accepts == Accepts(predicted)
             judged == IsJudgeable(truth)
             bought == CountBuyer(CountBuyer(t, truth, "applicable"), truth,
                                  IF accepts THEN "accepted" ELSE "withheld")
             covered == IF judged THEN [bought EXCEPT !.coverage = Add(@, accepts)] ELSE bought
             backed == IF accepts THEN [covered EXCEPT !.supported = Add(@, predicted.verified)] ELSE covered
  <2>1. u = IF accepts /\ judged THEN ScoreCommitted(backed, truth, predicted) ELSE backed
    <3>1. u = ScoreApplicable(t, truth, predicted)
      BY <1>5 DEF ScoreAttribute
    <3> QED BY <3>1 DEF ScoreApplicable
  <2>2. Judgeable(truth) <=> judged
    BY <1>5 DEF Judgeable, IsJudgeable
  <2>3. accepts => predicted.grade \in Grades \cup {None}
    OBVIOUS
  <2> HIDE DEF accepts, judged, u
  <2>4. /\ bought \in AccumulatorType /\ OfTheCase(t, bought)
        /\ bought.precision = t.precision /\ bought.normalization = t.normalization
        /\ bought.supported = t.supported /\ bought.coverage = t.coverage
        /\ bought.citations = t.citations /\ bought.byGrade = t.byGrade
        /\ bought.buyer.accepted + bought.buyer.withheld = bought.buyer.applicable
    <3>1. (IF accepts THEN "accepted" ELSE "withheld") \in {"accepted", "withheld"}
      OBVIOUS
    <3>2. t.buyer.accepted + t.buyer.withheld = t.buyer.applicable
      BY DEF IsBalanced
    <3> QED BY <1>1, <3>1, <3>2, FilledOrNot
  <2> HIDE DEF bought
  <2>5. /\ covered \in AccumulatorType /\ OfTheCase(bought, covered)
        /\ covered.precision = bought.precision /\ covered.normalization = bought.normalization
        /\ covered.supported = bought.supported /\ covered.buyer = bought.buyer
        /\ covered.citations = bought.citations /\ covered.byGrade = bought.byGrade
        /\ covered.coverage = IF judged THEN Add(bought.coverage, accepts) ELSE bought.coverage
    <3> DEFINE more == Add(bought.coverage, accepts)
    <3>1. more \in TallyType
      BY <1>2, <2>4, AddedIsATally
    <3> HIDE DEF more
    <3>2. covered = IF judged THEN [bought EXCEPT !.coverage = more] ELSE bought
      BY DEF more
    <3> HIDE DEF covered
    <3>3. /\ covered \in AccumulatorType /\ OfTheCase(bought, covered)
          /\ covered.precision = bought.precision /\ covered.normalization = bought.normalization
          /\ covered.supported = bought.supported /\ covered.buyer = bought.buyer
          /\ covered.citations = bought.citations /\ covered.byGrade = bought.byGrade
          /\ covered.coverage = IF judged THEN more ELSE bought.coverage
      BY <2>4, <3>1, <3>2 DEF AccumulatorType, OfTheCase
    <3> QED BY <3>3 DEF more
  <2> HIDE DEF covered
  <2>6. /\ backed \in AccumulatorType /\ OfTheCase(covered, backed)
        /\ backed.precision = covered.precision /\ backed.normalization = covered.normalization
        /\ backed.coverage = covered.coverage /\ backed.buyer = covered.buyer
        /\ backed.citations = covered.citations /\ backed.byGrade = covered.byGrade
        /\ backed.supported = IF accepts THEN Add(covered.supported, predicted.verified) ELSE covered.supported
    <3> DEFINE more == Add(covered.supported, predicted.verified)
    <3>1. more \in TallyType
      BY <1>2, <2>4, <2>5, AddedIsATally
    <3> HIDE DEF more
    <3>2. backed = IF accepts THEN [covered EXCEPT !.supported = more] ELSE covered
      BY DEF more
    <3> HIDE DEF backed
    <3>3. /\ backed \in AccumulatorType /\ OfTheCase(covered, backed)
          /\ backed.precision = covered.precision /\ backed.normalization = covered.normalization
          /\ backed.coverage = covered.coverage /\ backed.buyer = covered.buyer
          /\ backed.citations = covered.citations /\ backed.byGrade = covered.byGrade
          /\ backed.supported = IF accepts THEN more ELSE covered.supported
      BY <2>5, <3>1, <3>2 DEF AccumulatorType, OfTheCase
    <3> QED BY <3>3 DEF more
  <2> HIDE DEF backed
  <2>7. /\ OfTheCase(t, backed)
        /\ backed.precision = t.precision /\ backed.normalization = t.normalization
        /\ backed.coverage = IF judged THEN Add(t.coverage, accepts) ELSE t.coverage
        /\ backed.supported = IF accepts THEN Add(t.supported, predicted.verified) ELSE t.supported
        /\ GradeSum(backed) = GradeSum(t) /\ CitationSum(backed) = CitationSum(t)
        /\ backed.buyer.accepted + backed.buyer.withheld = backed.buyer.applicable
    BY <2>4, <2>5, <2>6 DEF OfTheCase, GradeSum, CitationSum
  <2>8. /\ Add(t.coverage, accepts).den = t.coverage.den + 1
        /\ Add(t.coverage, accepts).num = t.coverage.num + One(accepts)
    BY <1>2, AddedIsATally
  <2>9. /\ t.precision.num <= t.normalization.num /\ t.normalization.den = t.coverage.num
        /\ GradeSum(t) = t.coverage.num /\ CitationSum(t) = t.coverage.num
    BY DEF IsBalanced
  <2>10. truth.applicability # "NOT_APPLICABLE"
    BY <1>5
  <2>11. CASE accepts /\ judged
    <3>1. u = ScoreCommitted(backed, truth, predicted)
      BY <2>1, <2>11
    <3>2. /\ u \in AccumulatorType /\ OfTheCase(backed, u)
          /\ u.coverage = backed.coverage /\ u.supported = backed.supported /\ u.buyer = backed.buyer
          /\ u.precision.den = backed.precision.den + 1
          /\ u.normalization.den = backed.normalization.den + 1
          /\ backed.precision.num <= backed.normalization.num => u.precision.num <= u.normalization.num
          /\ GradeSum(u) = GradeSum(backed) + 1 /\ CitationSum(u) = CitationSum(backed) + 1
      BY <2>3, <2>6, <2>11, <3>1, CommittedIsCounted
    <3>3. u.coverage.num = t.coverage.num + 1 /\ u.coverage.den = t.coverage.den + 1
      BY <2>7, <2>8, <2>11, <3>2 DEF One
    <3>4. IsBalanced(u)
      BY <2>7, <2>9, <3>2, <3>3 DEF IsBalanced
    <3> QED BY <1>5, <2>2, <2>7, <2>11, <3>2, <3>3, <3>4 DEF One, OfTheCase, u, accepts
  <2>12. CASE ~(accepts /\ judged)
    <3>1. u = backed
      BY <2>1, <2>12
    <3>2. /\ u.coverage.num = t.coverage.num
          /\ u.coverage.den = t.coverage.den + One(judged)
      BY <1>2, <2>7, <2>8, <2>12, <3>1 DEF One, TallyType
    <3>3. IsBalanced(u)
      BY <2>6, <2>7, <2>9, <3>1, <3>2 DEF IsBalanced
    <3>4. t.coverage.num + 0 = t.coverage.num /\ t.precision.den + 0 = t.precision.den
      BY <1>2 DEF TallyType
    <3> QED BY <1>5, <2>2, <2>7, <2>10, <2>12, <3>1, <3>2, <3>3, <3>4 DEF One, u, accepts
  <2> QED BY <2>11, <2>12
<1> QED BY <1>3, <1>4, <1>5 DEF Applicabilities

LEMMA AbsentIsScored ==
    ASSUME NEW t, IsBalanced(t), NEW truth, truth.applicability \in Applicabilities
    PROVE  LET u == ScoreAbsent(t, truth)
           IN  /\ IsBalanced(u) /\ OfTheCase(t, u)
               /\ u.coverage.den >= t.coverage.den + One(Judgeable(truth))
               /\ u.coverage.num = t.coverage.num
               /\ u.precision.den = t.precision.den
               /\ u.supported = t.supported
<1> DEFINE more == AddDenominatorOnly(t.coverage)
           missed == IF IsJudgeable(truth) THEN [t EXCEPT !.coverage = more] ELSE t
           filled == CountBuyer(CountBuyer(missed, truth, "applicable"), truth, "withheld")
           u == ScoreAbsent(t, truth)
<1>1. t \in AccumulatorType /\ t.coverage \in TallyType
  BY DEF IsBalanced, AccumulatorType
<1>2. more \in TallyType /\ more.den = t.coverage.den + 1 /\ more.num = t.coverage.num
  BY <1>1 DEF AddDenominatorOnly, Add, TallyType
<1>3. u = IF truth.applicability = "NOT_APPLICABLE" THEN t ELSE filled
  BY DEF ScoreAbsent
<1>4. Judgeable(truth) => IsJudgeable(truth) /\ truth.applicability # "NOT_APPLICABLE"
  BY DEF Judgeable, IsJudgeable
<1> HIDE DEF more
<1>5. /\ missed \in AccumulatorType /\ OfTheCase(t, missed)
      /\ missed.precision = t.precision /\ missed.normalization = t.normalization
      /\ missed.supported = t.supported /\ missed.buyer = t.buyer
      /\ missed.citations = t.citations /\ missed.byGrade = t.byGrade
      /\ missed.coverage = IF IsJudgeable(truth) THEN more ELSE t.coverage
  BY <1>1, <1>2 DEF AccumulatorType, OfTheCase
<1> HIDE DEF missed
<1>6. /\ filled \in AccumulatorType /\ OfTheCase(missed, filled)
      /\ filled.precision = missed.precision /\ filled.normalization = missed.normalization
      /\ filled.supported = missed.supported /\ filled.coverage = missed.coverage
      /\ filled.citations = missed.citations /\ filled.byGrade = missed.byGrade
      /\ missed.buyer.accepted + missed.buyer.withheld = missed.buyer.applicable
            => filled.buyer.accepted + filled.buyer.withheld = filled.buyer.applicable
  <2>1. "withheld" \in {"accepted", "withheld"}
    OBVIOUS
  <2> QED BY <1>5, <2>1, FilledOrNot
<1> HIDE DEF filled
<1>7. filled.coverage.num = t.coverage.num
  BY <1>2, <1>5, <1>6
<1>8. IsBalanced(filled)
  BY <1>5, <1>6, <1>7 DEF IsBalanced, GradeSum, CitationSum
<1>9. filled.coverage.den >= t.coverage.den + One(Judgeable(truth))
  BY <1>1, <1>2, <1>4, <1>5, <1>6 DEF One, TallyType
<1> HIDE DEF u
<1>10. CASE truth.applicability = "NOT_APPLICABLE"
  <2>1. u = t /\ ~Judgeable(truth)
    BY <1>3, <1>4, <1>10
  <2> QED BY <1>1, <2>1 DEF One, TallyType, OfTheCase, u
<1>11. CASE truth.applicability # "NOT_APPLICABLE"
  <2>1. u = filled
    BY <1>3, <1>11
  <2> QED BY <1>5, <1>6, <1>7, <1>8, <1>9, <2>1 DEF OfTheCase, u
<1> QED BY <1>10, <1>11

OneCaseMore(t, outcome, case, prediction, answered) ==
    LET counted == [t EXCEPT !.outcomes[outcome] = @ + 1]
    IN  IF answered THEN ScoreIdentity(counted, case, prediction)
        ELSE [counted EXCEPT !.identity = AddDenominatorOnly(@)]

IsIdentified(prediction, case) ==
    /\ prediction.disposition = case.disposition
    /\ case.disposition = "EXACT" => Matches(prediction.mpn, case.mpn)

IsFalseExact(prediction, case) == case.disposition # "EXACT" /\ prediction.disposition = "EXACT"

\* The effect of one case on the counts.
LEMMA CaseIsScored ==
    ASSUME NEW t, IsBalanced(t), NEW outcome \in Outcomes, NEW case, NEW prediction,
           NEW answered \in BOOLEAN
    PROVE  LET u == OneCaseMore(t, outcome, case, prediction, answered)
           IN  /\ IsBalanced(u)
               /\ u.outcomes = [t.outcomes EXCEPT ![outcome] = @ + 1]
               /\ u.coverage = t.coverage /\ u.precision = t.precision /\ u.supported = t.supported
               /\ u.identity.den = t.identity.den + 1
               /\ u.identity.num = t.identity.num + One(answered /\ IsIdentified(prediction, case))
               /\ u.falseExact.num = t.falseExact.num + One(answered /\ IsFalseExact(prediction, case))
<1> DEFINE u == OneCaseMore(t, outcome, case, prediction, answered)
           more == [t.outcomes EXCEPT ![outcome] = @ + 1]
           counted == [t EXCEPT !.outcomes = more]
           correct == IsIdentified(prediction, case)
           id == Add(t.identity, IF answered THEN correct ELSE FALSE)
           claimed == prediction.disposition = "EXACT"
           false == IF answered /\ case.disposition # "EXACT" THEN Add(t.falseExact, claimed) ELSE t.falseExact
<1>1. t \in AccumulatorType
  BY DEF IsBalanced
<1>2. t.identity \in TallyType /\ t.falseExact \in TallyType /\ t.outcomes \in [Outcomes -> Nat]
  BY <1>1 DEF AccumulatorType
<1>3. more \in [Outcomes -> Nat]
  BY <1>2
<1>4. /\ id \in TallyType /\ id.den = t.identity.den + 1
      /\ id.num = t.identity.num + One(answered /\ correct)
  <2> HIDE DEF correct
  <2> QED BY <1>2 DEF Add, TallyType, One
<1>5. /\ false \in TallyType
      /\ false.num = t.falseExact.num + One(answered /\ IsFalseExact(prediction, case))
  <2>1. IsFalseExact(prediction, case) <=> case.disposition # "EXACT" /\ claimed
    BY DEF IsFalseExact
  <2> HIDE DEF claimed
  <2> QED BY <1>2, <2>1 DEF Add, TallyType, One
<1>6. u = IF answered THEN ScoreIdentity(counted, case, prediction)
          ELSE [counted EXCEPT !.identity = AddDenominatorOnly(@)]
  BY DEF OneCaseMore
<1> HIDE DEF u
<1>7. counted.identity = t.identity /\ counted.falseExact = t.falseExact
  BY <1>1 DEF AccumulatorType
<1>8. u = [t EXCEPT !.outcomes = more, !.identity = id, !.falseExact = false]
  <2>1. CASE ~answered
    BY <1>1, <1>6, <1>7, <2>1 DEF AddDenominatorOnly, AccumulatorType
  <2>2. CASE answered
    <3>1. u = ScoreIdentity(counted, case, prediction)
      BY <1>6, <2>2
    <3>2. CASE case.disposition = "EXACT"
      BY <1>1, <1>7, <2>2, <3>1, <3>2 DEF ScoreIdentity, AccumulatorType, IsIdentified
    <3>3. CASE case.disposition # "EXACT"
      BY <1>1, <1>7, <2>2, <3>1, <3>3 DEF ScoreIdentity, AccumulatorType, IsIdentified
    <3> QED BY <3>2, <3>3
  <2> QED BY <2>1, <2>2
<1> HIDE DEF more, id, false, counted
<1>9. /\ u \in AccumulatorType
      /\ u.outcomes = more /\ u.identity = id /\ u.falseExact = false
      /\ u.precision = t.precision /\ u.normalization = t.normalization
      /\ u.supported = t.supported /\ u.coverage = t.coverage /\ u.buyer = t.buyer
      /\ u.citations = t.citations /\ u.byGrade = t.byGrade
  BY <1>1, <1>3, <1>4, <1>5, <1>8 DEF AccumulatorType
<1>10. IsBalanced(u)
  BY <1>9 DEF IsBalanced, GradeSum, CitationSum
<1> QED BY <1>4, <1>5, <1>9, <1>10 DEF more, u

------------------------------------------------------------------------------
(* What the counts say of the cases and the truths scored so far. *)

Identified(k) ==
    /\ Claims(k, Cases[k].disposition)
    /\ Cases[k].disposition = "EXACT" =>
          /\ predictions[Cases[k].id].mpn # None
          /\ CanonicalMpn[predictions[Cases[k].id].mpn] = CanonicalMpn[Cases[k].mpn]
IdentifiedCases == {k \in ScoredCases : Identified(k)}
FalseExactCases == {k \in ScoredCases : Cases[k].disposition # "EXACT" /\ Claims(k, "EXACT")}
SucceededCases == {k \in ScoredCases : Succeeded(k)}

Precise(t) == Committed(t) /\ (Judged(t) \/ TruthOf(t).applicability = "NOT_APPLICABLE")
JudgedTruths == {t \in ScoredTruths : Judged(t)}
FilledTruths == {t \in ScoredTruths : Judged(t) /\ Committed(t)}
PreciseTruths == {t \in ScoredTruths : Precise(t)}

AllOurs == \A id \in DOMAIN predictions : predictions[id].system = "skutruth"

ScoresAreCounted ==
    /\ IsBalanced(acc)
    /\ acc.identity.den = Cardinality(ScoredCases)
    /\ acc.identity.num = Cardinality(IdentifiedCases)
    /\ acc.falseExact.num = Cardinality(FalseExactCases)
    /\ acc.outcomes["SCORED"] = Cardinality(SucceededCases)
    /\ acc.outcomes["SCORED"] + Failures = Cardinality(ScoredCases)
    /\ IsFiniteSet(ScoredTruths)
    /\ Cardinality(JudgedTruths) <= acc.coverage.den
    /\ acc.coverage.num = Cardinality(FilledTruths)
    /\ acc.precision.den = Cardinality(PreciseTruths)
    /\ AllOurs => acc.supported.num = acc.supported.den

ReportIsOfTheScores ==
    phase = "done" =>
        /\ report.failed = Cardinality({k \in ScoredCases : ~Succeeded(k)})
        /\ report.tokens.reported <=>
              \E k \in ScoredCases :
                  Cases[k].id \in DOMAIN predictions /\ predictions[Cases[k].id].tokens # None

LEMMA OneMore ==
    ASSUME NEW A, IsFiniteSet(A), NEW x, x \notin A, NEW ok \in BOOLEAN,
           NEW B, B = IF ok THEN A \cup {x} ELSE A
    PROVE  IsFiniteSet(B) /\ Cardinality(B) = Cardinality(A) + One(ok) /\ Cardinality(A) \in Nat
<1>1. Cardinality(A) \in Nat
  BY FS_CardinalityType
<1>2. IsFiniteSet(A \cup {x}) /\ Cardinality(A \cup {x}) = Cardinality(A) + 1
  BY FS_AddElement
<1> QED BY <1>1, <1>2 DEF One

LEMMA ScoredCasesAreFinite ==
    ASSUME RunIsInPlace
    PROVE  IsFiniteSet(ScoredCases) /\ ScoredCases \subseteq Nat
<1>1. position \in Int /\ position - 1 \in Int
  BY DEF RunIsInPlace
<1>2. CASE place > 0
  BY <1>1, <1>2, FS_Interval DEF ScoredCases
<1>3. CASE ~(place > 0)
  BY <1>1, <1>3, FS_Interval DEF ScoredCases
<1> QED BY <1>2, <1>3

NothingScored == position = 1 /\ place = 0 /\ acc = ScoreAccumulator

LEMMA StartIsBalanced == IsBalanced(ScoreAccumulator)
<1>1. ScoreAccumulator \in AccumulatorType
  BY DEF ScoreAccumulator, AccumulatorType, TallyType, Tally, BuyerType
<1>2. GradeSum(ScoreAccumulator) = 0
  BY DEF GradeSum, ScoreAccumulator, Tally, GradeKeys, Grades
<1>3. CitationSum(ScoreAccumulator) = 0
  BY DEF CitationSum, ScoreAccumulator, CitationOutcomes
<1> QED BY <1>1, <1>2, <1>3 DEF IsBalanced, ScoreAccumulator, Tally

LEMMA StartIsCounted == NothingScored => ScoresAreCounted
<1> SUFFICES ASSUME NothingScored PROVE ScoresAreCounted
  OBVIOUS
<1>1. ScoredCases = {}
  BY DEF NothingScored, ScoredCases
<1>2. ScoredTruths = {}
  BY DEF NothingScored, ScoredTruths
<1>3. Cardinality({}) = 0 /\ IsFiniteSet({})
  BY FS_EmptySet
<1>4. IdentifiedCases = {} /\ FalseExactCases = {} /\ SucceededCases = {}
  BY <1>1 DEF IdentifiedCases, FalseExactCases, SucceededCases
<1>5. JudgedTruths = {} /\ FilledTruths = {} /\ PreciseTruths = {}
  BY <1>2 DEF JudgedTruths, FilledTruths, PreciseTruths
<1>6. /\ acc.identity = Tally /\ acc.falseExact = Tally /\ acc.coverage = Tally
      /\ acc.precision = Tally /\ acc.supported = Tally
  BY DEF NothingScored, ScoreAccumulator
<1>7. acc.outcomes["SCORED"] = 0 /\ Failures = 0
  BY DEF NothingScored, ScoreAccumulator, Failures, Outcomes
<1> QED BY <1>1, <1>2, <1>3, <1>4, <1>5, <1>6, <1>7, StartIsBalanced
        DEF ScoresAreCounted, NothingScored, Tally

\* Scoring judges by the manifest, the split and the predictions, and changes none of them.
LEMMA JudgementIsKept ==
    ASSUME UNCHANGED <<manifest, split, predictions>>
    PROVE  /\ Cases' = Cases
           /\ IdentifiedCases' = {k \in ScoredCases' : Identified(k)}
           /\ FalseExactCases' = {k \in ScoredCases' : Cases[k].disposition # "EXACT" /\ Claims(k, "EXACT")}
           /\ SucceededCases' = {k \in ScoredCases' : Succeeded(k)}
           /\ JudgedTruths' = {t \in ScoredTruths' : Judged(t)}
           /\ FilledTruths' = {t \in ScoredTruths' : Judged(t) /\ Committed(t)}
           /\ PreciseTruths' = {t \in ScoredTruths' : Precise(t)}
           /\ AllOurs' <=> AllOurs
<1>1. Cases' = Cases /\ predictions' = predictions
  BY CasesAreOfTheSplit
<1>2. IdentifiedCases' = {k \in ScoredCases' : Identified(k)}
  BY <1>1 DEF IdentifiedCases, Identified, Claims, Succeeded, Answered
<1>3. FalseExactCases' = {k \in ScoredCases' : Cases[k].disposition # "EXACT" /\ Claims(k, "EXACT")}
  BY <1>1 DEF FalseExactCases, Claims, Succeeded, Answered
<1>4. SucceededCases' = {k \in ScoredCases' : Succeeded(k)}
  BY <1>1 DEF SucceededCases, Succeeded, Answered
<1>5. JudgedTruths' = {t \in ScoredTruths' : Judged(t)}
  BY <1>1 DEF JudgedTruths, Judged, TruthOf
<1>6. FilledTruths' = {t \in ScoredTruths' : Judged(t) /\ Committed(t)}
  BY <1>1 DEF FilledTruths, Judged, TruthOf, Committed, Succeeded, Answered
<1>7. PreciseTruths' = {t \in ScoredTruths' : Precise(t)}
  BY <1>1 DEF PreciseTruths, Precise, Judged, TruthOf, Committed, Succeeded, Answered
<1>8. AllOurs' <=> AllOurs
  BY <1>1 DEF AllOurs
<1> QED BY <1>1, <1>2, <1>3, <1>4, <1>5, <1>6, <1>7, <1>8

LEMMA OutcomeIsOne ==
    ASSUME PredictionsAreTyped, NEW id
    PROVE  OutcomeOf(id) \in Outcomes /\ (OutcomeOf(id) = "SCORED" <=> Answered(id))
BY DEF PredictionsAreTyped, PredictionIsTyped, OutcomeOf, Answered, Outcomes

LEMMA BegunCaseIsCounted ==
    ASSUME PredictionsAreTyped, RunIsInPlace, ScoresAreCounted, BeginCase
    PROVE  ScoresAreCounted'
<1> DEFINE case == Cases[position]
           outcome == OutcomeOf(case.id)
           answered == Answered(case.id)
           prediction == predictions[case.id]
<1>1. /\ place = 0 /\ place' = 1 /\ position' = position /\ position <= Len(Cases)
      /\ acc' = ScoreOutcome(case) /\ UNCHANGED <<manifest, split, predictions>>
  BY DEF BeginCase, predicting
<1>2. position \in DOMAIN Cases /\ position \in Nat \ {0}
  BY <1>1, CasesAreOfTheManifest DEF RunIsInPlace, CasesAreTyped
<1>3. /\ outcome \in Outcomes /\ (outcome = "SCORED" <=> answered)
      /\ (answered <=> Succeeded(position))
  BY OutcomeIsOne DEF Succeeded
<1>4. case.disposition = "EXACT" => case.mpn # None
  <2>1. case \in Members(manifest)
    BY <1>2, CasesAreOfTheManifest DEF CasesAreTyped
  <2> HIDE DEF case
  <2>2. IsCase(case)
    BY <2>1 DEF PredictionsAreTyped
  <2> QED BY <2>2 DEF IsCase
<1>5. Identified(position) <=> answered /\ IsIdentified(prediction, case)
  BY <1>3, <1>4 DEF Identified, Claims, Matches, IsIdentified
<1>6. (Cases[position].disposition # "EXACT" /\ Claims(position, "EXACT")) <=>
         answered /\ IsFalseExact(prediction, case)
  BY <1>3 DEF Claims, IsFalseExact
<1>7. acc' = OneCaseMore(acc, outcome, case, prediction, answered)
  BY <1>1 DEF ScoreOutcome, OneCaseMore
<1>22. answered \in BOOLEAN
  BY DEF Answered
<1>8. IsBalanced(acc)
  BY DEF ScoresAreCounted
<1>9. position \notin ScoredCases /\ ScoredCases' = ScoredCases \cup {position}
  BY <1>1, <1>2 DEF ScoredCases
<1>10. ScoredTruths' = ScoredTruths
  <2>1. 1..(place - 1) = {} /\ 1..(place' - 1) = {}
    BY <1>1
  <2> QED BY <1>1, <2>1, CasesAreOfTheSplit DEF ScoredTruths
<1>11. IsFiniteSet(ScoredCases)
  BY ScoredCasesAreFinite
<1> HIDE DEF case, outcome, answered, prediction
<1>12. /\ IsBalanced(acc')
       /\ acc'.outcomes = [acc.outcomes EXCEPT ![outcome] = @ + 1]
       /\ acc'.coverage = acc.coverage /\ acc'.precision = acc.precision
       /\ acc'.supported = acc.supported
       /\ acc'.identity.den = acc.identity.den + 1
       /\ acc'.identity.num = acc.identity.num + One(answered /\ IsIdentified(prediction, case))
       /\ acc'.falseExact.num = acc.falseExact.num + One(answered /\ IsFalseExact(prediction, case))
  BY <1>3, <1>7, <1>8, <1>22, CaseIsScored
<1>13. Cardinality(ScoredCases') = Cardinality(ScoredCases) + 1
  BY <1>9, <1>11, FS_AddElement
<1>14. acc'.identity.num = Cardinality(IdentifiedCases')
  <2> DEFINE ok == answered /\ IsIdentified(prediction, case)
  <2>1. IdentifiedCases' = IF ok THEN IdentifiedCases \cup {position} ELSE IdentifiedCases
    BY <1>1, <1>5, <1>9, JudgementIsKept DEF IdentifiedCases
  <2>2. IsFiniteSet(IdentifiedCases) /\ position \notin IdentifiedCases
    BY <1>9, <1>11, FS_Subset DEF IdentifiedCases
  <2>3. ok \in BOOLEAN
    OBVIOUS
  <2>4. acc'.identity.num = acc.identity.num + One(ok)
    BY <1>12
  <2> HIDE DEF ok
  <2>5. Cardinality(IdentifiedCases') = Cardinality(IdentifiedCases) + One(ok)
    BY <2>1, <2>2, <2>3, OneMore
  <2> QED BY <2>4, <2>5 DEF ScoresAreCounted
<1>15. acc'.falseExact.num = Cardinality(FalseExactCases')
  <2> DEFINE ok == answered /\ IsFalseExact(prediction, case)
  <2>1. FalseExactCases' = IF ok THEN FalseExactCases \cup {position} ELSE FalseExactCases
    BY <1>1, <1>6, <1>9, JudgementIsKept DEF FalseExactCases
  <2>2. IsFiniteSet(FalseExactCases) /\ position \notin FalseExactCases
    BY <1>9, <1>11, FS_Subset DEF FalseExactCases
  <2>3. ok \in BOOLEAN
    OBVIOUS
  <2>4. acc'.falseExact.num = acc.falseExact.num + One(ok)
    BY <1>12
  <2> HIDE DEF ok
  <2>5. Cardinality(FalseExactCases') = Cardinality(FalseExactCases) + One(ok)
    BY <2>1, <2>2, <2>3, OneMore
  <2> QED BY <2>4, <2>5 DEF ScoresAreCounted
<1>16. acc.outcomes \in [Outcomes -> Nat]
  BY <1>8 DEF IsBalanced, AccumulatorType
<1>17. /\ acc'.outcomes["SCORED"] = acc.outcomes["SCORED"] + One(outcome = "SCORED")
       /\ acc'.outcomes["SCORED"] + Failures' = acc.outcomes["SCORED"] + Failures + 1
  <2>1. PICK o : o = acc.outcomes
    OBVIOUS
  <2>2. PICK u : u = acc'.outcomes
    OBVIOUS
  <2>3. PICK x : x = outcome
    OBVIOUS
  <2>4. u = [o EXCEPT ![x] = @ + 1] /\ o \in [Outcomes -> Nat] /\ x \in Outcomes
    BY <1>3, <1>12, <1>16, <2>1, <2>2, <2>3
  <2>5. /\ u["SCORED"] = o["SCORED"] + One(x = "SCORED")
        /\ u["SCORED"] + (u["MISSING_PREDICTION"] + u["EXECUTION_ERROR"]
                           + u["REPLAY_MISS"] + u["INVALID_OUTPUT"])
             = o["SCORED"] + (o["MISSING_PREDICTION"] + o["EXECUTION_ERROR"]
                              + o["REPLAY_MISS"] + o["INVALID_OUTPUT"]) + 1
    <3>1. \/ x = "SCORED" \/ x = "MISSING_PREDICTION" \/ x = "EXECUTION_ERROR"
          \/ x = "REPLAY_MISS" \/ x = "INVALID_OUTPUT"
      BY <2>4 DEF Outcomes
    <3> QED BY <2>4, <3>1 DEF Outcomes, One
  <2> QED BY <2>1, <2>2, <2>3, <2>5 DEF Failures
<1>18. acc'.outcomes["SCORED"] = Cardinality(SucceededCases')
  <2>1. SucceededCases' = IF answered THEN SucceededCases \cup {position} ELSE SucceededCases
    BY <1>1, <1>3, <1>9, JudgementIsKept DEF SucceededCases
  <2>2. IsFiniteSet(SucceededCases) /\ position \notin SucceededCases
    BY <1>9, <1>11, FS_Subset DEF SucceededCases
  <2>4. Cardinality(SucceededCases') = Cardinality(SucceededCases) + One(answered)
    BY <1>22, <2>1, <2>2, OneMore
  <2> QED BY <1>3, <1>17, <2>4 DEF ScoresAreCounted, One
<1>19. acc'.outcomes["SCORED"] + Failures' = Cardinality(ScoredCases')
  BY <1>13, <1>17 DEF ScoresAreCounted
<1>20. JudgedTruths' = JudgedTruths /\ FilledTruths' = FilledTruths /\ PreciseTruths' = PreciseTruths
  BY <1>1, <1>10, JudgementIsKept DEF JudgedTruths, FilledTruths, PreciseTruths
<1>21. AllOurs' <=> AllOurs
  BY <1>1, JudgementIsKept
<1> QED BY <1>10, <1>12, <1>13, <1>14, <1>15, <1>18, <1>19, <1>20, <1>21 DEF ScoresAreCounted

LEMMA AttributeIsPredicted ==
    ASSUME NEW p, PredictionIsTyped(p), NEW f, Accepts(AttributeOf(p, f))
    PROVE  /\ AttributeOf(p, f).grade \in Grades \cup {None}
           /\ p.system = "skutruth" => AttributeOf(p, f).verified
<1> DEFINE hits == {i \in DOMAIN p.attributes : p.attributes[i].feature = f}
           first == CHOOSE i \in hits : \A j \in hits : i <= j
<1>1. AttributeOf(p, f) # None /\ AttributeOf(p, f).status = "ACCEPTED"
  BY DEF Accepts
<1>2. hits # {} /\ AttributeOf(p, f) = p.attributes[first]
  BY <1>1 DEF AttributeOf
<1>3. hits \in SUBSET Nat
  BY LenProperties DEF PredictionIsTyped
<1>4. first \in hits
  <2> HIDE DEF hits
  <2> QED BY <1>2, <1>3, LeastNatural
<1> HIDE DEF first
<1>5. AttributeOf(p, f) \in Members(p.attributes)
  BY <1>2, <1>4 DEF Members
<1> HIDE DEF hits
<1>6. AttributeOf(p, f).grade \in Grades \cup {None}
  BY <1>5 DEF PredictionIsTyped
<1>7. p.system = "skutruth" => IsCited(AttributeOf(p, f))
  BY <1>5 DEF PredictionIsTyped
<1> QED BY <1>1, <1>6, <1>7 DEF IsCited

LEMMA ScoredTruthIsCounted ==
    ASSUME PredictionsAreTyped, RunIsInPlace, ScoresAreCounted, ScoreTruth
    PROVE  ScoresAreCounted'
<1> DEFINE x == <<position, place>>
           truth == Cases[position].truths[place]
           id == Cases[position].id
           predicted == AttributeOf(predictions[id], truth.feature)
           judged == Judgeable(truth)
           accepts == Accepts(predicted)
           committed == Answered(id) /\ accepts
           precise == committed /\ (judged \/ truth.applicability = "NOT_APPLICABLE")
<1>1. /\ place > 0 /\ place <= Len(Cases[position].truths) /\ place' = place + 1
      /\ position' = position /\ UNCHANGED <<manifest, split, predictions>>
      /\ acc' = IF Answered(id) THEN ScoreAttribute(acc, truth, predicted) ELSE ScoreAbsent(acc, truth)
  BY DEF ScoreTruth, predicting
<1>2. /\ position \in DOMAIN Cases /\ position \in Nat \ {0}
      /\ place \in DOMAIN Cases[position].truths /\ place \in Nat \ {0}
  BY <1>1, CasesAreOfTheManifest DEF RunIsInPlace, CasesAreTyped
<1>3. truth.applicability \in Applicabilities
  BY <1>2, CasesAreOfTheManifest DEF CasesAreTyped
<1>4. TruthOf(x) = truth
  BY DEF TruthOf
<1>5. (Judged(x) <=> judged) /\ (Committed(x) <=> committed) /\ (Precise(x) <=> precise)
  <2>1. Judged(x) <=> judged
    BY <1>4 DEF Judged, Judgeable
  <2>2. Committed(x) <=> committed
    BY <1>4 DEF Committed, Succeeded
  <2> QED BY <1>4, <2>1, <2>2 DEF Precise
<1>6. ScoredCases' = ScoredCases
  BY <1>1, <1>2 DEF ScoredCases
<1>7. x \notin ScoredTruths /\ ScoredTruths' = ScoredTruths \cup {x}
  <2>1. position \notin 1..(position - 1) /\ place \notin 1..(place - 1)
    BY <1>2
  <2> DEFINE earlier == UNION {{<<k, i>> : i \in DOMAIN Cases[k].truths} : k \in 1..(position - 1)}
             before == {<<position, i>> : i \in 1..(place - 1)}
             after == {<<position, i>> : i \in 1..(place' - 1)}
  <2>2. x \notin earlier
    <3> SUFFICES ASSUME NEW k \in 1..(position - 1), NEW i \in DOMAIN Cases[k].truths, x = <<k, i>>
                 PROVE  FALSE
      OBVIOUS
    <3>1. k = position
      OBVIOUS
    <3> QED BY <2>1, <3>1
  <2>3. x \notin before
    <3> SUFFICES ASSUME NEW i \in 1..(place - 1), x = <<position, i>>
                 PROVE  FALSE
      OBVIOUS
    <3>1. i = place
      OBVIOUS
    <3> QED BY <2>1, <3>1
  <2>4. 1..(place' - 1) = 1..(place - 1) \cup {place}
    BY <1>1, <1>2
  <2>5. after = before \cup {x}
    BY <2>4
  <2>6. Cases' = Cases /\ position' = position
    BY <1>1, CasesAreOfTheSplit
  <2>7. ScoredTruths' = earlier \cup after
    BY <2>6 DEF ScoredTruths
  <2>8. ScoredTruths = earlier \cup before
    BY DEF ScoredTruths
  <2> HIDE DEF earlier, before, after, x
  <2> QED BY <2>2, <2>3, <2>5, <2>7, <2>8
<1>8. IsBalanced(acc) /\ IsFiniteSet(ScoredTruths)
  BY DEF ScoresAreCounted
<1>9. Answered(id) => PredictionIsTyped(predictions[id]) /\ id \in DOMAIN predictions
  BY DEF PredictionsAreTyped, Answered
<1>10. committed => predicted.grade \in Grades \cup {None} /\ (AllOurs => predicted.verified)
  <2> SUFFICES ASSUME committed
               PROVE  predicted.grade \in Grades \cup {None} /\ (AllOurs => predicted.verified)
    OBVIOUS
  <2>1. PredictionIsTyped(predictions[id]) /\ id \in DOMAIN predictions
    BY <1>9
  <2> DEFINE p == predictions[id]
             f == truth.feature
  <2>2. AllOurs => p.system = "skutruth"
    BY <2>1 DEF AllOurs
  <2>3. PredictionIsTyped(p) /\ Accepts(AttributeOf(p, f))
    BY <2>1
  <2> HIDE DEF p, f, x, truth, id
  <2>4. AttributeOf(p, f).grade \in Grades \cup {None} /\ (p.system = "skutruth" => AttributeOf(p, f).verified)
    BY <2>3, AttributeIsPredicted
  <2> QED BY <2>2, <2>4 DEF p, f
<1>11. committed \in BOOLEAN /\ judged \in BOOLEAN /\ precise \in BOOLEAN
  BY DEF Answered, Accepts, Judgeable
<1> HIDE DEF x, truth, id, predicted, judged
<1>12. /\ IsBalanced(acc') /\ OfTheCase(acc, acc')
       /\ acc'.coverage.den >= acc.coverage.den + One(judged)
       /\ acc'.coverage.num = acc.coverage.num + One(judged /\ committed)
       /\ acc'.precision.den = acc.precision.den + One(precise)
       /\ \/ acc'.supported = acc.supported
          \/ committed /\ acc'.supported = Add(acc.supported, predicted.verified)
  <2>1. /\ acc.coverage \in TallyType /\ acc.precision \in TallyType
    BY <1>8 DEF IsBalanced, AccumulatorType
  <2>2. CASE Answered(id)
    <3>1. acc' = ScoreAttribute(acc, truth, predicted)
      BY <1>1, <2>2 DEF id, truth, predicted
    <3>2. accepts => predicted.grade \in Grades \cup {None}
      BY <1>10, <2>2
    <3>3. /\ IsBalanced(acc') /\ OfTheCase(acc, acc')
          /\ acc'.coverage.den = acc.coverage.den + One(Judgeable(truth))
          /\ acc'.coverage.num = acc.coverage.num + One(Judgeable(truth) /\ Accepts(predicted))
          /\ acc'.precision.den = acc.precision.den
                + One(Accepts(predicted) /\ (Judgeable(truth) \/ truth.applicability = "NOT_APPLICABLE"))
          /\ acc'.supported = IF Accepts(predicted) /\ truth.applicability = "APPLICABLE"
                              THEN Add(acc.supported, predicted.verified) ELSE acc.supported
      BY <1>3, <1>8, <3>1, <3>2, AnsweredIsScored
    <3>4. (accepts <=> committed) /\ (Judgeable(truth) <=> judged)
      BY <2>2 DEF judged
    <3>5. acc'.coverage.den >= acc.coverage.den + One(judged)
      BY <2>1, <3>3, <3>4 DEF One, TallyType
    <3> QED BY <3>3, <3>4, <3>5 DEF One
  <2>3. CASE ~Answered(id)
    <3>1. acc' = ScoreAbsent(acc, truth)
      BY <1>1, <2>3 DEF id, truth
    <3>2. /\ IsBalanced(acc') /\ OfTheCase(acc, acc')
          /\ acc'.coverage.den >= acc.coverage.den + One(Judgeable(truth))
          /\ acc'.coverage.num = acc.coverage.num /\ acc'.precision.den = acc.precision.den
          /\ acc'.supported = acc.supported
      BY <1>3, <1>8, <3>1, AbsentIsScored
    <3>3. ~committed /\ ~precise /\ ~(judged /\ committed)
      BY <2>3
    <3> QED BY <2>1, <3>2, <3>3 DEF One, TallyType, judged
  <2> QED BY <2>2, <2>3
<1> HIDE DEF committed, precise
<1>13. IsFiniteSet(ScoredTruths')
  BY <1>7, <1>8, FS_AddElement
<1>14. Cardinality(JudgedTruths') <= acc'.coverage.den
  <2>1. JudgedTruths' = IF judged THEN JudgedTruths \cup {x} ELSE JudgedTruths
    BY <1>1, <1>5, <1>7, JudgementIsKept DEF JudgedTruths
  <2>2. IsFiniteSet(JudgedTruths) /\ x \notin JudgedTruths
    BY <1>7, <1>8, FS_Subset DEF JudgedTruths
  <2>3. Cardinality(JudgedTruths') = Cardinality(JudgedTruths) + One(judged) /\ Cardinality(JudgedTruths) \in Nat
    BY <1>11, <2>1, <2>2, OneMore
  <2>4. acc.coverage.den \in Nat /\ acc'.coverage.den \in Nat
    BY <1>8, <1>12 DEF IsBalanced, AccumulatorType, TallyType
  <2>5. Cardinality(JudgedTruths) <= acc.coverage.den
    BY DEF ScoresAreCounted
  <2> QED BY <1>12, <2>3, <2>4, <2>5 DEF One
<1>15. acc'.coverage.num = Cardinality(FilledTruths')
  <2> DEFINE ok == judged /\ committed
  <2>1. FilledTruths' = IF ok THEN FilledTruths \cup {x} ELSE FilledTruths
    BY <1>1, <1>5, <1>7, JudgementIsKept DEF FilledTruths
  <2>2. IsFiniteSet(FilledTruths) /\ x \notin FilledTruths
    BY <1>7, <1>8, FS_Subset DEF FilledTruths
  <2>3. ok \in BOOLEAN /\ acc'.coverage.num = acc.coverage.num + One(ok)
    BY <1>12
  <2> HIDE DEF ok
  <2>4. Cardinality(FilledTruths') = Cardinality(FilledTruths) + One(ok)
    BY <2>1, <2>2, <2>3, OneMore
  <2> QED BY <2>3, <2>4 DEF ScoresAreCounted
<1>16. acc'.precision.den = Cardinality(PreciseTruths')
  <2>1. PreciseTruths' = IF precise THEN PreciseTruths \cup {x} ELSE PreciseTruths
    BY <1>1, <1>5, <1>7, JudgementIsKept DEF PreciseTruths
  <2>2. IsFiniteSet(PreciseTruths) /\ x \notin PreciseTruths
    BY <1>7, <1>8, FS_Subset DEF PreciseTruths
  <2>3. Cardinality(PreciseTruths') = Cardinality(PreciseTruths) + One(precise)
    BY <1>11, <2>1, <2>2, OneMore
  <2> QED BY <1>12, <2>3 DEF ScoresAreCounted
<1>17. AllOurs' => acc'.supported.num = acc'.supported.den
  <2>1. AllOurs' <=> AllOurs
    BY <1>1, JudgementIsKept
  <2>2. acc.supported \in TallyType
    BY <1>8 DEF IsBalanced, AccumulatorType
  <2>3. AllOurs => acc.supported.num = acc.supported.den
    BY DEF ScoresAreCounted
  <2>4. CASE acc'.supported = acc.supported
    BY <2>1, <2>3, <2>4
  <2>5. CASE committed /\ acc'.supported = Add(acc.supported, predicted.verified)
    <3>1. /\ acc'.supported.den = acc.supported.den + 1
          /\ acc'.supported.num = acc.supported.num + One(predicted.verified)
      BY <2>2, <2>5, AddedIsATally
    <3> QED BY <1>10, <2>1, <2>3, <2>5, <3>1 DEF One
  <2> QED BY <1>12, <2>4, <2>5
<1>18. IdentifiedCases' = IdentifiedCases /\ FalseExactCases' = FalseExactCases /\ SucceededCases' = SucceededCases
  BY <1>1, <1>6, JudgementIsKept DEF IdentifiedCases, FalseExactCases, SucceededCases
<1>19. /\ acc'.identity = acc.identity /\ acc'.falseExact = acc.falseExact /\ acc'.outcomes = acc.outcomes
       /\ Failures' = Failures
  BY <1>12 DEF OfTheCase, Failures
<1> QED BY <1>6, <1>12, <1>13, <1>14, <1>15, <1>16, <1>17, <1>18, <1>19 DEF ScoresAreCounted

LEMMA EndedCaseIsCounted ==
    ASSUME PredictionsAreTyped, RunIsInPlace, ScoresAreCounted, EndCase
    PROVE  ScoresAreCounted'
<1>1. /\ place > 0 /\ Len(Cases[position].truths) < place /\ place' = 0
      /\ position' = position + 1 /\ acc' = acc /\ UNCHANGED <<manifest, split, predictions>>
  BY DEF EndCase, predicting
<1>2. /\ position \in DOMAIN Cases /\ position \in Nat \ {0} /\ place \in Nat \ {0}
      /\ DOMAIN Cases[position].truths = 1..(place - 1)
  BY <1>1, CasesAreOfTheManifest DEF RunIsInPlace, CasesAreTyped
<1>3. ScoredCases' = ScoredCases
  BY <1>1, <1>2 DEF ScoredCases
<1>4. ScoredTruths' = ScoredTruths
  <2>1. 1..(position' - 1) = 1..(position - 1) \cup {position} /\ 1..(place' - 1) = {}
    BY <1>1, <1>2
  <2>2. Cases' = Cases
    BY <1>1, CasesAreOfTheSplit
  <2> DEFINE earlier == UNION {{<<k, i>> : i \in DOMAIN Cases[k].truths} : k \in 1..(position - 1)}
             all == UNION {{<<k, i>> : i \in DOMAIN Cases[k].truths} : k \in 1..(position' - 1)}
             last == {<<position, i>> : i \in DOMAIN Cases[position].truths}
  <2>3. ScoredTruths' = all
    <3>1. ScoredTruths' = all \cup {<<position', i>> : i \in 1..(place' - 1)}
      BY <2>2 DEF ScoredTruths
    <3>2. {<<position', i>> : i \in 1..(place' - 1)} = {}
      BY <2>1
    <3> HIDE DEF all
    <3> QED BY <3>1, <3>2
  <2>4. ScoredTruths = earlier \cup last
    BY <1>2 DEF ScoredTruths
  <2>5. all \subseteq earlier \cup last
    <3> SUFFICES ASSUME NEW k \in 1..(position' - 1), NEW i \in DOMAIN Cases[k].truths
                 PROVE  <<k, i>> \in earlier \cup last
      OBVIOUS
    <3>1. CASE k \in 1..(position - 1)
      BY <3>1
    <3>2. CASE k = position
      BY <3>2
    <3> QED BY <2>1, <3>1, <3>2
  <2>6. earlier \subseteq all
    BY <2>1
  <2>7. last \subseteq all
    <3>1. position \in 1..(position' - 1)
      BY <2>1
    <3> QED BY <3>1
  <2> HIDE DEF earlier, all, last
  <2> QED BY <2>3, <2>4, <2>5, <2>6, <2>7
<1>5. /\ IdentifiedCases' = IdentifiedCases /\ FalseExactCases' = FalseExactCases
      /\ SucceededCases' = SucceededCases
  BY <1>1, <1>3, JudgementIsKept DEF IdentifiedCases, FalseExactCases, SucceededCases
<1>6. JudgedTruths' = JudgedTruths /\ FilledTruths' = FilledTruths /\ PreciseTruths' = PreciseTruths
  BY <1>1, <1>4, JudgementIsKept DEF JudgedTruths, FilledTruths, PreciseTruths
<1>7. (AllOurs' <=> AllOurs) /\ Failures' = Failures
  BY <1>1, JudgementIsKept DEF Failures
<1> QED BY <1>1, <1>3, <1>4, <1>5, <1>6, <1>7 DEF ScoresAreCounted

LEMMA SameIsCounted ==
    ASSUME ScoresAreCounted, UNCHANGED <<manifest, split, predictions, position, place, acc>>
    PROVE  /\ ScoresAreCounted'
           /\ ScoredCases' = ScoredCases /\ Cases' = Cases
<1>1. Cases' = Cases
  BY CasesAreOfTheSplit
<1>2. ScoredCases' = ScoredCases /\ ScoredTruths' = ScoredTruths
  BY <1>1 DEF ScoredCases, ScoredTruths
<1>3. /\ IdentifiedCases' = IdentifiedCases /\ FalseExactCases' = FalseExactCases
      /\ SucceededCases' = SucceededCases
  BY <1>2, JudgementIsKept DEF IdentifiedCases, FalseExactCases, SucceededCases
<1>4. JudgedTruths' = JudgedTruths /\ FilledTruths' = FilledTruths /\ PreciseTruths' = PreciseTruths
  BY <1>2, JudgementIsKept DEF JudgedTruths, FilledTruths, PreciseTruths
<1>5. (AllOurs' <=> AllOurs) /\ Failures' = Failures
  BY JudgementIsKept DEF Failures
<1> QED BY <1>1, <1>2, <1>3, <1>4, <1>5 DEF ScoresAreCounted

\* Before scoring nothing is counted; each of its steps counts what it scores.
LEMMA ScoresAreKept ==
    ASSUME RunIsTyped, ScoresAreCounted, [Next]_vars
    PROVE  ScoresAreCounted' \/ NothingScored'
<1>1. PredictionsAreTyped /\ RunIsInPlace
  BY DEF RunIsTyped
<1>2. phase \in {"setup", "extract", "extracted", "record", "recorded", "predict"} => NothingScored
  BY <1>1 DEF RunIsInPlace, NothingScored
<1>3. ASSUME NothingScored, UNCHANGED scoring
      PROVE  NothingScored'
  BY <1>3 DEF NothingScored, scoring
<1>4. CASE SetUp
  BY <1>2, <1>3, <1>4 DEF SetUp
<1>5. CASE Extract
  BY <1>2, <1>3, <1>5 DEF Extract
<1>6. CASE BeginRecord
  BY <1>2, <1>3, <1>6 DEF BeginRecord, scoring
<1>7. CASE AcceptAttribute
  BY <1>2, <1>3, <1>7 DEF AcceptAttribute, scoring
<1>8. CASE WithholdAttribute
  BY <1>2, <1>3, <1>8 DEF WithholdAttribute, scoring
<1>9. CASE FinishRecord
  BY <1>2, <1>3, <1>9 DEF FinishRecord, scoring
<1>10. CASE LoadManifest
  BY <1>2, <1>3, <1>10 DEF LoadManifest
<1>11. CASE PredictAny
  BY <1>2, <1>3, <1>11 DEF PredictAny, Predict, scoring
<1>12. CASE BeginScoring
  BY <1>2, <1>3, <1>12 DEF BeginScoring, scoring
<1>13. CASE BeginCase
  BY <1>1, <1>13, BegunCaseIsCounted
<1>14. CASE ScoreTruth
  BY <1>1, <1>14, ScoredTruthIsCounted
<1>15. CASE EndCase
  BY <1>1, <1>15, EndedCaseIsCounted
<1>16. CASE BuildReport
  BY <1>16, SameIsCounted DEF BuildReport, predicting
<1>17. CASE UNCHANGED vars
  BY <1>17, SameIsCounted DEF vars, predicting, scoring
<1> QED BY <1>4, <1>5, <1>6, <1>7, <1>8, <1>9, <1>10, <1>11, <1>12, <1>13, <1>14, <1>15, <1>16, <1>17
        DEF Next

LEMMA ScoreInvariant == Spec => []ScoresAreCounted
<1>1. Init => NothingScored
  BY DEF Init, NothingScored
<1>2. RunIsTyped /\ ScoresAreCounted /\ [Next]_vars => ScoresAreCounted' \/ NothingScored'
  BY ScoresAreKept
<1> QED BY <1>1, <1>2, StartIsCounted, RunInvariant, PTL DEF Spec

\* The report is of every case of the split.
LEMMA AllAreScored ==
    ASSUME RunIsTyped, BuildReport
    PROVE  ScoredCases = DOMAIN Cases
<1>1. RunIsInPlace /\ CasesAreTyped /\ place = 0 /\ position > Len(Cases)
  BY DEF RunIsTyped, BuildReport
<1>2. position - 1 = Len(Cases)
  BY <1>1 DEF RunIsInPlace, CasesAreTyped
<1> QED BY <1>1, <1>2 DEF ScoredCases, CasesAreTyped

\* A case fails, or it does not.
LEMMA FailuresAreTheRest ==
    ASSUME RunIsInPlace, ScoresAreCounted
    PROVE  Failures = Cardinality({k \in ScoredCases : ~Succeeded(k)})
<1> DEFINE failed == {k \in ScoredCases : ~Succeeded(k)}
<1>1. IsFiniteSet(ScoredCases)
  BY ScoredCasesAreFinite
<1>2. SucceededCases \subseteq ScoredCases /\ failed = ScoredCases \ SucceededCases
  BY DEF SucceededCases
<1>3. SucceededCases \cap ScoredCases = SucceededCases
  BY <1>2
<1>4. Cardinality(failed) = Cardinality(ScoredCases) - Cardinality(ScoredCases \cap SucceededCases)
  BY <1>1, <1>2, FS_Difference, FS_Subset
<1>5. /\ acc.outcomes["SCORED"] = Cardinality(SucceededCases)
      /\ acc.outcomes["SCORED"] + Failures = Cardinality(ScoredCases)
  BY DEF ScoresAreCounted
<1>6. acc.outcomes \in [Outcomes -> Nat]
  BY DEF ScoresAreCounted, IsBalanced, AccumulatorType
<1>7. acc.outcomes["SCORED"] \in Nat /\ Failures \in Nat
  BY <1>6 DEF Outcomes, Failures
<1>8. ScoredCases \cap SucceededCases = SucceededCases
  BY <1>3
<1> HIDE DEF failed
<1>9. Cardinality(failed) = Cardinality(ScoredCases) - Cardinality(SucceededCases)
  BY <1>4, <1>8
<1> QED BY <1>5, <1>7, <1>9 DEF failed

LEMMA ReportIsKept ==
    ASSUME RunIsTyped, ScoresAreCounted, ReportIsOfTheScores, [Next]_vars
    PROVE  ReportIsOfTheScores'
<1>1. RunIsInPlace
  BY DEF RunIsTyped
<1>2. CASE BuildReport
  <2>1. UNCHANGED <<manifest, split, predictions, position, place, acc>>
    BY <1>2 DEF BuildReport, predicting
  <2>2. ScoredCases' = ScoredCases /\ Cases' = Cases /\ predictions' = predictions
    BY <2>1, SameIsCounted
  <2>3. ScoredCases = DOMAIN Cases
    BY <1>2, AllAreScored
  <2>4. report'.failed = Failures
    BY <1>2 DEF BuildReport
  <2>5. report'.tokens.reported <=> \E id \in Relevant : predictions[id].tokens # None
    <3> DEFINE tokens == [id \in Relevant |-> predictions[id].tokens]
    <3>1. report'.tokens = SumOrNone(tokens)
      BY <1>2 DEF BuildReport
    <3>2. SumOrNone(tokens).reported <=> \E id \in DOMAIN tokens : tokens[id] # None
      <4> HIDE DEF tokens
      <4> QED BY DEF SumOrNone
    <3> QED BY <3>1, <3>2
  <2>6. Relevant = {id \in DOMAIN predictions : \E k \in ScoredCases : Cases[k].id = id}
    BY <2>3 DEF Relevant, UnexpectedPredictions, Members
  <2>7. (\E id \in Relevant : predictions[id].tokens # None) <=>
           \E k \in ScoredCases : Cases[k].id \in DOMAIN predictions /\ predictions[Cases[k].id].tokens # None
    BY <2>6
  <2>8. {k \in ScoredCases' : ~Succeeded(k)'} = {k \in ScoredCases : ~Succeeded(k)}
    BY <2>2 DEF Succeeded, Answered
  <2> QED BY <1>1, <2>2, <2>4, <2>5, <2>7, <2>8, FailuresAreTheRest DEF ReportIsOfTheScores
<1>3. CASE UNCHANGED vars
  <2>1. /\ UNCHANGED <<manifest, split, predictions, position, place, acc>>
        /\ UNCHANGED <<phase, report>>
    BY <1>3 DEF vars, predicting, scoring
  <2>2. ScoredCases' = ScoredCases /\ Cases' = Cases /\ predictions' = predictions
    BY <2>1, SameIsCounted
  <2>3. {k \in ScoredCases' : ~Succeeded(k)'} = {k \in ScoredCases : ~Succeeded(k)}
    BY <2>2 DEF Succeeded, Answered
  <2> QED BY <2>1, <2>2, <2>3 DEF ReportIsOfTheScores
<1>4. CASE Next /\ ~BuildReport
  <2>1. phase' # "done"
    <3>1. place > 0 => phase = "score"
      BY <1>1 DEF RunIsInPlace
    <3>2. CASE ScoreTruth
      BY <3>1, <3>2 DEF ScoreTruth
    <3>3. CASE EndCase
      BY <3>1, <3>3 DEF EndCase
    <3>4. CASE BeginCase
      BY <3>4 DEF BeginCase
    <3>5. CASE SetUp \/ Extract
      BY <3>5 DEF SetUp, Extract
    <3>6. CASE BeginRecord \/ AcceptAttribute \/ WithholdAttribute \/ FinishRecord
      BY <3>6 DEF BeginRecord, AcceptAttribute, WithholdAttribute, FinishRecord
    <3>7. CASE LoadManifest \/ PredictAny \/ BeginScoring
      BY <3>7 DEF LoadManifest, PredictAny, Predict, BeginScoring
    <3> QED BY <1>4, <3>2, <3>3, <3>4, <3>5, <3>6, <3>7 DEF Next
  <2> QED BY <2>1 DEF ReportIsOfTheScores
<1> QED BY <1>2, <1>3, <1>4

LEMMA ReportInvariant == Spec => []ReportIsOfTheScores
<1>1. Init => ReportIsOfTheScores
  BY DEF Init, ReportIsOfTheScores
<1>2. RunIsTyped /\ ScoresAreCounted /\ ReportIsOfTheScores /\ [Next]_vars => ReportIsOfTheScores'
  BY ReportIsKept
<1> QED BY <1>1, <1>2, RunInvariant, ScoreInvariant, PTL DEF Spec

LEMMA CountsFollowTheTruth == ScoresAreCounted /\ ReportIsOfTheScores => ScoresFollowTheTruth
<1> SUFFICES ASSUME ScoresAreCounted, ReportIsOfTheScores PROVE ScoresFollowTheTruth
  OBVIOUS
<1>1. /\ IdentifiedCases = {k \in ScoredCases :
            /\ Claims(k, Cases[k].disposition)
            /\ Cases[k].disposition = "EXACT" =>
                  /\ predictions[Cases[k].id].mpn # None
                  /\ CanonicalMpn[predictions[Cases[k].id].mpn] = CanonicalMpn[Cases[k].mpn]}
      /\ PreciseTruths = {t \in ScoredTruths :
            Committed(t) /\ (Judged(t) \/ TruthOf(t).applicability = "NOT_APPLICABLE")}
  BY DEF IdentifiedCases, Identified, PreciseTruths, Precise
<1>2. /\ acc.precision.num <= acc.normalization.num
      /\ acc.normalization.den = acc.coverage.num
      /\ SumOverGrades = acc.coverage.num /\ SumOfCitations = acc.coverage.num
      /\ acc.buyer.accepted + acc.buyer.withheld = acc.buyer.applicable
  BY DEF ScoresAreCounted, IsBalanced, SumOverGrades, GradeSum, SumOfCitations, CitationSum
<1>3. phase = "done" =>
         /\ report.failed = Cardinality({k \in ScoredCases : ~Succeeded(k)})
         /\ report.tokens.reported <=>
               \E k \in ScoredCases :
                   Cases[k].id \in DOMAIN predictions /\ predictions[Cases[k].id].tokens # None
  BY DEF ReportIsOfTheScores
<1> QED BY <1>1, <1>2, <1>3
        DEF ScoresAreCounted, ScoresFollowTheTruth, FalseExactCases, JudgedTruths, FilledTruths

\* The numbers of a report account for every case of the split and every truth
\* of it: a case that failed is counted and fills nothing, a value withheld is
\* no wrong one, and each committed value has one grade and one citation
\* (eval/scoring.py, eval/report.py).
THEOREM ScoresFollowTheTruthAlways == Spec => []ScoresFollowTheTruth
BY ScoreInvariant, ReportInvariant, CountsFollowTheTruth, PTL

LEMMA CitedIsSupported == RunIsTyped /\ ScoresAreCounted => RecordsAreSupported
<1> SUFFICES ASSUME RunIsTyped, ScoresAreCounted PROVE RecordsAreSupported
  OBVIOUS
<1>1. \A id \in DOMAIN predictions : PredictionIsTyped(predictions[id])
  BY DEF RunIsTyped, PredictionsAreTyped
<1>2. ASSUME NEW id \in DOMAIN predictions, predictions[id].system = "skutruth",
             NEW a \in Members(predictions[id].attributes), a.status = "ACCEPTED"
      PROVE  a.verified /\ a.citation # None /\ a.citation.verified /\ a.citation.page # None
  <2>1. IsCited(a)
    BY <1>1, <1>2 DEF PredictionIsTyped
  <2> QED BY <1>2, <2>1 DEF IsCited
<1>3. AllOurs => acc.supported.num = acc.supported.den
  BY DEF ScoresAreCounted
<1> QED BY <1>2, <1>3 DEF RecordsAreSupported, AllOurs

\* An accepted value of a record comes to the scorer with a located, verified
\* span, and none of this system's values is counted as an unsupported claim
\* (eval/models.py, eval/scoring.py).
THEOREM RecordsAreSupportedAlways == Spec => []RecordsAreSupported
BY RunInvariant, ScoreInvariant, CitedIsSupported, PTL

=================================================================================
