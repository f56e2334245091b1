------------------------------ MODULE EtimSchema ------------------------------
(* The ETIM classification as the program uses it (etim/): the archive that   *)
(* is read, the features of a class, the units values are converted between,  *)
(* the reviewed qualifier rules, the response schema a model is held to, and  *)
(* the validators that make a typed value of what the model returned          *)
(* (extraction/service.py).                                                   *)
(*                                                                            *)
(* Numbers are whole thousandths, and so are the factors of the units.  What  *)
(* a text becomes when case and spacing are folded is given by Fold.          *)
EXTENDS Common, Integers, FiniteSets, SequencesExt

CONSTANTS
    UnitRegistry,   \* the reviewed units: symbol -> [dimension, factor, affine]
    Fold,           \* text -> its folded form
    ConditionKinds

ASSUME UnitsAreReviewed ==
    /\ None \notin DOMAIN UnitRegistry
    /\ \A u \in DOMAIN UnitRegistry : UnitRegistry[u].factor \in Nat \ {0}

FeatureTypes == {"N", "R", "A", "L"}

\* --- units ----------------------------------------------------------------------

IsKnown(unit) == unit \in DOMAIN UnitRegistry
DimensionOf(unit) == UnitRegistry[unit].dimension

\* A plausible slip: every unit the registry holds.
AnyUnits(unit) == DOMAIN UnitRegistry

CompatibleUnits(unit) == {u \in DOMAIN UnitRegistry : DimensionOf(u) = DimensionOf(unit)}

\* A scale that needs an offset is converted to itself only.
IsConvertible(from, to) ==
    from = to \/ ~(UnitRegistry[from].affine \/ UnitRegistry[to].affine)

\* A plausible slip: the factors the wrong way round.
ConvertInverted(number, from, to) ==
    IF from = to THEN number ELSE (number * UnitRegistry[to].factor) \div UnitRegistry[from].factor

Convert(number, from, to) ==
    IF from = to THEN number ELSE (number * UnitRegistry[from].factor) \div UnitRegistry[to].factor

\* --- values ---------------------------------------------------------------------
(* The key is what two observations must share to agree; the raw text ties a  *)
(* derived value to what a source says.                                       *)

Value(key, raw, derivation) == [key |-> key, raw |-> raw, derivation |-> derivation]
NumericKey(number, unit) == <<"numeric", number, unit>>
RangeKey(minimum, maximum, unit) == <<"range", minimum, maximum, unit>>
AlphanumericKey(name) == <<"alphanumeric", name>>
LogicalKey(boolean) == <<"logical", boolean>>
KindOf(value) == value.key[1]
UnitOf(value) == IF KindOf(value) = "range" THEN value.key[4] ELSE value.key[3]

KindForType == [N |-> "numeric", R |-> "range", A |-> "alphanumeric", L |-> "logical"]

NormalizeNumeric(number, unit, to, raw) ==
    Value(NumericKey(Convert(number, unit, to), to), raw,
          IF unit = to THEN "VERBATIM" ELSE "UNIT_CONVERSION")

NormalizeRange(minimum, maximum, unit, to, raw) ==
    Value(RangeKey(Convert(minimum, unit, to), Convert(maximum, unit, to), to), raw,
          IF unit = to THEN "VERBATIM" ELSE "UNIT_CONVERSION")

\* --- the archive ------------------------------------------------------------------

\* A value row that names no value, or no class feature, is reported and left out.
AllowedValues(archive, nr) ==
    {[sort |-> row.sort, id |-> row.value, text |-> archive.values[row.value]] :
        row \in {r \in archive.valueMap : r.nr = nr /\ r.value \in DOMAIN archive.values}}

\* A unit nobody defines is reported, and the feature goes on without a unit.
FeatureOf(archive, row) ==
    [id |-> row.feature, type |-> row.type,
     unit |-> IF row.unit \in DOMAIN archive.units THEN archive.units[row.unit] ELSE None,
     allowed |-> AllowedValues(archive, row.nr)]

IsLoadable(archive, row) == row.feature \in archive.features /\ row.type \in FeatureTypes

\* class -> feature -> the feature
LoadEtim(archive) ==
    [c \in archive.classes |->
        LET rows == {row \in archive.featureMap : row.class = c /\ IsLoadable(archive, row)}
        IN  [f \in {row.feature : row \in rows} |->
                FeatureOf(archive, CHOOSE row \in rows : row.feature = f)]]

\* The members of the picklist whose folded text is this one's, and the first of them.
AllowedAs(feature, text) == {v \in feature.allowed : Fold[v.text] = Fold[text]}
FindAllowed(feature, text) ==
    CHOOSE v \in AllowedAs(feature, text) : \A w \in AllowedAs(feature, text) : v.sort <= w.sort

\* --- reviewed qualifier rules ---------------------------------------------------------

\* A file with an unknown kind, or one that pins a qualifier it does not require, is refused.
ParseDemoClass(data) ==
    IF \A f \in DOMAIN data.qualifiers :
          /\ data.qualifiers[f].required \subseteq ConditionKinds
          /\ DOMAIN data.qualifiers[f].expected \subseteq data.qualifiers[f].required
    THEN data ELSE None

HasRule(config, f) == config # None /\ f \in DOMAIN config.qualifiers
IsBuyerCritical(config, f) == config # None /\ f \in config.buyerCritical

\* --- the response schema -----------------------------------------------------------

\* A unit outside the registry is asked for as it is, and no unit is asked for if there is none.
AcceptedUnits(feature) ==
    IF IsKnown(feature.unit) THEN CompatibleUnits(feature.unit) ELSE {feature.unit} \ {None}

FeatureSchema(feature, config) ==
    [type |-> feature.type, unit |-> feature.unit, units |-> AcceptedUnits(feature),
     texts |-> {v.text : v \in feature.allowed},
     required |-> IF HasRule(config, feature.id)
                  THEN config.qualifiers[feature.id].required ELSE {},
     buyerCritical |-> IsBuyerCritical(config, feature.id)]

BuildExtractionSchema(features, config, wanted) ==
    [f \in DOMAIN features \cap wanted |-> FeatureSchema(features[f], config)]

\* Every field has its type, none is unknown, and every qualifier is of a known kind.
IsWellFormed(p) ==
    p.wellFormed /\ \A i \in DOMAIN p.conditions : p.conditions[i].kind \in ConditionKinds

\* What the response schema of a feature lets a model answer.
FollowsSchema(schema, p) ==
    /\ IsWellFormed(p) /\ p.raw # None /\ p.page # None
    /\ CASE schema.type = "N" -> p.number # None
         [] schema.type = "R" -> p.minimum # None /\ p.maximum # None
         [] schema.type = "A" -> p.text # None /\ (schema.texts # {} => p.text \in schema.texts)
         [] schema.type = "L" -> p.boolean # None
    /\ IF schema.units = {} THEN p.unit = None ELSE p.unit \in schema.units

\* --- from a proposal to a value --------------------------------------------------------

UnitProblems(feature, unit) ==
    CASE feature.unit = None -> IF unit = None THEN {} ELSE {"UNEXPECTED_UNIT"}
      [] feature.unit # None /\ unit = None -> {"MISSING_UNIT"}
      [] feature.unit # None /\ unit # None /\ ~(IsKnown(unit) /\ IsKnown(feature.unit)) ->
            {"UNKNOWN_UNIT"}
      [] OTHER -> CASE DimensionOf(unit) # DimensionOf(feature.unit) -> {"INCOMPATIBLE_UNIT"}
                    [] DimensionOf(unit) = DimensionOf(feature.unit)
                       /\ ~IsConvertible(unit, feature.unit) -> {"UNSUPPORTED_UNIT_CONVERSION"}
                    [] OTHER -> {}

NumberProblems(feature, p) ==
    UnitProblems(feature, p.unit) \cup IF p.finite THEN {} ELSE {"NON_FINITE_NUMBER"}

\* Every reason the payload makes no value; the first is as good as all.
ValueProblems(feature, p) ==
    CASE feature.type = "N" ->
            IF p.number = None THEN {"MALFORMED_PAYLOAD"} ELSE NumberProblems(feature, p)
      [] feature.type = "R" ->
            IF None \in {p.minimum, p.maximum} THEN {"MALFORMED_PAYLOAD"}
            ELSE NumberProblems(feature, p)
                 \cup IF p.minimum > p.maximum THEN {"RANGE_INVERTED"} ELSE {}
      [] feature.type = "A" ->
            CASE p.text = None -> {"MALFORMED_PAYLOAD"}
              [] p.text # None /\ p.unit # None -> {"UNEXPECTED_UNIT"}
              [] OTHER -> IF feature.allowed # {} /\ AllowedAs(feature, p.text) = {}
                          THEN {"NOT_IN_PICKLIST"} ELSE {}
      [] feature.type = "L" ->
            CASE p.boolean = None -> {"MALFORMED_PAYLOAD"}
              [] p.boolean # None /\ p.unit # None -> {"UNEXPECTED_UNIT"}
              [] OTHER -> {}

\* A picklist member is named by its id; any other text by its folded form.
BuildAlphanumeric(feature, p) ==
    IF feature.allowed = {} THEN Value(AlphanumericKey(Fold[p.text]), p.raw, "VERBATIM")
    ELSE Value(AlphanumericKey(FindAllowed(feature, p.text).id), p.raw,
               IF p.text = FindAllowed(feature, p.text).text THEN "VERBATIM" ELSE "ENUM_MAP")

BuildValue(feature, p) ==
    CASE feature.type = "N" ->
            IF feature.unit = None THEN Value(NumericKey(p.number, None), p.raw, "VERBATIM")
            ELSE NormalizeNumeric(p.number, p.unit, feature.unit, p.raw)
      [] feature.type = "R" ->
            IF feature.unit = None THEN Value(RangeKey(p.minimum, p.maximum, None), p.raw, "VERBATIM")
            ELSE NormalizeRange(p.minimum, p.maximum, p.unit, feature.unit, p.raw)
      [] feature.type = "A" -> BuildAlphanumeric(feature, p)
      [] feature.type = "L" -> Value(LogicalKey(p.boolean), p.raw, "VERBATIM")

\* The second look, at the finished value.
IsCanonical(feature, value) ==
    /\ KindOf(value) = KindForType[feature.type]
    /\ KindOf(value) \in {"numeric", "range"} => UnitOf(value) = feature.unit
    /\ KindOf(value) = "range" => value.key[2] <= value.key[3]
    /\ (KindOf(value) = "alphanumeric" /\ feature.allowed # {}) =>
          \E v \in feature.allowed : v.id = value.key[2]

\* --- conditions ---------------------------------------------------------------------
(* An operating point binds a kind at most once: kind -> value.               *)

BindsOnce(conditions) ==
    \A i, j \in DOMAIN conditions : conditions[i].kind = conditions[j].kind => i = j

PointOf(conditions) ==
    [k \in {conditions[i].kind : i \in DOMAIN conditions} |->
        conditions[CHOOSE i \in DOMAIN conditions : conditions[i].kind = k].value]

\* Completeness is the rule's to say, never the model's.
ResolveConditions(config, f, point) ==
    CASE ~HasRule(config, f) -> "UNKNOWN"
      [] HasRule(config, f) /\ config.qualifiers[f].required \subseteq DOMAIN point -> "COMPLETE"
      [] OTHER -> "PARTIAL"

\* Two operating points clash on a kind both bind differently.
ConflictingKinds(p, q) == {k \in DOMAIN p \cap DOMAIN q : p[k] # q[k]}
IsCompatible(p, q) == ConflictingKinds(p, q) = {}
States(p, claimed) == \A k \in DOMAIN claimed : k \in DOMAIN p /\ p[k] = claimed[k]

\* --- the answer to one proposal -----------------------------------------------------

Candidate(f, value, point, completeness, schema, page) ==
    [answer |-> "candidate", code |-> None, feature |-> f, value |-> value, point |-> point,
     completeness |-> completeness, buyerCritical |-> schema.buyerCritical, page |-> page]
Rejected(code) == [answer |-> "rejected", code |-> code]
Abstained == [answer |-> "abstained", code |-> None]

\* A kind bound twice makes no operating point, and nothing catches what it raises.
Raised == [answer |-> "raised", code |-> None]

ValidateOne(f, p, schema, feature, config, pages) ==
    CASE p.raw = None \/ p.page = None -> Rejected("MISSING_SOURCE_FRAGMENT")
      [] p.raw # None /\ p.page # None /\ ~IsWellFormed(p) -> Rejected("MALFORMED_PROPOSAL")
      [] p.raw # None /\ p.page # None /\ IsWellFormed(p) /\ p.page > pages ->
            Rejected("PAGE_OUT_OF_RANGE")
      [] OTHER ->
            IF ValueProblems(feature, p) # {} \/ ~IsCanonical(feature, BuildValue(feature, p))
            THEN Rejected("INVALID_VALUE")
            ELSE IF ~BindsOnce(p.conditions) THEN Raised
            ELSE Candidate(f, BuildValue(feature, p), PointOf(p.conditions),
                           ResolveConditions(config, f, PointOf(p.conditions)), schema, p.page)

\* A proposal is Null, Opaque (anything but an object) or a record of fields.
AnswerTo(f, proposal, schemas, features, config, pages) ==
    CASE f \notin DOMAIN schemas -> Rejected("UNKNOWN_FEATURE")
      [] f \in DOMAIN schemas /\ proposal.shape = "null" -> Abstained
      [] f \in DOMAIN schemas /\ proposal.shape = "other" -> Rejected("MALFORMED_PROPOSAL")
      [] OTHER -> ValidateOne(f, proposal, schemas[f], features[f], config, pages)

\* feature -> answer, for every feature of the payload; nothing comes of it when one raised.
ValidateRawExtraction(payload, schemas, features, config, pages) ==
    [f \in DOMAIN payload |-> AnswerTo(f, payload[f], schemas, features, config, pages)]
IsRaised(answers) == \E f \in DOMAIN answers : answers[f].answer = "raised"
==============================================================================
