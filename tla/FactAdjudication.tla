---------------------------- MODULE FactAdjudication ----------------------------
(* Which verified facts may occupy a slot of the delivery row:                *)
(* backend/skutruth/adjudication.                                             *)
(*                                                                            *)
(* A mapping registry is a function from the source keys it maps to rules     *)
(*   [label, priority, uom, kind, policy, required]                           *)
(* Labels and keys are numbered in alphabetical order, which only breaks      *)
(* ties.  Operating points are sets of qualifiers.  A value is what its       *)
(* semantic key tells apart: [kind, magnitude, unit] or [kind, text], the     *)
(* magnitude in the base unit, so that a conversion changes the unit alone    *)
(* (the reviewed units of one dimension differ by powers of ten but for       *)
(* inches, minutes and hours).                                                *)
EXTENDS ClaimVerifier, FiniteSets

CONSTANTS
    NoIdentity,     \* no identity was handed to the adjudicator
    NoValue,        \* an adjudicated fact that commits nothing
    AnyUnit,        \* target_uom of a rule that sets none
    AnyKind         \* expected_value_kind of a rule that accepts either

Decided(outcome, decision, reason, value) ==
    [outcome |-> outcome, decision |-> decision, reason |-> reason,
     value |-> value, merged |-> {}]

Refusal(outcome, decision, reason) == Decided(outcome, decision, reason, NoValue)

\* Whether the target can carry the operating point the value is stated under.
Representable(rule, conditions) ==
    \/ rule.policy = "PRESERVE_AS_METADATA"
    \/ rule.policy = "TARGET_ENCODES_CONDITIONS" /\ conditions = rule.required
    \/ rule.policy = "REJECT_IF_CONDITIONED" /\ conditions = {}

\* The value in the unit of the target, when the registry of units can say it.
ValueForTarget(rule, value) ==
    IF rule.uom = AnyUnit \/ value.kind # "numeric" \/ value.unit = rule.uom
    THEN value
    ELSE IF {value.unit, rule.uom} \subseteq Known /\ Convertible(value.unit, rule.uom)
         THEN [kind |-> "numeric", magnitude |-> value.magnitude, unit |-> rule.uom]
         ELSE NoValue

\* Mutant: the identity handed in is checked for a reference, not for this one.
SameProductOrAnyExact(outcome, identity) ==
    identity = NoIdentity \/ identity.disposition = "EXACT"

SameProduct(outcome, identity) ==
    identity = NoIdentity \/ (identity.disposition = "EXACT" /\ identity.exact = outcome.mpn)

KindFits(rule, value) ==
    value.kind \in {"numeric", "alphanumeric"} /\ rule.kind \in {AnyKind, value.kind}

\* One fact on its own; the first objection in this order is the one recorded.
AdjudicateOne(outcome, registry, identity) ==
    LET mapped == outcome.key \in DOMAIN registry
        rule == registry[outcome.key]
    IN  IF ~SameProduct(outcome, identity)
        THEN Refusal(outcome, "WITHHOLD", "IDENTITY_NOT_EXACT")
        ELSE IF outcome.status # "EXACT_SPAN"
        THEN Refusal(outcome, "WITHHOLD", "VERIFICATION_FAILED")
        ELSE IF ~mapped
        THEN Refusal(outcome, "UNMAPPED", "NO_MAPPING")
        ELSE IF ~KindFits(rule, outcome.value)
        THEN Refusal(outcome, "REVIEW", "VALUE_KIND_MISMATCH")
        ELSE IF ~Representable(rule, outcome.conditions)
        THEN Refusal(outcome, "REVIEW", "CONDITION_LOSS")
        ELSE IF ValueForTarget(rule, outcome.value) = NoValue
        THEN Refusal(outcome, "REVIEW", "UNIT_INCOMPATIBLE")
        ELSE Decided(outcome, "COMMIT", "ELIGIBLE", ValueForTarget(rule, outcome.value))

\* The keys whose facts are committed, and those that want one label.
Committed(facts) == {k \in DOMAIN facts : facts[k].decision = "COMMIT"}

Wanting(facts, registry, label) == {k \in Committed(facts) : registry[k].label = label}

\* Which of several identical facts carries the cell.
Keeper(group, registry) ==
    CHOOSE k \in group : \A j \in group :
        \/ registry[k].priority < registry[j].priority
        \/ registry[k].priority = registry[j].priority /\ k <= j

Points(facts, group) == {facts[k].outcome.conditions : k \in group}
Values(facts, group) == {facts[k].value : k \in group}

\* Mutant: the rule with the lowest priority wins a disagreement.
SettleByPriority(facts, registry) ==
    [k \in DOMAIN facts |->
        IF k \notin Committed(facts) THEN facts[k]
        ELSE LET group == Wanting(facts, registry, registry[k].label)
             IN  IF Cardinality(Points(facts, group)) > 1
                 THEN Refusal(facts[k].outcome, "REVIEW", "MULTIPLE_OPERATING_POINTS")
                 ELSE IF k = Keeper(group, registry)
                 THEN [facts[k] EXCEPT !.merged = group \ {k}]
                 ELSE Refusal(facts[k].outcome, "WITHHOLD", "DUPLICATE_MERGED")]

\* Contests between committed facts: different operating points first, then
\* different values, and facts that agree on both become one.
ResolveConflicts(facts, registry) ==
    [k \in DOMAIN facts |->
        IF k \notin Committed(facts) THEN facts[k]
        ELSE LET group == Wanting(facts, registry, registry[k].label)
             IN  IF Cardinality(Points(facts, group)) > 1
                 THEN Refusal(facts[k].outcome, "REVIEW", "MULTIPLE_OPERATING_POINTS")
                 ELSE IF Cardinality(Values(facts, group)) > 1
                 THEN Refusal(facts[k].outcome, "REVIEW", "CONFLICT")
                 ELSE IF k = Keeper(group, registry)
                 THEN [facts[k] EXCEPT !.merged = group \ {k}]
                 ELSE Refusal(facts[k].outcome, "WITHHOLD", "DUPLICATE_MERGED")]

\* outcomes is a function on the keys that were verified, one outcome each.
Adjudicate(outcomes, registry, identity) ==
    ResolveConflicts([k \in DOMAIN outcomes |->
                        AdjudicateOne(outcomes[k], registry, identity)], registry)

Precedes(rule, other) ==
    \/ rule.priority < other.priority
    \/ rule.priority = other.priority /\ rule.label < other.label

\* The place of a committed fact in the order of priority, then label.
Slot(facts, registry, k) ==
    1 + Cardinality({j \in Committed(facts) : Precedes(registry[j], registry[k])})

\* A number as "{:g}" writes it: six significant digits, halves to even.
SixDigits(number) ==
    LET size == IF number < 0 THEN -number ELSE number
        unit == 10 ^ (CHOOSE e \in 0..9 : /\ size \div 10^e < 10^6
                                           /\ \A d \in 0..(e - 1) : size \div 10^d >= 10^6)
        down == size \div unit
        up == \/ 2 * (size % unit) > unit
              \/ 2 * (size % unit) = unit /\ down % 2 = 1
        rounded == unit * (IF up THEN down + 1 ELSE down)
    IN  IF number < 0 THEN -rounded ELSE rounded

\* What a reader of the row takes the cell to say.
RenderValue(value) ==
    IF value.kind = "numeric" THEN SixDigits(value.magnitude) ELSE value.text

\* The slots a row is written with.
BuildAttributes(facts, registry) ==
    {[slot |-> Slot(facts, registry, k), key |-> k, label |-> registry[k].label,
      reads |-> RenderValue(facts[k].value), value |-> facts[k].value,
      conditions |-> facts[k].outcome.conditions, mpn |-> facts[k].outcome.mpn,
      supporting |-> {k} \cup facts[k].merged] : k \in Committed(facts)}
==============================================================================
