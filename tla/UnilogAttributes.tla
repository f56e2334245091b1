---------------------------- MODULE UnilogAttributes ----------------------------
(* Which candidate fills which attribute slot of a delivery row (the mapping  *)
(* half of unilog/attributes.py).                                             *)
(*                                                                            *)
(* A profile is [slots, authority, records, classpath]; its slots are         *)
(* [index, key, label, kind, uom] in delivery order.  A candidate is [key,    *)
(* label, value, decision, authority, evidence]; candidates come as a         *)
(* sequence, in whatever order they were found.  An organizer example is      *)
(* [record, classpath, slots], its slots [index, label, value, uom].          *)
EXTENDS AttributeValues, SequencesExt

CONSTANTS Texts, Units    \* the raw values, and the raw units, in code point order

ASSUME CodePointOrder == Texts \in Seq(ToSet(Texts)) /\ Units \in Seq(ToSet(Units))

ASSUME NoneIsNoObjection ==
    None \notin {"LABEL_MISMATCH", "VALUE_KIND_MISMATCH", "UOM_MISMATCH", "CONFLICTING_VALUES"}

LabelAuthorities == {"ORGANIZER_EXAMPLE", "ORGANIZER_LOV", "HUMAN_APPROVED"}
ValueAuthorities == {"ORGANIZER_EXAMPLE", "MANUFACTURER_EVIDENCE", "HUMAN_APPROVED"}

\* The order of their names, which is that of the candidates.
Authorities ==
    <<"ETIM_REFERENCE", "HUMAN_APPROVED", "MANUFACTURER_EVIDENCE", "MODEL_PROPOSAL",
      "ORGANIZER_EXAMPLE", "ORGANIZER_LOV", "UNRESOLVED">>
Decisions == <<"COMMIT", "REVIEW", "WITHHOLD">>

\* --- profiles -----------------------------------------------------------------

Increasing(indices) == \A m, n \in DOMAIN indices : m < n => indices[m] < indices[n]

IsProfile(profile) ==
    LET slots == profile.slots
    IN  /\ DOMAIN slots # {}
        /\ Increasing([n \in DOMAIN slots |-> slots[n].index])
        /\ IsInjective([n \in DOMAIN slots |-> slots[n].key])

\* A family never licenses labels; a class path does, but not an example's.
CanPopulateLabels(profile, record, classpath) ==
    /\ profile.authority \in LabelAuthorities
    /\ \/ record # None /\ record \in profile.records
       \/ /\ profile.authority # "ORGANIZER_EXAMPLE"
          /\ classpath # None /\ classpath = profile.classpath

\* --- candidates ---------------------------------------------------------------

LicensesManufacturerValue(evidence) ==
    evidence.artifact # None /\ evidence.locator # None /\ evidence.verified

HasValueAuthority(candidate) ==
    /\ candidate.authority \in ValueAuthorities
    /\ candidate.authority = "MANUFACTURER_EVIDENCE" =>
          \E e \in candidate.evidence : LicensesManufacturerValue(e)

IsDeliveryEligible(candidate) ==
    /\ candidate.decision = "COMMIT" /\ candidate.value # None
    /\ UomIsResolved(candidate.value)
    /\ HasValueAuthority(candidate)

Rank(order, x) == IF x = None THEN 0 ELSE CHOOSE n \in DOMAIN order : order[n] = x

\* The parts of the sort key that differ within a slot whose labels agree.
SortKey(candidate) ==
    LET value == candidate.value
    IN  <<Rank(Authorities, candidate.authority), Rank(Decisions, candidate.decision),
          IF value = None THEN 0 ELSE Rank(Texts, value.raw),
          IF value = None THEN 0 ELSE Rank(Units, value.rawUom)>>

Before(a, b) ==
    \E n \in DOMAIN a : a[n] < b[n] /\ \A m \in 1 .. n - 1 : a[m] = b[m]

\* Mutant: of the candidates that may be delivered, the last that came.
LastOf(candidates, places) == candidates[CHOOSE m \in places : \A n \in places : n <= m]

\* The first of the candidates at these places, the earlier of two that tie.
FirstOf(candidates, places) ==
    candidates[CHOOSE m \in places : \A n \in places \ {m} :
        \/ Before(SortKey(candidates[m]), SortKey(candidates[n]))
        \/ ~Before(SortKey(candidates[n]), SortKey(candidates[m])) /\ m < n]

\* --- one slot -----------------------------------------------------------------

Resolution(decision, reason, candidate) ==
    [decision |-> decision, reason |-> reason, candidate |-> candidate]

CandidateReason(candidate) ==
    CASE candidate.decision = "REVIEW" -> "CANDIDATE_REQUIRES_REVIEW"
      [] candidate.decision = "WITHHOLD" -> "CANDIDATE_WITHHELD"
      [] candidate.decision = "COMMIT" ->
            IF ~UomIsResolved(candidate.value) THEN "UNKNOWN_UOM"
            ELSE IF HasValueAuthority(candidate) THEN "ELIGIBLE"
            ELSE IF candidate.authority = "MANUFACTURER_EVIDENCE"
                 THEN "MANUFACTURER_EVIDENCE_UNVERIFIED"
            ELSE "INSUFFICIENT_VALUE_AUTHORITY"

\* Mutant: values are not compared.
ObjectionToForm(slot, candidates) ==
    LET values == {c.value : c \in ToSet(candidates)} \ {None}
    IN  IF \E c \in ToSet(candidates) : c.label # slot.label THEN "LABEL_MISMATCH"
        ELSE IF slot.kind # None /\ \E v \in values : v.kind # slot.kind
             THEN "VALUE_KIND_MISMATCH"
        ELSE IF slot.uom # None /\ \E v \in values : v.uom # slot.uom THEN "UOM_MISMATCH"
        ELSE None

\* What stands against deciding among the candidates at all.
Objection(slot, candidates) ==
    LET values == {c.value : c \in ToSet(candidates)} \ {None}
    IN  IF \E c \in ToSet(candidates) : c.label # slot.label THEN "LABEL_MISMATCH"
        ELSE IF slot.kind # None /\ \E v \in values : v.kind # slot.kind
             THEN "VALUE_KIND_MISMATCH"
        ELSE IF slot.uom # None /\ \E v \in values : v.uom # slot.uom THEN "UOM_MISMATCH"
        ELSE IF Cardinality({SemanticKey(v) : v \in values}) > 1 THEN "CONFLICTING_VALUES"
        ELSE None

\* Mutant: what is not eligible is withheld.
NotEligible(candidates) ==
    Resolution("WITHHOLD", CandidateReason(FirstOf(candidates, DOMAIN candidates)), None)

Undecided(candidates) ==
    LET decided == \E c \in ToSet(candidates) : c.decision \in {"REVIEW", "COMMIT"}
    IN  Resolution(IF decided THEN "REVIEW" ELSE "WITHHOLD",
                   CandidateReason(FirstOf(candidates, DOMAIN candidates)), None)

ResolveSlot(slot, candidates) ==
    LET eligible == {n \in DOMAIN candidates : IsDeliveryEligible(candidates[n])}
        valued == {n \in DOMAIN candidates : candidates[n].value # None}
        objection == Objection(slot, candidates)
    IN  IF DOMAIN candidates = {} THEN Resolution("WITHHOLD", "NO_CANDIDATE", None)
        ELSE IF objection # None THEN Resolution("REVIEW", objection, None)
        ELSE IF eligible = {} THEN Undecided(candidates)
        ELSE Resolution("COMMIT",
                        IF Cardinality(valued) > 1 THEN "DUPLICATE_AGREEMENT" ELSE "ELIGIBLE",
                        FirstOf(candidates, eligible))

\* --- the mapping of a record --------------------------------------------------

\* Each at the place at which it came.
Grouped(candidates, slot) ==
    Restrict(candidates, {n \in DOMAIN candidates : candidates[n].key = slot.key})

MappingDecision(profile, record, classpath, resolutions) ==
    IF ~CanPopulateLabels(profile, record, classpath) THEN "WITHHOLD"
    ELSE IF \E n \in DOMAIN resolutions : resolutions[n].decision = "REVIEW" THEN "REVIEW"
    ELSE "COMMIT"

\* The first reason met in slot order.
MappingReason(profile, record, classpath, resolutions) ==
    LET reviewed == {n \in DOMAIN resolutions : resolutions[n].decision = "REVIEW"}
        first == CHOOSE n \in reviewed : \A m \in reviewed : n <= m
    IN  CASE profile.authority \notin LabelAuthorities -> "PROFILE_AUTHORITY_INSUFFICIENT"
          [] profile.authority \in LabelAuthorities ->
                IF ~CanPopulateLabels(profile, record, classpath) THEN "PROFILE_OUT_OF_SCOPE"
                ELSE IF reviewed # {} THEN resolutions[first].reason ELSE "ELIGIBLE"

ResolveAttributeCandidates(profile, candidates, record, classpath) ==
    LET resolutions == [n \in DOMAIN profile.slots |->
                           ResolveSlot(profile.slots[n], Grouped(candidates, profile.slots[n]))]
    IN  [profile |-> profile, record |-> record, classpath |-> classpath,
         resolutions |-> resolutions,
         decision |-> MappingDecision(profile, record, classpath, resolutions),
         reason |-> MappingReason(profile, record, classpath, resolutions)]

\* The cells of the slots: none at all without the authority for the labels,
\* and a label alone where nothing was committed.
DeliverySlots(mapping) ==
    IF ~CanPopulateLabels(mapping.profile, mapping.record, mapping.classpath) THEN << >>
    ELSE [n \in DOMAIN mapping.profile.slots |->
             LET slot == mapping.profile.slots[n]
                 resolution == mapping.resolutions[n]
                 filled == /\ resolution.decision = "COMMIT" /\ resolution.candidate # None
                           /\ IsDeliveryEligible(resolution.candidate)
             IN  [index |-> slot.index, label |-> slot.label,
                  value |-> IF filled THEN DeliveryValue(resolution.candidate.value) ELSE None,
                  uom |-> IF filled THEN DeliveryUom(resolution.candidate.value) ELSE None]]

\* --- organizer examples -------------------------------------------------------

\* A value or a unit without a label is refused.
IsExample(example) ==
    /\ example.record # None
    /\ \A n \in DOMAIN example.slots :
          example.slots[n].label = None =>
              example.slots[n].value = None /\ example.slots[n].uom = None

IsCatalog(examples) ==
    /\ examples # << >> /\ \A n \in DOMAIN examples : IsExample(examples[n])
    /\ IsInjective([n \in DOMAIN examples |-> examples[n].record])

Labelled(example) == {n \in DOMAIN example.slots : example.slots[n].label # None}

\* In delivery order, as an example's slots are.
Labels(example) ==
    {<<example.slots[n].index, example.slots[n].label>> : n \in Labelled(example)}

SharesLabels(examples) ==
    \A n \in DOMAIN examples : Labels(examples[n]) = Labels(examples[1])

SlotAt(example, index) == CHOOSE s \in ToSet(example.slots) : s.index = index

\* The unit every observed value has, as it is spelt, if all have the same.
ExpectedUom(examples, index) ==
    LET observed == {SlotAt(examples[n], index) : n \in DOMAIN examples}
        units == {s.uom : s \in {o \in observed : o.value # None}}
    IN  IF Cardinality(units) = 1 THEN CHOOSE u \in units : TRUE ELSE None

DeriveProfile(examples) ==
    LET observed == examples[1].slots
        classpaths == {examples[n].classpath : n \in DOMAIN examples} \ {None}
    IN  [slots |-> [n \in Labelled(examples[1]) |->
                       [index |-> observed[n].index, key |-> observed[n].index,
                        label |-> observed[n].label, kind |-> None,
                        uom |-> ExpectedUom(examples, observed[n].index)]],
         authority |-> "ORGANIZER_EXAMPLE",
         records |-> {examples[n].record : n \in DOMAIN examples},
         classpath |-> IF Cardinality(classpaths) = 1
                       THEN CHOOSE c \in classpaths : TRUE ELSE None]

MatchesProfile(example, profile) ==
    \A n \in DOMAIN example.slots :
        example.slots[n].label # None /\ example.slots[n].value # None =>
            \E slot \in ToSet(profile.slots) :
                slot.index = example.slots[n].index /\ slot.label = example.slots[n].label

\* One for each slot that says something, and so at most one for a key.
CandidatesFor(example) ==
    {[key |-> s.index, label |-> s.label, value |-> ParseScalar("TEXT", s.value, s.uom),
      decision |-> "COMMIT", authority |-> "ORGANIZER_EXAMPLE", evidence |-> {}] :
        s \in {t \in ToSet(example.slots) : t.label # None /\ t.value # None}}

MapOrganizerAttributeExample(example, profile) ==
    ResolveAttributeCandidates(profile, SetToSeq(CandidatesFor(example)), example.record,
                               example.classpath)
=================================================================================
