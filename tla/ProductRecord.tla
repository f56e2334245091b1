----------------------------- MODULE ProductRecord -----------------------------
(* The record of one enrichment and what its contract refuses (contracts/).   *)
(*                                                                            *)
(* Evidence is one reading of one span: [artifact, page, manufacturer, scope, *)
(* covers, structured, verified, proves, observed, point].  A group is a list *)
(* of them behind one representative value; an attribute is one feature with  *)
(* its groups; a record is an identity and its attributes.  Every validator   *)
(* is one conjunct: what fails one cannot be constructed.                     *)
EXTENDS EtimSchema

CONSTANTS CanonicalMpn      \* reference as written -> its canonical form

Scopes == {"EXACT_SKU", "FAMILY", "RANGE"}
Dispositions == {"EXACT", "FAMILY_OR_INCOMPLETE_REFERENCE", "UNKNOWN", "CONTRADICTORY"}
Applicabilities == {"APPLICABLE", "NOT_APPLICABLE", "UNKNOWN"}
Completenesses == {"COMPLETE", "PARTIAL", "UNKNOWN"}
Invariances == {"NOT_REQUIRED", "PROVEN", "UNPROVEN"}
Grades == {"A", "B", "C"}

Matches(a, b) == a # None /\ b # None /\ CanonicalMpn[a] = CanonicalMpn[b]

Members(sequence) == {sequence[i] : i \in DOMAIN sequence}

\* --- evidence -------------------------------------------------------------------

IsLocatable(e) == e.verified => e.page # None

Agrees(v, w) == v.key = w.key

IsGroup(g) ==
    /\ g.members # <<>>
    /\ \A e \in Members(g.members) :
          /\ IsLocatable(e)
          /\ Agrees(e.observed, g.representative)
          /\ IsCompatible(e.point, g.point)
    /\ \A e, f \in Members(g.members) : IsCompatible(e.point, f.point)

\* The same claim, or a derivation that still carries the text the group read.
SupportsValue(g, value) ==
    \/ Agrees(g.representative, value)
    \/ value.derivation # "VERBATIM" /\ g.representative.raw = value.raw

IsConflict(c) ==
    /\ Len(c.groups) >= 2
    /\ c.cause = "FACTUAL" => c.resolvedBy # "escalated_model"

\* --- what may speak for a value ---------------------------------------------------

\* A plausible slip: any document in which the value was found will do.
IsEligibleAnywhere(e, anchor) == TRUE

\* An artifact about one reference speaks for that reference only.
IsEligibleEvidence(e, anchor) ==
    anchor # None /\ e.scope = "EXACT_SKU" => Matches(e.covers, anchor)

\* Of a group, and of an attribute, the places of what licenses its value.
LicensingMembers(g, a) ==
    {i \in DOMAIN g.members : g.members[i].verified /\ IsEligibleEvidence(g.members[i], a.anchor)}

LicensingGroups(a) ==
    {i \in DOMAIN a.groups : a.value # None /\ SupportsValue(a.groups[i], a.value)
                             /\ LicensingMembers(a.groups[i], a) # {}}

LicensingEvidence(a) ==
    UNION {{a.groups[i].members[j] : j \in LicensingMembers(a.groups[i], a)} : i \in LicensingGroups(a)}

FirstPlace(places) == CHOOSE i \in places : \A j \in places : i <= j

FirstLicensingEvidence(a) ==
    LET g == a.groups[FirstPlace(LicensingGroups(a))]
    IN  g.members[FirstPlace(LicensingMembers(g, a))]

EstablishesScope(e) == e.scope = "EXACT_SKU" \/ (e.scope = "FAMILY" /\ e.proves)

SupportFactors(evidence, invariance, completeness) ==
    LET verified == {e \in evidence : e.verified}
    IN  [verifiedSpan |-> verified # {},
         manufacturer |-> \E e \in verified : e.manufacturer,
         scope |-> \E e \in verified : EstablishesScope(e),
         structured |-> \E e \in verified : e.structured,
         conditions |-> completeness = "COMPLETE",
         invariance |-> invariance # "UNPROVEN"]

\* None: the value must not be accepted at all.
SupportGrade(factors) ==
    LET missing == Cardinality({k \in {"manufacturer", "scope", "conditions"} : ~factors[k]})
    IN  CASE ~factors.verifiedSpan \/ ~factors.invariance -> None
          [] factors.verifiedSpan /\ factors.invariance /\ missing = 0 -> "A"
          [] factors.verifiedSpan /\ factors.invariance /\ missing = 1 -> "B"
          [] OTHER -> "C"

GradeOf(a) == SupportGrade(SupportFactors(LicensingEvidence(a), a.invariance, a.completeness))

\* --- an attribute -----------------------------------------------------------------

IsAccepted(a) == a.status = "ACCEPTED"

StatusAndValueAgree(a) == IsAccepted(a) <=> a.value # None

WithheldExplainsItself(a) == IsAccepted(a) <=> a.reason = None

NotApplicableIsConsistent(a) ==
    /\ a.applicability = "NOT_APPLICABLE" => ~IsAccepted(a)
    /\ a.reason = "NOT_APPLICABLE" => a.applicability = "NOT_APPLICABLE"

ValueMatchesFeature(a) ==
    a.value # None =>
        /\ KindOf(a.value) = KindForType[a.type]
        /\ (a.unit # None /\ KindOf(a.value) \in {"numeric", "range"}) => UnitOf(a.value) = a.unit

GroupsAreUnique(a) == \A i, j \in DOMAIN a.groups : a.groups[i].id = a.groups[j].id => i = j

ConflictsNameGroups(a) ==
    \A c \in a.conflicts : Members(c.groups) \subseteq {g.id : g \in Members(a.groups)}

AcceptedHasAVerifiedSpan(a) == IsAccepted(a) => LicensingEvidence(a) # {}

BoundConditionsAreSupported(a) ==
    IsAccepted(a) =>
        /\ \A e \in LicensingEvidence(a) : IsCompatible(e.point, a.point)
        /\ DOMAIN a.point # {} => \E e \in LicensingEvidence(a) : States(e.point, a.point)

ProvenInvarianceIsBacked(a) ==
    a.invariance = "PROVEN" =>
        \/ \E e \in LicensingEvidence(a) : e.proves
        \/ Cardinality({CanonicalMpn[e.covers] :
               e \in {x \in LicensingEvidence(a) : x.scope = "EXACT_SKU" /\ x.covers # None}}) >= 2

GradeIsDerived(a) == a.grade = IF IsAccepted(a) THEN GradeOf(a) ELSE None

UnprovenInvarianceBlocks(a) == IsAccepted(a) => a.invariance # "UNPROVEN" /\ GradeOf(a) # None

IsAttribute(a) ==
    /\ StatusAndValueAgree(a)
    /\ WithheldExplainsItself(a)
    /\ NotApplicableIsConsistent(a)
    /\ ValueMatchesFeature(a)
    /\ \A g \in Members(a.groups) : IsGroup(g)
    /\ \A c \in a.conflicts : IsConflict(c)
    /\ GroupsAreUnique(a)
    /\ ConflictsNameGroups(a)
    /\ AcceptedHasAVerifiedSpan(a)
    /\ BoundConditionsAreSupported(a)
    /\ ProvenInvarianceIsBacked(a)
    /\ GradeIsDerived(a)
    /\ UnprovenInvarianceBlocks(a)

\* --- a record ---------------------------------------------------------------------

IsExact(identity) == identity.disposition = "EXACT"

IsIdentity(identity) ==
    /\ IsExact(identity) => identity.mpn # None
    /\ identity.disposition = "FAMILY_OR_INCOMPLETE_REFERENCE" =>
          identity.axes # {} \/ identity.candidates # {}
    /\ identity.disposition = "CONTRADICTORY" => Cardinality(identity.candidates) >= 2

IsProvenance(p) == p.mode \in {"REPLAY", "MIXED"} => p.captured # None

AnchoredToIdentity(r) ==
    \A a \in Members(r.attributes) :
        IF IsExact(r.identity) THEN Matches(a.anchor, r.identity.mpn) ELSE a.anchor = None

NonExactIdentityGates(r) ==
    ~IsExact(r.identity) =>
        \A a \in Members(r.attributes) : IsAccepted(a) => a.invariance = "PROVEN"

ExactClaimsNoFamilyProof(r) ==
    IsExact(r.identity) => \A a \in Members(r.attributes) : a.invariance # "PROVEN"

IsRecord(r) ==
    /\ IsIdentity(r.identity)
    /\ IsProvenance(r.provenance)
    /\ \A a \in Members(r.attributes) : IsAttribute(a)
    /\ AnchoredToIdentity(r)
    /\ NonExactIdentityGates(r)
    /\ ExactClaimsNoFamilyProof(r)

\* --- coverage ---------------------------------------------------------------------

BuildCoverage(r) ==
    LET Where(a) == Cardinality({i \in DOMAIN r.attributes : r.attributes[i].applicability = a})
        Critical == {i \in DOMAIN r.attributes : r.attributes[i].buyerCritical}
        Applies == {i \in DOMAIN r.attributes : r.attributes[i].applicability = "APPLICABLE"}
        Accepted == {i \in Applies : IsAccepted(r.attributes[i])}
    IN  [total |-> Len(r.attributes),
         applicable |-> Cardinality(Applies),
         notApplicable |-> Where("NOT_APPLICABLE"), unknown |-> Where("UNKNOWN"),
         accepted |-> Cardinality(Accepted), critical |-> Cardinality(Critical),
         criticalApplicable |-> Cardinality(Critical \cap Applies),
         criticalAccepted |-> Cardinality(Critical \cap Accepted)]

\* What the report's own validator asks of its counts.
CountsAgree(c) ==
    /\ c.applicable + c.notApplicable + c.unknown = c.total
    /\ c.accepted <= c.applicable
    /\ c.criticalApplicable <= c.critical
    /\ c.criticalAccepted <= c.criticalApplicable
===============================================================================
