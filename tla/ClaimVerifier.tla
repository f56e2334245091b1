----------------------------- MODULE ClaimVerifier -----------------------------
(* Whether a stored document supports a claim about a product:                *)
(* backend/skutruth/verification.                                             *)
(*                                                                            *)
(* A quantity is its relation, its magnitude in the base unit of its          *)
(* dimension and its unit, so that a conversion changes the unit alone        *)
(* (etim/units.py).  Units are spelled as the registry spells them.  A line of*)
(* a page, or a row of one of its tables with the headers above it, is what   *)
(* parsing makes of its text:                                                 *)
(*   reads    the fragments it contains as they are written                   *)
(*   folds    the fragments it contains once spaces and forms are folded      *)
(*   states   the quantities in it                                            *)
(*   phrases  the texts it contains as whole phrases                          *)
(* An artifact is [scope, covers, pages, tables]: the scope and the reference *)
(* its source states, the lines of each page, and each page's body rows, with *)
(* the reference of each.                                                     *)
EXTENDS Integers, Sequences

CONSTANTS
    NoUnit,         \* the unit of a bare number
    NoMpn,          \* covers_mpn of a source that states no reference
    DimensionOf,    \* the reviewed units and their dimensions
    Affine,         \* those that only convert to themselves
    Wants,          \* the quantities each qualifier asks for, none if it is categorical
    Compound        \* qualifiers of several independent quantities, always refused

Known == DOMAIN DimensionOf

Convertible(u, v) ==
    \/ u = v
    \/ DimensionOf[u] = DimensionOf[v] /\ {u, v} \cap Affine = {}

Quantity(relation, magnitude, unit) ==
    [relation |-> relation, magnitude |-> magnitude, unit |-> unit]

\* The relations agree, and the magnitude in a unit that says the same; a bare
\* number is no support for a claim with a unit, nor the other way round.
Supports(q, wanted) ==
    /\ q.relation = wanted.relation
    /\ q.magnitude = wanted.magnitude
    /\ \/ wanted.unit = NoUnit /\ q.unit \notin Known
       \/ wanted.unit # NoUnit /\ q.unit = wanted.unit
       \/ {wanted.unit, q.unit} \subseteq Known /\ Convertible(q.unit, wanted.unit)

\* What a numeric claim asserts.
Point(value) == Quantity("EQ", value.magnitude, value.unit)

\* Why a line does not state a value: at most one reason.
ValueFailures(value, line) ==
    LET point == Point(value)
        states == \E q \in line.states : Supports(q, point)
        bounds == \E q \in line.states : Supports([q EXCEPT !.relation = "EQ"], point)
        measures == \E q \in line.states : /\ {q.unit, value.unit} \subseteq Known
                                           /\ Convertible(q.unit, value.unit)
    IN  CASE value.kind = "numeric" /\ states -> {}
          [] value.kind = "numeric" /\ ~states /\ bounds -> {"OPERATOR_MISMATCH"}
          [] /\ value.kind = "numeric" /\ ~states /\ ~bounds
             /\ line.states # {} /\ value.unit # NoUnit /\ ~measures ->
                {"UNIT_NOT_SUPPORTED"}
          [] /\ value.kind = "numeric" /\ ~states /\ ~bounds
             /\ (line.states = {} \/ value.unit = NoUnit \/ measures) ->
                {"VALUE_NOT_SUPPORTED"}
          [] value.kind = "alphanumeric" ->
                IF value.text \in line.phrases THEN {} ELSE {"VALUE_NOT_SUPPORTED"}
          [] value.kind \notin {"numeric", "alphanumeric"} -> {"UNSUPPORTED_VALUE_KIND"}

ConditionHolds(c, line) ==
    /\ c \notin Compound
    /\ IF Wants[c] = {}
       THEN c \in line.phrases
       ELSE \A w \in Wants[c] : \E q \in line.states : Supports(q, w)

\* Why a line does not state the operating point: a dropped relation is
\* reported first.
ConditionFailures(conditions, line) ==
    LET unmet == {c \in conditions : ~ConditionHolds(c, line)}
        clash == \E c \in unmet \ Compound : \E w \in Wants[c], q \in line.states :
                    /\ \A s \in line.states : ~Supports(s, w)
                    /\ q.relation # w.relation /\ q.unit = w.unit
    IN  IF unmet = {} THEN {}
        ELSE IF clash THEN {"OPERATOR_MISMATCH"} ELSE {"CONDITION_NOT_SUPPORTED"}

\* The one-evidence-unit rule: value and every qualifier in one line or row.
LineFailures(claim, line) ==
    IF ValueFailures(claim.value, line) # {}
    THEN ValueFailures(claim.value, line)
    ELSE ConditionFailures(claim.conditions, line)

\* The lines a fragment points at: folded forms are looked for only when the
\* fragment as written is nowhere on the page.
Located(page, fragment) ==
    LET literal == {n \in DOMAIN page : fragment \in page[n].reads}
    IN  IF literal # {} THEN literal ELSE {n \in DOMAIN page : fragment \in page[n].folds}

First(numbers) == CHOOSE n \in numbers : \A m \in numbers : n <= m

Failed(reason) == [status |-> "UNVERIFIED", failure |-> reason, mode |-> "NONE", at |-> 0]

\* Mutant: one occurrence that agrees is enough.
VerifyAnyOccurrence(claim, page) ==
    LET located == Located(page, claim.fragment)
        agree == {n \in located : LineFailures(claim, page[n]) = {}}
    IN  IF agree = {} THEN Failed("VALUE_NOT_SUPPORTED")
        ELSE [status |-> "EXACT_SPAN", failure |-> "", mode |-> "TEXT_UNIT", at |-> First(agree)]

VerifyText(claim, page) ==
    LET located == Located(page, claim.fragment)
        agree == {n \in located : LineFailures(claim, page[n]) = {}}
    IN  CASE located = {} -> Failed("SOURCE_FRAGMENT_NOT_FOUND")
          [] agree # {} /\ agree # located -> Failed("AMBIGUOUS_MATCH")
          [] agree # {} /\ agree = located ->
                [status |-> "EXACT_SPAN", failure |-> "", mode |-> "TEXT_UNIT", at |-> First(agree)]
          [] agree = {} /\ located # {} ->
                [status |-> "UNVERIFIED",
                 failure |-> CHOOSE f \in LineFailures(claim, page[First(located)]) : TRUE,
                 mode |-> "TEXT_UNIT", at |-> First(located)]

\* The body rows that name the reference itself and state the claim.
RowsFor(claim, rows) ==
    {n \in DOMAIN rows : rows[n].mpn = claim.mpn /\ LineFailures(claim, rows[n].line) = {}}

\* What the artifact's own source says of the reference.
ScopeBinding(artifact, mpn) ==
    CASE artifact.scope # "EXACT_SKU" \/ artifact.covers = NoMpn -> "NOT_ESTABLISHED"
      [] artifact.scope = "EXACT_SKU" /\ artifact.covers = mpn /\ mpn # NoMpn -> "EXACT"
      [] artifact.scope = "EXACT_SKU" /\ artifact.covers \notin {NoMpn, mpn} -> "CONTRADICTED"

\* Mutant: a range catalogue's text speaks for every reference it covers.
VerifyInAnyScope(claim, artifact, tabled) ==
    IF claim.page \notin DOMAIN artifact.pages THEN Failed("PAGE_NOT_FOUND")
    ELSE VerifyText(claim, artifact.pages[claim.page])

\* A claim against the artifact loaded for it, with the page's tables or not.
VerifyInArtifact(claim, artifact, tabled) ==
    LET binding == ScopeBinding(artifact, claim.mpn)
        paged == claim.page \in DOMAIN artifact.pages
        rows == IF tabled /\ paged THEN RowsFor(claim, artifact.tables[claim.page]) ELSE {}
    IN  CASE binding = "CONTRADICTED" -> Failed("PRODUCT_REFERENCE_MISMATCH")
          [] binding # "CONTRADICTED" /\ ~paged -> Failed("PAGE_NOT_FOUND")
          [] binding # "CONTRADICTED" /\ paged /\ rows # {} ->
                [status |-> "EXACT_SPAN", failure |-> "", mode |-> "TABLE_UNIT", at |-> First(rows)]
          [] binding = "NOT_ESTABLISHED" /\ paged /\ rows = {} ->
                Failed("PRODUCT_SCOPE_NOT_SUPPORTED")
          [] binding = "EXACT" /\ paged /\ rows = {} ->
                VerifyText(claim, artifact.pages[claim.page])
==============================================================================
