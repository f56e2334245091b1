------------------------------ MODULE FactPipeline ------------------------------
(* From a product reference to a delivery row: resolve the identity, extract  *)
(* for it, verify each claim against the stored document, adjudicate and      *)
(* write (identity, extraction, verification, adjudication, and the two       *)
(* scripts that chain them, verify_extraction_run.py and                      *)
(* assemble_delivery_record.py).                                              *)
(*                                                                            *)
(* The stages are calls of one caller, who may resolve again between any two  *)
(* of them, for this product or another.  Meanwhile the reviewed evidence     *)
(* grows and the store's parse of the document is replaced, as the artifact   *)
(* store allows (module ArtifactStore).  The document is one artifact: its    *)
(* hash never changes, what the store says of it does.                        *)
EXTENDS FactAdjudication, IdentityResolver

CONSTANTS
    Brand,          \* the manufacturer
    References,     \* the references a caller may ask to resolve
    Selection,      \* the discriminators the caller has chosen
    Facts,          \* what reviewers may add to the evidence
    Schema,         \* the features extracted, in schema order
    Proposals,      \* what the model may propose for each, None to abstain
    Parses,         \* what the store may hold for the document
    PageCount,      \* pages of the document, whatever the parse
    Callers,        \* how the stages may be called, with which mapping rules
    Capacity        \* attribute slots of the delivery template

Keys == {Schema[n] : n \in DOMAIN Schema}

\* The references a resolution can name.
Names == References \cup {f.makes : f \in {g \in Facts : g.type = "mapping"}}

Answers ==
    [disposition : Dispositions, exact : Names \cup {None}, candidates : SUBSET Names]

ASSUME PipelineAssumption ==
    /\ IsFiniteSet(Facts) /\ IsFiniteSet(Keys)
    /\ NoIdentity \notin Answers \cup [asked : References, answer : Answers]
    /\ NoUnit \notin Known
    /\ None \notin Parses \cup Names
    /\ \A p \in Parses : \A n \in DOMAIN p.pages : DOMAIN p.pages[n] \subseteq Nat
    /\ Keys \subseteq Nat /\ Capacity \in Nat
    /\ \A c \in Callers : \A k \in DOMAIN c.registry :
          c.registry[k].priority \in Int /\ c.registry[k].label \in Nat

Unwritten == [status |-> "unwritten", cells |-> {}]

VARIABLES
    evidence,       \* the reviewed facts about identity
    identity,       \* the caller's last resolution, NoIdentity before the first
    stored,         \* the store's parse of the document, None if it cannot be loaded
    caller,         \* [registry, gated, tabled, handed]: how the caller calls
    held,           \* the artifact handed to the verifier, None before it is loaded
    claims,         \* the claims of the run, None before the extraction
    outcomes,       \* the verification outcome of each claim decided so far
    facts,          \* what was decided about each of them
    row             \* the delivery row, Unwritten before it is assembled

vars == <<evidence, identity, stored, caller, held, claims, outcomes, facts, row>>

Init ==
    /\ evidence = {}
    /\ identity = NoIdentity
    /\ stored \in Parses
    /\ caller \in Callers
    /\ held = None
    /\ claims = None
    /\ outcomes = << >>
    /\ facts = << >>
    /\ row = Unwritten

\* A reviewer adds a fact to the evidence.
Gather ==
    /\ \E f \in Facts \ evidence : evidence' = evidence \cup {f}
    /\ UNCHANGED <<identity, stored, caller, held, claims, outcomes, facts, row>>

Resolve ==
    /\ \E mpn \in References :
          identity' = [asked |-> mpn,
                       answer |-> ResolveIdentity(evidence, Brand, mpn, Selection)]
    /\ UNCHANGED <<evidence, stored, caller, held, claims, outcomes, facts, row>>

\* The document is ingested again under another parser or with other source
\* facts, or its copy in the store is lost or damaged.
Reingest ==
    /\ \E p \in (Parses \cup {None}) \ {stored} : stored' = p
    /\ UNCHANGED <<evidence, identity, caller, held, claims, outcomes, facts, row>>

\* A proposal becomes a claim about the resolved reference; a page that does
\* not exist is rejected, never clamped.
ClaimFor(mpn, key, proposal) ==
    [key |-> key, mpn |-> mpn, value |-> proposal.value, conditions |-> proposal.conditions,
     page |-> proposal.page, fragment |-> proposal.fragment]

Extract ==
    /\ claims = None
    /\ identity # NoIdentity
    /\ identity.answer.disposition = "EXACT"
    /\ \E p \in {q \in [Keys -> UNION {Proposals[k] : k \in Keys}] :
                    \A k \in Keys : q[k] \in Proposals[k]} :
          claims' = [k \in {j \in Keys : p[j] # None /\ p[j].page <= PageCount} |->
                        ClaimFor(identity.answer.exact, k, p[k])]
    /\ UNCHANGED <<evidence, identity, stored, caller, held, outcomes, facts, row>>

\* The scripts load the artifact once; one that cannot be loaded ends them.
Load ==
    /\ caller.handed /\ claims # None /\ held = None
    /\ stored # None
    /\ held' = stored
    /\ UNCHANGED <<evidence, identity, stored, caller, claims, outcomes, facts, row>>

\* The parse a claim is verified against: the one handed in, or the store's.
Reading == IF caller.handed THEN held ELSE stored

\* The identity a gated caller hands in.
Gate == IF caller.gated THEN identity.answer ELSE NoIdentity

\* One claim, whole: the gate on the identity, the artifact, its scope, its
\* tables, its text.
VerifyClaim(claim, gate, reading) ==
    CASE gate # NoIdentity /\ gate.disposition # "EXACT" ->
            Failed("PRODUCT_SCOPE_NOT_SUPPORTED")
      [] /\ gate # NoIdentity /\ gate.disposition = "EXACT"
         /\ gate.exact # claim.mpn ->
            Failed("PRODUCT_REFERENCE_MISMATCH")
      [] SameProduct(claim, gate) /\ reading = None -> Failed("ARTIFACT_UNREADABLE")
      [] SameProduct(claim, gate) /\ reading # None ->
            VerifyInArtifact(claim, reading, caller.tabled)

\* Mutant: the outcome is filed under the product that the caller resolved.
OutcomeForTheResolved(claim, gate, reading) ==
    LET verdict == VerifyClaim(claim, gate, reading)
    IN  [key |-> claim.key, mpn |-> IF gate = NoIdentity THEN claim.mpn ELSE gate.exact,
         value |-> claim.value, conditions |-> claim.conditions, page |-> claim.page,
         fragment |-> claim.fragment, status |-> verdict.status,
         failure |-> verdict.failure, mode |-> verdict.mode, at |-> verdict.at,
         read |-> reading]

\* The outcome carries the claim with it; read is history, the parse it was
\* decided on.
OutcomeOf(claim, gate, reading) ==
    LET verdict == VerifyClaim(claim, gate, reading)
    IN  [key |-> claim.key, mpn |-> claim.mpn, value |-> claim.value,
         conditions |-> claim.conditions, page |-> claim.page, fragment |-> claim.fragment,
         status |-> verdict.status, failure |-> verdict.failure,
         mode |-> verdict.mode, at |-> verdict.at, read |-> reading]

\* The claims that are still to be verified, by their place in the schema.
Pending == {n \in DOMAIN Schema : Schema[n] \in DOMAIN claims \ DOMAIN outcomes}

\* The next claim in schema order.
Verify ==
    /\ claims # None
    /\ caller.handed => held # None
    /\ \E n \in Pending :
          /\ \A m \in Pending : n <= m
          /\ outcomes' = [k \in DOMAIN outcomes \cup {Schema[n]} |->
                            IF k = Schema[n] THEN OutcomeOf(claims[k], Gate, Reading)
                            ELSE outcomes[k]]
    /\ UNCHANGED <<evidence, identity, stored, caller, held, claims, facts, row>>

\* More attributes than slots raise before anything is written.
WriteAttributes(cells) ==
    IF Cardinality(cells) > Capacity
    THEN [status |-> "refused", cells |-> {}]
    ELSE [status |-> "written", cells |-> cells]

Assemble ==
    /\ claims # None /\ Pending = {} /\ row = Unwritten
    /\ caller.handed => held # None
    /\ facts' = Adjudicate(outcomes, caller.registry, Gate)
    /\ row' = WriteAttributes(BuildAttributes(facts', caller.registry))
    /\ UNCHANGED <<evidence, identity, stored, caller, held, claims, outcomes>>

Next == Gather \/ Resolve \/ Reingest \/ Extract \/ Load \/ Verify \/ Assemble

Spec == Init /\ [][Next]_vars
-------------------------------------------------------------------------------
Claims ==
    {ClaimFor(mpn, k, p) : mpn \in Names, k \in Keys,
                           p \in UNION {Proposals[j] \ {None} : j \in Keys}}

ClaimOf(outcome) == ClaimFor(outcome.mpn, outcome.key, outcome)

\* Every variable holds what the code can put in it: outcomes belong to claims
\* of this run and facts to outcomes of this run.
TypeOK ==
    /\ evidence \subseteq Facts
    /\ \/ identity = NoIdentity
       \/ /\ identity.asked \in References
          /\ identity.answer.disposition \in Dispositions
          /\ identity.answer.candidates \subseteq Names
          /\ identity.answer.exact \in Names <=> identity.answer.disposition = "EXACT"
    /\ stored \in Parses \cup {None}
    /\ caller \in Callers
    /\ held \in Parses \cup {None}
    /\ claims # None => /\ DOMAIN claims \subseteq Keys
                        /\ \A k \in DOMAIN claims : claims[k] \in Claims /\ claims[k].key = k
    /\ \A k \in DOMAIN outcomes :
          /\ claims # None /\ k \in DOMAIN claims
          /\ ClaimOf(outcomes[k]) = claims[k]
          /\ outcomes[k].status = "EXACT_SPAN" <=> outcomes[k].failure = ""
    /\ \A k \in DOMAIN facts : k \in DOMAIN outcomes /\ facts[k].outcome = outcomes[k]
    /\ row.status \in {"unwritten", "written", "refused"}
    /\ row = Unwritten => facts = << >>

Written == row.cells

\* A line states a value and the whole operating point it is claimed under.
States(line, value, conditions) ==
    /\ IF value.kind = "numeric"
       THEN \E q \in line.states : Supports(q, Point(value))
       ELSE value.text \in line.phrases
    /\ \A c \in conditions : ConditionHolds(c, line)

\* A line of a datasheet of the product, or a row of a table that names it.
SpeaksFor(document, page, mpn) ==
    {document.pages[page][n] : n \in {m \in DOMAIN document.pages[page] :
                                document.scope = "EXACT_SKU" /\ document.covers = mpn}}
    \cup {document.tables[page][n].line : n \in {m \in DOMAIN document.tables[page] :
                                document.tables[page][m].mpn = mpn}}

\* What is written, in the unit of its cell and through every merge, was in
\* one line that speaks for the product, value and operating point together,
\* of the parse each of the merged facts was verified on.
CellsAreWitnessed ==
    \A c \in Written : \A k \in c.supporting :
        /\ outcomes[k].read # None
        /\ \E line \in SpeaksFor(outcomes[k].read, outcomes[k].page, c.mpn) :
              States(line, c.value, c.conditions)

\* No place that the fragment quoted for a written text fact occurs at, as it
\* is written, says something else: an agreeing occurrence is never picked
\* from among others.
NoOccurrenceDisagrees ==
    \A c \in Written : \A k \in c.supporting :
        outcomes[k].mode = "TEXT_UNIT" =>
            \A n \in DOMAIN outcomes[k].read.pages[outcomes[k].page] :
                LET line == outcomes[k].read.pages[outcomes[k].page][n]
                IN  outcomes[k].fragment \in line.reads => States(line, c.value, c.conditions)

\* A resolved reference stays the answer: more evidence may take it back, and
\* never turns the same question into another exact product.
ExactIsStable ==
    [][(/\ identity # NoIdentity /\ identity' # NoIdentity
        /\ identity.asked = identity'.asked
        /\ identity.answer.disposition = "EXACT"
        /\ identity'.answer.disposition = "EXACT")
            => identity'.answer.exact = identity.answer.exact]_vars

\* The product of every claim, and so of every cell, is one that the evidence
\* confirms by a fact of its own: a candidate is never enough.
ClaimsNameAConfirmedProduct ==
    claims # None =>
        \A k \in DOMAIN claims : Exacts(evidence, Brand, claims[k].mpn) # {}

\* A gated assembly writes for the product the caller has resolved by then,
\* whatever it was when the claims were made or verified.
GatedRowsAreOfTheProduct ==
    [][row # row' /\ caller.gated =>
        \A c \in row'.cells : /\ identity.answer.disposition = "EXACT"
                              /\ c.mpn = identity.answer.exact]_vars

\* The verified facts that could have a cell if they were alone.
Eligible ==
    {k \in DOMAIN facts \cap DOMAIN caller.registry :
        LET rule == caller.registry[k] IN
        /\ facts[k].reason # "IDENTITY_NOT_EXACT"
        /\ outcomes[k].status = "EXACT_SPAN"
        /\ KindFits(rule, outcomes[k].value)
        /\ Representable(rule, outcomes[k].conditions)
        /\ ValueForTarget(rule, outcomes[k].value) # NoValue}

InCell(k) == <<ValueForTarget(caller.registry[k], outcomes[k].value), outcomes[k].conditions>>

\* A label has a cell exactly when all the facts that could fill it agree on
\* value and operating point, whatever their priorities and their order.
ContestsAreSettled ==
    row.status = "written" =>
        \A label \in {caller.registry[k].label : k \in Eligible} :
            LET rivals == {k \in Eligible : caller.registry[k].label = label}
                agreed == \A j, k \in rivals : InCell(j) = InCell(k)
                cells == {c \in row.cells : c.label = label}
            IN  /\ agreed <=> cells # {}
                /\ \A c \in cells : c.supporting = rivals /\ Cardinality(cells) = 1

\* Every fact that could have a cell has one with a slot to itself, backs one,
\* or waits for a person; a row that cannot hold them all is not written.
NoFactIsLost ==
    row.status = "written" =>
        \A k \in Eligible :
            \/ facts[k].decision = "REVIEW"
            \/ \E c \in row.cells : /\ k \in c.supporting
                                    /\ c.slot \in 1..Capacity
                                    /\ \A d \in row.cells : d.slot = c.slot => d = c

\* A reader of the row reads the number that was verified.
CellsReadBack ==
    \A c \in Written : c.value.kind = "numeric" => c.reads = c.value.magnitude

\* The row tells all that was decided and hides no dispute
\* (adjudication/conflicts.py, assembly.py).
RowIsFaithful == ContestsAreSettled /\ NoFactIsLost
===============================================================================
