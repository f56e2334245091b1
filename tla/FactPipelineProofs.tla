--------------------------- MODULE FactPipelineProofs ---------------------------
(* What the pipeline promises about the product a row is for, proved for all  *)
(* evidence, references, documents and mapping rules.                         *)
EXTENDS FactPipeline, FiniteSetTheorems, WellFoundedInduction, TLAPS

------------------------------------------------------------------------------
(* The least of some numbers. *)

\* The least element of a set, from the order as a relation.
LEMMA LeastOf ==
    ASSUME NEW R, NEW T \in SUBSET Nat,
           \A x, y \in Nat : <<x, y>> \in R <=> x < y,
           \E x \in T : \A y \in T : <<y, x>> \notin R
    PROVE  \E m \in T : \A n \in T : m <= n
<1>1. PICK x \in T : \A y \in T : <<y, x>> \notin R
  OBVIOUS
<1>2. \A y \in T : x \in Nat /\ y \in Nat /\ ~ (y < x)
  BY <1>1
<1>3. \A y \in T : x <= y
  BY <1>2
<1> QED BY <1>3

LEMMA LeastNatural ==
    ASSUME NEW T \in SUBSET Nat, T # {}
    PROVE  \E m \in T : \A n \in T : m <= n
<1> DEFINE R == OpToRel(<, Nat)
<1>1. IsWellFoundedOn(R, Nat)
  BY NatLessThanWellFounded
<1>2. \A x, y \in Nat : <<x, y>> \in R <=> x < y
  BY DEF OpToRel
<1> HIDE DEF R
<1>3. \E x \in T : \A y \in T : <<y, x>> \notin R
  BY <1>1, WFMin
<1> QED BY <1>2, <1>3, LeastOf

\* A least cardinality of a set without a least element would have a smaller one.
LEMMA LeastOfFinite ==
    ASSUME NEW T \in SUBSET Int, IsFiniteSet(T), T # {}
    PROVE  \E m \in T : \A n \in T : m <= n
<1> DEFINE Least(U) == \E m \in U : \A n \in U : m <= n
           Sizes == {n \in Nat : \E U \in SUBSET Int :
                       IsFiniteSet(U) /\ U # {} /\ Cardinality(U) = n /\ ~Least(U)}
<1>1. Sizes \in SUBSET Nat
  OBVIOUS
<1>2. ASSUME Sizes # {} PROVE FALSE
  <2>1. PICK size \in Sizes : \A n \in Sizes : size <= n
    <3> HIDE DEF Sizes
    <3> QED BY <1>1, <1>2, LeastNatural
  <2>2. PICK U \in SUBSET Int :
           IsFiniteSet(U) /\ U # {} /\ Cardinality(U) = size /\ ~Least(U)
    OBVIOUS
  <2>3. PICK x \in U : TRUE
    BY <2>2
  <2> DEFINE V == U \ {x}
  <2>4. IsFiniteSet(V) /\ Cardinality(V) = size - 1
    BY <2>2, <2>3, FS_RemoveElement
  <2>5. V # {}
    <3> SUFFICES ASSUME U = {x} PROVE FALSE
      BY <2>3
    <3> QED BY <2>2, <2>3
  <2>6. size - 1 \notin Sizes
    BY <1>1, <2>1
  <2>7. Cardinality(V) \in Nat
    BY <2>4, FS_CardinalityType
  <2>8. V \in SUBSET Int
    BY <2>2
  <2>9. Least(V)
    BY <2>4, <2>5, <2>6, <2>7, <2>8
  <2>10. PICK m \in V : \A n \in V : m <= n
    BY <2>9
  <2>11. x \in Int /\ m \in Int /\ m \in U
    BY <2>3, <2>10
  <2>12. CASE m <= x
    BY <2>2, <2>10, <2>11, <2>12
  <2>13. CASE ~ (m <= x)
    <3>1. \A n \in V : n \in Int /\ x <= n
      BY <2>8, <2>10, <2>11, <2>13
    <3> QED BY <2>2, <2>3, <2>11, <3>1
  <2> QED BY <2>12, <2>13
<1>3. Cardinality(T) \in Nat
  BY FS_CardinalityType
<1>4. Least(T)
  BY <1>2, <1>3
<1> QED BY <1>4


\* More evidence keeps the facts that confirm a reference, that ask for its
\* completion, and that complete it.
LEMMA EvidenceGrows ==
    ASSUME NEW e, NEW f, e \subseteq f, NEW brand, NEW mpn, NEW selection
    PROVE  /\ Exacts(e, brand, mpn) \subseteq Exacts(f, brand, mpn)
           /\ Completions(e, brand, mpn) \subseteq Completions(f, brand, mpn)
           /\ Required(e, brand, mpn) \subseteq Required(f, brand, mpn)
           /\ Candidates(e, brand, mpn, selection) \subseteq Candidates(f, brand, mpn, selection)
  <1>1. Exacts(e, brand, mpn) \subseteq Exacts(f, brand, mpn)
    BY DEF Exacts
  <1>2. Completions(e, brand, mpn) \subseteq Completions(f, brand, mpn)
    BY DEF Completions
  <1>3. Required(e, brand, mpn) \subseteq Required(f, brand, mpn)
    BY DEF Required, Completions, Blocking
  <1>4. Candidates(e, brand, mpn, selection) \subseteq Candidates(f, brand, mpn, selection)
    <2> SUFFICES ASSUME NEW c \in Candidates(e, brand, mpn, selection)
                 PROVE  c \in Candidates(f, brand, mpn, selection)
      OBVIOUS
    <2>1. PICK k \in Required(e, brand, mpn) \cap DOMAIN selection :
             c \in {m.makes : m \in Mappings(e, brand, mpn, k, selection[k])}
      BY DEF Candidates
    <2>2. c \in {m.makes : m \in Mappings(f, brand, mpn, k, selection[k])}
      BY <2>1 DEF Mappings
    <2>3. k \in Required(f, brand, mpn) \cap DOMAIN selection
      BY <1>3
    <2> QED BY <2>2, <2>3 DEF Candidates
  <1> QED BY <1>1, <1>2, <1>3, <1>4

\* Finite evidence makes finitely many candidates.
LEMMA CandidatesAreFinite ==
    ASSUME NEW e, IsFiniteSet(e), NEW brand, NEW mpn, NEW selection
    PROVE  LET candidates == Candidates(e, brand, mpn, selection)
           IN  /\ IsFiniteSet(candidates)
               /\ Cardinality(candidates) \in Nat
               /\ Cardinality(candidates) = 0 <=> candidates = {}
  <1> DEFINE made == {m.makes : m \in e}
  <1>1. IsFiniteSet(made)
    <2> DEFINE maker == [m \in e |-> m.makes]
    <2>1. maker \in Surjection(e, made)
      BY DEF Surjection
    <2> QED BY <2>1, FS_Surjection DEF ExistsSurjection
  <1>2. Candidates(e, brand, mpn, selection) \subseteq made
    BY DEF Candidates, Mappings
  <1>3. IsFiniteSet(Candidates(e, brand, mpn, selection))
    BY <1>1, <1>2, FS_Subset
  <1> QED BY <1>3, FS_CardinalityType, FS_EmptySet

\* What an EXACT answer says: the reference asked for, or the one candidate,
\* and in both cases a fact of its own confirms it.
LEMMA ExactAnswers ==
    ASSUME NEW e, IsFiniteSet(e), NEW brand, NEW mpn, NEW selection,
           ResolveIdentity(e, brand, mpn, selection).disposition = "EXACT"
    PROVE  LET answer == ResolveIdentity(e, brand, mpn, selection)
           IN  /\ Exacts(e, brand, answer.exact) # {}
               /\ \/ /\ Exacts(e, brand, mpn) # {} /\ Completions(e, brand, mpn) = {}
                     /\ answer.exact = mpn
                  \/ /\ Exacts(e, brand, mpn) = {} /\ Completions(e, brand, mpn) # {}
                     /\ answer.exact \in Candidates(e, brand, mpn, selection)
                     /\ Cardinality(Candidates(e, brand, mpn, selection)) = 1
                     /\ Cardinality(Required(e, brand, mpn)) = 1
  <1> DEFINE answer == ResolveIdentity(e, brand, mpn, selection)
  <1>1. CASE Exacts(e, brand, mpn) # {}
    BY <1>1 DEF ResolveIdentity, Answer
  <1>2. CASE Exacts(e, brand, mpn) = {}
    <2> DEFINE required == Required(e, brand, mpn)
               candidates == Candidates(e, brand, mpn, selection)
               constructs == required \subseteq DOMAIN selection /\ Cardinality(required) = 1
               confirmed == {c \in candidates : Exacts(e, brand, c) # {}}
    <2>1. Completions(e, brand, mpn) # {} /\ answer = Complete(e, brand, mpn, selection)
      BY <1>2 DEF ResolveIdentity, Answer
    <2>2. Complete(e, brand, mpn, selection).disposition = "EXACT"
      BY <2>1
    <2>3. \/ ~constructs \/ candidates = {}
          \/ constructs /\ Cardinality(candidates) = 1
          \/ constructs /\ Cardinality(candidates) > 1
      BY CandidatesAreFinite
    <2>4. ASSUME ~constructs \/ candidates = {} PROVE FALSE
      <3>1. ~(constructs /\ Cardinality(candidates) >= 1)
        BY <2>4, CandidatesAreFinite
      <3>2. ~(constructs /\ Cardinality(candidates) > 1) /\ ~(constructs /\ Cardinality(candidates) = 1)
        BY <3>1, CandidatesAreFinite
      <3> QED BY <2>2, <2>4, <3>2 DEF Complete, Answer
    <2>5. ASSUME constructs, Cardinality(candidates) > 1 PROVE FALSE
      BY <2>2, <2>5 DEF Complete, Answer
    <2>6. constructs /\ Cardinality(candidates) = 1 /\ ~(Cardinality(candidates) > 1)
      BY <2>3, <2>4, <2>5
    <2>7. candidates # {}
      BY <2>4
    <2>8. ASSUME confirmed = {} PROVE FALSE
      BY <2>2, <2>6, <2>7, <2>8 DEF Complete, Answer
    <2>9. Complete(e, brand, mpn, selection).exact = CHOOSE c \in confirmed : TRUE
      BY <2>6, <2>7, <2>8 DEF Complete, Answer
    <2>10. answer.exact \in confirmed
      BY <2>1, <2>8, <2>9
    <2> QED BY <1>2, <2>1, <2>6, <2>10
  <1> QED BY <1>1, <1>2

\* Two EXACT answers to one question, the second on more evidence, are one
\* reference: the discriminator and the candidate of the first are still
\* there, and one of each is all that an EXACT answer allows.
LEMMA ExactAnswersAgree ==
    ASSUME NEW f, IsFiniteSet(f), NEW e, e \subseteq f,
           NEW brand, NEW mpn, NEW selection,
           ResolveIdentity(e, brand, mpn, selection).disposition = "EXACT",
           ResolveIdentity(f, brand, mpn, selection).disposition = "EXACT"
    PROVE  ResolveIdentity(e, brand, mpn, selection).exact
             = ResolveIdentity(f, brand, mpn, selection).exact
  <1> DEFINE before == ResolveIdentity(e, brand, mpn, selection)
             after == ResolveIdentity(f, brand, mpn, selection)
  <1>1. IsFiniteSet(e)
    BY FS_Subset
  <1>2. /\ Exacts(e, brand, mpn) \subseteq Exacts(f, brand, mpn)
        /\ Completions(e, brand, mpn) \subseteq Completions(f, brand, mpn)
        /\ Candidates(e, brand, mpn, selection) \subseteq Candidates(f, brand, mpn, selection)
    BY EvidenceGrows
  <1>3. CASE Exacts(e, brand, mpn) # {}
    <2>1. before.exact = mpn
      BY <1>1, <1>3, ExactAnswers
    <2>2. after.exact = mpn
      BY <1>2, <1>3, ExactAnswers
    <2> QED BY <2>1, <2>2
  <1>4. CASE Exacts(e, brand, mpn) = {}
    <2> DEFINE candidates == Candidates(f, brand, mpn, selection)
    <2>1. Completions(e, brand, mpn) # {} /\ before.exact \in Candidates(e, brand, mpn, selection)
      BY <1>1, <1>4, ExactAnswers
    <2>2. after.exact \in candidates /\ Cardinality(candidates) = 1
      BY <1>2, <2>1, ExactAnswers
    <2>3. before.exact \in candidates
      BY <1>2, <2>1
    <2>4. IsFiniteSet(candidates)
      BY CandidatesAreFinite
    <2>5. PICK c : candidates = {c}
      BY <2>2, <2>4, FS_Singleton
    <2> QED BY <2>2, <2>3, <2>5
  <1> QED BY <1>3, <1>4

\* Every resolution is an answer, and so not the absence of one.
LEMMA ResolutionsAreAnswers ==
    ASSUME NEW e, e \subseteq Facts, NEW mpn \in References
    PROVE  ResolveIdentity(e, Brand, mpn, Selection) \in Answers
  <1> DEFINE required == Required(e, Brand, mpn)
             candidates == Candidates(e, Brand, mpn, Selection)
             constructs == required \subseteq DOMAIN Selection /\ Cardinality(required) = 1
             confirmed == {c \in candidates : Exacts(e, Brand, c) # {}}
  <1>1. IsFiniteSet(e)
    BY PipelineAssumption, FS_Subset
  <1>2. candidates \subseteq Names
    BY DEF Names, Candidates, Mappings
  <1>3. \A d \in Dispositions, x \in Names \cup {None}, c \in SUBSET Names :
           Answer(d, x, c) \in Answers
    BY DEF Answer, Answers
  <1>4. mpn \in Names
    BY DEF Names
  <1>5. Complete(e, Brand, mpn, Selection) \in Answers
    <2>1. CASE constructs /\ Cardinality(candidates) > 1
      BY <1>2, <1>3, <2>1 DEF Complete, Dispositions
    <2>2. CASE constructs /\ Cardinality(candidates) = 1
      <3>1. candidates # {} /\ ~(Cardinality(candidates) > 1)
        BY <1>1, <2>2, CandidatesAreFinite
      <3>2. CASE confirmed # {}
        <4>1. (CHOOSE c \in confirmed : TRUE) \in Names
          BY <1>2, <3>2
        <4>2. Complete(e, Brand, mpn, Selection)
                = Answer("EXACT", CHOOSE c \in confirmed : TRUE, candidates)
          BY <2>2, <3>1, <3>2 DEF Complete
        <4> QED BY <1>2, <1>3, <4>1, <4>2 DEF Dispositions
      <3>3. CASE confirmed = {}
        <4>1. Complete(e, Brand, mpn, Selection)
                = Answer("FAMILY_OR_INCOMPLETE_REFERENCE", None, candidates)
          BY <2>2, <3>1, <3>3 DEF Complete
        <4> QED BY <1>2, <1>3, <4>1 DEF Dispositions
      <3> QED BY <3>2, <3>3
    <2>3. CASE ~constructs \/ candidates = {}
      <3>1. ~(constructs /\ Cardinality(candidates) > 1) /\ ~(constructs /\ Cardinality(candidates) = 1)
        <4>1. candidates = {} => Cardinality(candidates) = 0
          BY FS_EmptySet
        <4> QED BY <2>3, <4>1
      <3>2. Complete(e, Brand, mpn, Selection)
              = Answer("FAMILY_OR_INCOMPLETE_REFERENCE", None, {})
        BY <2>3, <3>1 DEF Complete
      <3> QED BY <1>3, <3>2 DEF Dispositions
    <2>4. Cardinality(candidates) \in Nat /\ (Cardinality(candidates) = 0 <=> candidates = {})
      BY <1>1, CandidatesAreFinite
    <2> QED BY <2>1, <2>2, <2>3, <2>4
  <1> QED BY <1>3, <1>4, <1>5 DEF ResolveIdentity, Dispositions

\* The inductive invariant: the last resolution was made from evidence that
\* is still there, claims exist only after a resolution, and name products
\* that the evidence confirms.
ResolvedFromEvidence ==
    identity # NoIdentity =>
        /\ identity.asked \in References
        /\ \E e \in SUBSET evidence :
              identity.answer = ResolveIdentity(e, Brand, identity.asked, Selection)

PipelineInv ==
    /\ evidence \subseteq Facts
    /\ ResolvedFromEvidence
    /\ claims # None => identity # NoIdentity
    /\ ClaimsNameAConfirmedProduct

\* Gathering keeps what was resolved, and an extraction needs an exact answer.
LEMMA PipelineInvHolds == Spec => []PipelineInv
  <1>1. Init => PipelineInv
    BY DEF Init, PipelineInv, ResolvedFromEvidence, ClaimsNameAConfirmedProduct
  <1>2. ASSUME PipelineInv, [Next]_vars
        PROVE  PipelineInv'
    <2> USE <1>2
    <2>1. CASE Gather
      <3>1. evidence \subseteq evidence' /\ evidence' \subseteq Facts
        BY <2>1 DEF Gather, PipelineInv
      <3>2. UNCHANGED <<identity, claims>>
        BY <2>1 DEF Gather
      <3>3. ResolvedFromEvidence'
        BY <3>1, <3>2 DEF PipelineInv, ResolvedFromEvidence
      <3>4. ClaimsNameAConfirmedProduct'
        <4> SUFFICES ASSUME claims # None, NEW k \in DOMAIN claims
                     PROVE  Exacts(evidence', Brand, claims[k].mpn) # {}
          BY <3>2 DEF ClaimsNameAConfirmedProduct
        <4>1. Exacts(evidence, Brand, claims[k].mpn) # {}
          BY DEF PipelineInv, ClaimsNameAConfirmedProduct
        <4>2. PICK before, after : before = evidence /\ after = evidence'
          OBVIOUS
        <4>3. Exacts(before, Brand, claims[k].mpn) \subseteq Exacts(after, Brand, claims[k].mpn)
          BY <3>1, <4>2 DEF Exacts
        <4> QED BY <4>1, <4>2, <4>3
      <3> QED BY <3>1, <3>2, <3>3, <3>4 DEF PipelineInv
    <2>2. CASE Resolve
      <3>1. PICK mpn \in References :
               identity' = [asked |-> mpn,
                            answer |-> ResolveIdentity(evidence, Brand, mpn, Selection)]
        BY <2>2 DEF Resolve
      <3>2. UNCHANGED <<evidence, claims>>
        BY <2>2 DEF Resolve
      <3>3. ResolveIdentity(evidence, Brand, mpn, Selection) \in Answers
        BY ResolutionsAreAnswers DEF PipelineInv
      <3>4. identity' # NoIdentity
        BY <3>1, <3>3, PipelineAssumption
      <3>5. ResolvedFromEvidence'
        BY <3>1, <3>2 DEF ResolvedFromEvidence
      <3> QED BY <3>2, <3>4, <3>5 DEF PipelineInv, ClaimsNameAConfirmedProduct
    <2>3. CASE Extract
      <3>1. identity # NoIdentity /\ identity.answer.disposition = "EXACT"
        BY <2>3 DEF Extract
      <3>2. PICK e \in SUBSET evidence :
               identity.answer = ResolveIdentity(e, Brand, identity.asked, Selection)
        BY <3>1 DEF PipelineInv, ResolvedFromEvidence
      <3>3. IsFiniteSet(e)
        BY PipelineAssumption, FS_Subset DEF PipelineInv
      <3>4. Exacts(e, Brand, identity.answer.exact) # {}
        BY <3>1, <3>2, <3>3, ExactAnswers
      <3>5. Exacts(evidence, Brand, identity.answer.exact) # {}
        BY <3>4 DEF Exacts
      <3>6. UNCHANGED <<evidence, identity>>
        BY <2>3 DEF Extract
      <3>7. \A k \in DOMAIN claims' : claims'[k].mpn = identity.answer.exact
        BY <2>3 DEF Extract, ClaimFor
      <3> QED BY <3>1, <3>5, <3>6, <3>7
              DEF PipelineInv, ResolvedFromEvidence, ClaimsNameAConfirmedProduct
    <2>4. CASE UNCHANGED <<evidence, identity, claims>>
      BY <2>4 DEF PipelineInv, ResolvedFromEvidence, ClaimsNameAConfirmedProduct
    <2> QED BY <2>1, <2>2, <2>3, <2>4 DEF Next, Reingest, Load, Verify, Assemble, vars
  <1> QED BY <1>1, <1>2, PTL DEF Spec

\* Every claim, whatever the evidence and the mapping rules, is about a
\* product that a fact of its own confirms.
THEOREM ClaimsAreConfirmed == Spec => []ClaimsNameAConfirmedProduct
  <1>1. PipelineInv => ClaimsNameAConfirmedProduct
    BY DEF PipelineInv
  <1> QED BY <1>1, PipelineInvHolds, PTL

\* A question that was answered EXACT is never answered with another product,
\* whatever facts are added between the two answers.
THEOREM ExactAnswersAreStable == Spec => ExactIsStable
  <1> DEFINE Stable ==
        (/\ identity # NoIdentity /\ identity' # NoIdentity
         /\ identity.asked = identity'.asked
         /\ identity.answer.disposition = "EXACT"
         /\ identity'.answer.disposition = "EXACT")
             => identity'.answer.exact = identity.answer.exact
  <1>1. ASSUME PipelineInv, [Next]_vars
        PROVE  [Stable]_vars
    <2> SUFFICES ASSUME Next,
                        identity # NoIdentity, identity.asked = identity'.asked,
                        identity.answer.disposition = "EXACT",
                        identity'.answer.disposition = "EXACT"
                 PROVE  identity'.answer.exact = identity.answer.exact
      BY <1>1
    <2>1. CASE Resolve
      <3>1. PICK mpn \in References :
               identity' = [asked |-> mpn,
                            answer |-> ResolveIdentity(evidence, Brand, mpn, Selection)]
        BY <2>1 DEF Resolve
      <3>2. PICK e \in SUBSET evidence :
               identity.answer = ResolveIdentity(e, Brand, mpn, Selection)
        BY <1>1, <3>1 DEF PipelineInv, ResolvedFromEvidence
      <3>3. IsFiniteSet(evidence)
        BY <1>1, PipelineAssumption, FS_Subset DEF PipelineInv
      <3> QED BY <3>1, <3>2, <3>3, ExactAnswersAgree
    <2>2. CASE UNCHANGED identity
      BY <2>2
    <2> QED BY <2>1, <2>2 DEF Next, Gather, Reingest, Extract, Load, Verify, Assemble
  <1> QED BY <1>1, PipelineInvHolds, PTL DEF Spec, ExactIsStable
-------------------------------------------------------------------------------
\* A line in which nothing is missing states the value and every qualifier.
LEMMA NoFailureIsSupport ==
    ASSUME NEW claim, NEW line, LineFailures(claim, line) = {}
    PROVE  States(line, claim.value, claim.conditions)
  <1> DEFINE value == claim.value
  <1>1. ValueFailures(value, line) = {} /\ ConditionFailures(claim.conditions, line) = {}
    BY DEF LineFailures
  <1>2. \A c \in claim.conditions : ConditionHolds(c, line)
    BY <1>1 DEF ConditionFailures
  <1>3. CASE value.kind = "numeric"
    <2>1. \E q \in line.states : Supports(q, Point(value))
      BY <1>1, <1>3 DEF ValueFailures
    <2> QED BY <1>2, <1>3, <2>1 DEF States
  <1>4. CASE value.kind = "alphanumeric"
    <2>1. value.text \in line.phrases
      BY <1>1, <1>4 DEF ValueFailures
    <2> QED BY <1>2, <1>4, <2>1 DEF States
  <1>5. CASE value.kind \notin {"numeric", "alphanumeric"}
    BY <1>1, <1>5 DEF ValueFailures
  <1> QED BY <1>3, <1>4, <1>5

\* A value that a line states, the line states in the unit of the target too.
LEMMA ConversionKeepsSupport ==
    ASSUME NEW line, NEW value, NEW conditions, States(line, value, conditions),
           NEW rule, ValueForTarget(rule, value) # NoValue
    PROVE  States(line, ValueForTarget(rule, value), conditions)
  <1> DEFINE converted == [kind |-> "numeric", magnitude |-> value.magnitude, unit |-> rule.uom]
  <1>1. CASE ValueForTarget(rule, value) = value
    BY <1>1
  <1>2. CASE /\ value.kind = "numeric" /\ ValueForTarget(rule, value) = converted
             /\ {value.unit, rule.uom} \subseteq Known /\ Convertible(value.unit, rule.uom)
    <2>1. PICK q \in line.states : Supports(q, Point(value))
      BY <1>2 DEF States
    <2>2. value.unit # NoUnit /\ rule.uom # NoUnit
      BY <1>2, PipelineAssumption
    <2>3. q.unit \in Known /\ Convertible(q.unit, value.unit)
      BY <1>2, <2>1, <2>2 DEF Supports, Point, Quantity, Convertible
    <2>4. Convertible(q.unit, rule.uom)
      BY <1>2, <2>3 DEF Convertible
    <2>5. Supports(q, Point(converted))
      BY <1>2, <2>1, <2>2, <2>3, <2>4 DEF Supports, Point, Quantity
    <2> QED BY <1>2, <2>5 DEF States
  <1> QED BY <1>1, <1>2 DEF ValueForTarget

\* What the verifier calls an exact span is in a line that speaks for the
\* product of the claim.
LEMMA VerifiedIsWitnessed ==
    ASSUME NEW claim, NEW artifact, NEW tabled,
           VerifyInArtifact(claim, artifact, tabled).status = "EXACT_SPAN"
    PROVE  \E line \in SpeaksFor(artifact, claim.page, claim.mpn) :
              States(line, claim.value, claim.conditions)
  <1> DEFINE binding == ScopeBinding(artifact, claim.mpn)
             paged == claim.page \in DOMAIN artifact.pages
             page == artifact.pages[claim.page]
             table == artifact.tables[claim.page]
             rows == IF tabled /\ paged THEN RowsFor(claim, table) ELSE {}
  <1>1. binding \in {"EXACT", "CONTRADICTED", "NOT_ESTABLISHED"}
    BY DEF ScopeBinding
  <1>2. CASE binding # "CONTRADICTED" /\ paged /\ rows # {}
    <2>1. PICK n \in DOMAIN table : table[n].mpn = claim.mpn /\ LineFailures(claim, table[n].line) = {}
      BY <1>2 DEF RowsFor
    <2>2. States(table[n].line, claim.value, claim.conditions)
      BY <2>1, NoFailureIsSupport
    <2> QED BY <2>1, <2>2 DEF SpeaksFor
  <1>3. CASE binding = "EXACT" /\ paged /\ rows = {}
    <2>1. artifact.scope = "EXACT_SKU" /\ artifact.covers = claim.mpn
      BY <1>3 DEF ScopeBinding
    <2>2. VerifyText(claim, page).status = "EXACT_SPAN"
      BY <1>3 DEF VerifyInArtifact
    <2>3. PICK n \in Located(page, claim.fragment) : LineFailures(claim, page[n]) = {}
      BY <2>2 DEF VerifyText, Failed
    <2>4. n \in DOMAIN page
      BY <2>3 DEF Located
    <2>5. States(page[n], claim.value, claim.conditions)
      BY <2>3, NoFailureIsSupport
    <2> QED BY <2>1, <2>4, <2>5 DEF SpeaksFor
  <1>4. CASE binding = "CONTRADICTED" \/ ~paged \/ (binding = "NOT_ESTABLISHED" /\ rows = {})
    BY <1>1, <1>4 DEF VerifyInArtifact, Failed
  <1> QED BY <1>1, <1>2, <1>3, <1>4

\* A fact that is committed was verified, is about the product of the
\* identity handed in, and holds its value in the unit of its target; the
\* facts merged into it agree with it on value and operating point.
LEMMA CommittedFacts ==
    ASSUME NEW results, NEW registry, NEW gate, IsFiniteSet(DOMAIN results),
           \A k \in DOMAIN results : results[k].key = k,
           NEW k \in Committed(Adjudicate(results, registry, gate))
    PROVE  LET fact == Adjudicate(results, registry, gate)[k]
           IN  /\ k \in DOMAIN results /\ fact.outcome = results[k]
               /\ SameProduct(results[k], gate)
               /\ \A j \in {k} \cup fact.merged :
                     /\ j \in DOMAIN results
                     /\ results[j].status = "EXACT_SPAN"
                     /\ results[j].conditions = results[k].conditions
                     /\ ValueForTarget(registry[j], results[j].value) # NoValue
                     /\ fact.value = ValueForTarget(registry[j], results[j].value)
  <1> DEFINE alone == [j \in DOMAIN results |-> AdjudicateOne(results[j], registry, gate)]
             settled == ResolveConflicts(alone, registry)
             group == Wanting(alone, registry, registry[k].label)
  <1>1. settled = Adjudicate(results, registry, gate)
    BY DEF Adjudicate
  <1>2. ASSUME NEW j \in Committed(alone)
        PROVE  /\ j \in DOMAIN results /\ SameProduct(results[j], gate)
               /\ results[j].status = "EXACT_SPAN"
               /\ ValueForTarget(registry[j], results[j].value) # NoValue
               /\ alone[j] = Decided(results[j], "COMMIT", "ELIGIBLE",
                                     ValueForTarget(registry[j], results[j].value))
    BY DEF Committed, AdjudicateOne, Refusal, Decided
  <1>3. k \in DOMAIN results /\ k \in Committed(alone)
    BY <1>1 DEF Committed, ResolveConflicts
  <1>4. /\ settled[k] = [alone[k] EXCEPT !.merged = group \ {k}]
        /\ ~(Cardinality(Points(alone, group)) > 1)
        /\ ~(Cardinality(Values(alone, group)) > 1)
    BY <1>1, <1>3 DEF Committed, ResolveConflicts, Refusal, Decided
  <1>5. settled[k].outcome = results[k] /\ settled[k].merged = group \ {k}
        /\ settled[k].value = ValueForTarget(registry[k], results[k].value)
    <2>1. ASSUME NEW a, NEW o, NEW v, NEW g, a = Decided(o, "COMMIT", "ELIGIBLE", v)
          PROVE  LET b == [a EXCEPT !.merged = g]
                 IN  b.outcome = o /\ b.merged = g /\ b.value = v
      BY <2>1 DEF Decided
    <2> HIDE DEF alone, settled, group
    <2> QED BY <1>2, <1>3, <1>4, <2>1
  <1>6. k \in group /\ group \subseteq Committed(alone)
    BY <1>3 DEF Wanting
  <1>7. ASSUME NEW S, IsFiniteSet(S), ~(Cardinality(S) > 1), NEW x \in S, NEW y \in S
        PROVE  x = y
    BY <1>7, FS_CardinalityType, FS_EmptySet, FS_Singleton
  <1>8. IsFiniteSet(group)
    BY <1>6, <1>2, FS_Subset
  <1>9. IsFiniteSet(Points(alone, group)) /\ IsFiniteSet(Values(alone, group))
    <2>1. [j \in group |-> alone[j].outcome.conditions] \in Surjection(group, Points(alone, group))
      BY DEF Surjection, Points
    <2>2. [j \in group |-> alone[j].value] \in Surjection(group, Values(alone, group))
      BY DEF Surjection, Values
    <2> QED BY <1>8, <2>1, <2>2, FS_Surjection
  <1>10. ASSUME NEW j \in group
         PROVE  alone[j].outcome.conditions = alone[k].outcome.conditions
                /\ alone[j].value = alone[k].value
    <2>1. alone[j].outcome.conditions \in Points(alone, group)
          /\ alone[k].outcome.conditions \in Points(alone, group)
      BY <1>6 DEF Points
    <2>2. alone[j].value \in Values(alone, group) /\ alone[k].value \in Values(alone, group)
      BY <1>6 DEF Values
    <2> QED BY <1>4, <1>7, <1>9, <2>1, <2>2
  <1>11. ASSUME NEW j \in group
         PROVE  /\ j \in DOMAIN results
                /\ results[j].status = "EXACT_SPAN"
                /\ results[j].conditions = results[k].conditions
                /\ ValueForTarget(registry[j], results[j].value) # NoValue
                /\ settled[k].value = ValueForTarget(registry[j], results[j].value)
    <2>1. ASSUME NEW i \in {j, k}
          PROVE  /\ alone[i].outcome = results[i]
                 /\ alone[i].value = ValueForTarget(registry[i], results[i].value)
      <3>1. i \in Committed(alone)
        BY <1>3, <1>6
      <3>2. alone[i] = Decided(results[i], "COMMIT", "ELIGIBLE",
                              ValueForTarget(registry[i], results[i].value))
        BY <1>2, <3>1
      <3> HIDE DEF alone
      <3> QED BY <3>2 DEF Decided
    <2>2. j \in Committed(alone)
      BY <1>6
    <2> HIDE DEF alone, settled, group
    <2> QED BY <1>2, <1>5, <1>10, <2>1, <2>2
  <1> QED BY <1>1, <1>2, <1>3, <1>5, <1>6, <1>11

\* A fragment that was found in the text as it is written says the same
\* wherever it is.
LEMMA VerifiedIsUnanimous ==
    ASSUME NEW claim, NEW artifact, NEW tabled,
           VerifyInArtifact(claim, artifact, tabled).status = "EXACT_SPAN",
           VerifyInArtifact(claim, artifact, tabled).mode = "TEXT_UNIT",
           NEW n \in DOMAIN artifact.pages[claim.page],
           claim.fragment \in artifact.pages[claim.page][n].reads
    PROVE  States(artifact.pages[claim.page][n], claim.value, claim.conditions)
  <1> DEFINE page == artifact.pages[claim.page]
             binding == ScopeBinding(artifact, claim.mpn)
             paged == claim.page \in DOMAIN artifact.pages
             rows == IF tabled /\ paged THEN RowsFor(claim, artifact.tables[claim.page]) ELSE {}
             located == Located(page, claim.fragment)
             agree == {m \in located : LineFailures(claim, page[m]) = {}}
  <1>1. binding \in {"EXACT", "CONTRADICTED", "NOT_ESTABLISHED"}
    BY DEF ScopeBinding
  <1>2. ~(binding # "CONTRADICTED" /\ paged /\ rows # {})
    <2> SUFFICES ASSUME binding # "CONTRADICTED", paged, rows # {} PROVE FALSE
      OBVIOUS
    <2>1. VerifyInArtifact(claim, artifact, tabled).mode = "TABLE_UNIT"
      BY DEF VerifyInArtifact
    <2> QED BY <2>1
  <1>3. ~(binding = "CONTRADICTED" \/ ~paged \/ (binding = "NOT_ESTABLISHED" /\ rows = {}))
    <2> SUFFICES ASSUME binding = "CONTRADICTED" \/ ~paged
                        \/ (binding = "NOT_ESTABLISHED" /\ rows = {})
                 PROVE FALSE
      OBVIOUS
    <2> QED BY <1>1 DEF VerifyInArtifact, Failed
  <1>4. VerifyInArtifact(claim, artifact, tabled) = VerifyText(claim, page)
    BY <1>1, <1>2, <1>3 DEF VerifyInArtifact
  <1>5. agree = located
    <2>1. VerifyText(claim, page).status = "EXACT_SPAN"
      BY <1>4
    <2>2. located # {}
      BY <2>1 DEF VerifyText, Failed
    <2>3. ~(agree = {} /\ located # {})
      BY <2>1 DEF VerifyText
    <2>4. ~(agree # {} /\ agree # located)
      BY <2>1 DEF VerifyText, Failed
    <2> QED BY <2>2, <2>3, <2>4
  <1>6. n \in located
    BY DEF Located
  <1>7. LineFailures(claim, page[n]) = {}
    BY <1>5, <1>6
  <1> QED BY <1>7, NoFailureIsSupport

\* The same of a whole verification, whatever the gate and the parse.
LEMMA SpansAreWitnessed ==
    ASSUME NEW claim, NEW gate, NEW reading,
           VerifyClaim(claim, gate, reading).status = "EXACT_SPAN"
    PROVE  /\ reading # None
           /\ \E line \in SpeaksFor(reading, claim.page, claim.mpn) :
                 States(line, claim.value, claim.conditions)
           /\ VerifyClaim(claim, gate, reading).mode = "TEXT_UNIT" =>
                 \A n \in DOMAIN reading.pages[claim.page] :
                    LET line == reading.pages[claim.page][n]
                    IN  claim.fragment \in line.reads =>
                            States(line, claim.value, claim.conditions)
  <1>1. SameProduct(claim, gate) /\ reading # None
        /\ VerifyClaim(claim, gate, reading) = VerifyInArtifact(claim, reading, caller.tabled)
    BY DEF VerifyClaim, SameProduct, Failed
  <1> QED BY <1>1, VerifiedIsWitnessed, VerifiedIsUnanimous

\* The second invariant: outcomes are of claims of the one product of the
\* run, a span that was verified is witnessed by the parse it was verified
\* on, and the facts behind a cell are outcomes that bear it out.
Witnessed(outcome, value, conditions) ==
    /\ outcome.read # None
    /\ \E line \in SpeaksFor(outcome.read, outcome.page, outcome.mpn) :
          States(line, value, conditions)

Unanimous(outcome, value, conditions) ==
    outcome.mode = "TEXT_UNIT" =>
        \A n \in DOMAIN outcome.read.pages[outcome.page] :
            LET line == outcome.read.pages[outcome.page][n]
            IN  outcome.fragment \in line.reads => States(line, value, conditions)

Backs(k, c) ==
    /\ k \in DOMAIN outcomes
    /\ outcomes[k].mpn = c.mpn
    /\ Witnessed(outcomes[k], c.value, c.conditions)
    /\ Unanimous(outcomes[k], c.value, c.conditions)

OneProduct ==
    claims # None => /\ DOMAIN claims \subseteq Keys
                     /\ \A j, k \in DOMAIN claims : claims[j].mpn = claims[k].mpn
                     /\ \A k \in DOMAIN claims : claims[k].key = k

OutcomesInv ==
    /\ OneProduct
    /\ DOMAIN outcomes \subseteq Keys
    /\ claims = None => DOMAIN outcomes = {}
    /\ \A k \in DOMAIN outcomes :
          /\ k \in DOMAIN claims
          /\ outcomes[k].key = k
          /\ outcomes[k].mpn = claims[k].mpn
          /\ outcomes[k].status = "EXACT_SPAN" =>
                /\ Witnessed(outcomes[k], outcomes[k].value, outcomes[k].conditions)
                /\ Unanimous(outcomes[k], outcomes[k].value, outcomes[k].conditions)
    /\ \A c \in Written : \A k \in c.supporting : Backs(k, c)

\* Only a verification makes an outcome and only an assembly makes a cell.
LEMMA OutcomesInvHolds == Spec => []OutcomesInv
  <1>1. Init => OutcomesInv
    BY DEF Init, OutcomesInv, OneProduct, Written, Unwritten
  <1>2. ASSUME OutcomesInv, [Next]_vars
        PROVE  OutcomesInv'
    <2> USE <1>2
    <2>1. CASE Extract
      <3>1. claims = None /\ DOMAIN outcomes = {} /\ UNCHANGED <<outcomes, row>>
        BY <2>1 DEF Extract, OutcomesInv
      <3>2. OneProduct'
        BY <2>1 DEF Extract, ClaimFor, OneProduct
      <3>3. \A c \in Written' : \A k \in c.supporting : Backs(k, c)'
        BY <3>1 DEF OutcomesInv, Written, Backs
      <3> QED BY <3>1, <3>2, <3>3 DEF OutcomesInv
    <2>2. CASE Verify
      <3>1. /\ claims # None
            /\ UNCHANGED <<claims, row>>
        BY <2>2 DEF Verify
      <3>2. PICK n \in Pending :
               outcomes' = [k \in DOMAIN outcomes \cup {Schema[n]} |->
                              IF k = Schema[n] THEN OutcomeOf(claims[k], Gate, Reading)
                              ELSE outcomes[k]]
        BY <2>2 DEF Verify
      <3> DEFINE next == Schema[n]
      <3>3. next \in DOMAIN claims /\ next \notin DOMAIN outcomes /\ next \in Keys
        BY <3>2 DEF Pending, Keys
      <3>4. \A k \in DOMAIN outcomes : k \in DOMAIN outcomes' /\ outcomes'[k] = outcomes[k]
        BY <3>2, <3>3
      <3>5. DOMAIN outcomes' = DOMAIN outcomes \cup {next}
            /\ outcomes'[next] = OutcomeOf(claims[next], Gate, Reading)
        BY <3>2
      <3>6. /\ outcomes'[next].key = next
            /\ outcomes'[next].mpn = claims[next].mpn
            /\ outcomes'[next].status = "EXACT_SPAN" =>
                  /\ Witnessed(outcomes'[next], outcomes'[next].value, outcomes'[next].conditions)
                  /\ Unanimous(outcomes'[next], outcomes'[next].value, outcomes'[next].conditions)
        <4>1. claims[next].key = next
          BY <3>1, <3>3 DEF OutcomesInv, OneProduct
        <4>2. PICK claim, gate, reading : /\ claim = claims[next] /\ gate = Gate
                                           /\ reading = Reading
          OBVIOUS
        <4>3. ASSUME VerifyClaim(claim, gate, reading).status = "EXACT_SPAN"
              PROVE  LET o == OutcomeOf(claim, gate, reading)
                     IN  Witnessed(o, o.value, o.conditions) /\ Unanimous(o, o.value, o.conditions)
          BY <4>3, SpansAreWitnessed DEF OutcomeOf, Witnessed, Unanimous
        <4>4. OutcomeOf(claim, gate, reading).status = VerifyClaim(claim, gate, reading).status
          BY DEF OutcomeOf
        <4> QED BY <3>5, <4>1, <4>2, <4>3, <4>4 DEF OutcomeOf
      <3>7. \A c \in Written' : \A k \in c.supporting : Backs(k, c)'
        BY <3>1, <3>4 DEF OutcomesInv, Written, Backs
      <3>8. OneProduct'
        BY <3>1 DEF OutcomesInv, OneProduct
      <3> QED BY <3>1, <3>3, <3>4, <3>5, <3>6, <3>7, <3>8 DEF OutcomesInv
    <2>3. CASE Assemble
      <3>1. /\ claims # None
            /\ UNCHANGED <<claims, outcomes>>
            /\ facts' = Adjudicate(outcomes, caller.registry, Gate)
            /\ row' = WriteAttributes(BuildAttributes(facts', caller.registry))
        BY <2>3 DEF Assemble
      <3>2. ASSUME NEW c \in Written', NEW j \in c.supporting
            PROVE  Backs(j, c)
        <4>1. PICK settled : settled = facts'
          OBVIOUS
        <4>2. c \in BuildAttributes(settled, caller.registry)
          BY <3>1, <3>2, <4>1 DEF Written, WriteAttributes
        <4>3. PICK k \in Committed(settled) :
                 /\ c.value = settled[k].value
                 /\ c.conditions = settled[k].outcome.conditions
                 /\ c.mpn = settled[k].outcome.mpn
                 /\ c.supporting = {k} \cup settled[k].merged
          BY <4>2 DEF BuildAttributes
        <4>4. IsFiniteSet(DOMAIN outcomes)
          BY PipelineAssumption, FS_Subset DEF OutcomesInv
        <4>5. \A i \in DOMAIN outcomes : outcomes[i].key = i
          BY DEF OutcomesInv
        <4>6. /\ k \in DOMAIN outcomes /\ settled[k].outcome = outcomes[k]
              /\ j \in DOMAIN outcomes
              /\ outcomes[j].status = "EXACT_SPAN"
              /\ outcomes[j].conditions = outcomes[k].conditions
              /\ ValueForTarget(caller.registry[j], outcomes[j].value) # NoValue
              /\ settled[k].value = ValueForTarget(caller.registry[j], outcomes[j].value)
          BY <3>1, <3>2, <4>1, <4>3, <4>4, <4>5, CommittedFacts
        <4>7. outcomes[j].mpn = c.mpn
          BY <3>1, <4>3, <4>6 DEF OutcomesInv, OneProduct
        <4>8. PICK line \in SpeaksFor(outcomes[j].read, outcomes[j].page, outcomes[j].mpn) :
                 States(line, outcomes[j].value, outcomes[j].conditions)
          BY <4>6 DEF OutcomesInv, Witnessed
        <4>9. States(line, c.value, c.conditions)
          BY <4>3, <4>6, <4>8, ConversionKeepsSupport
        <4>10. outcomes[j].read # None
          BY <4>6 DEF OutcomesInv, Witnessed
        <4>11. Unanimous(outcomes[j], c.value, c.conditions)
          <5>1. Unanimous(outcomes[j], outcomes[j].value, outcomes[j].conditions)
            BY <4>6 DEF OutcomesInv
          <5>2. ASSUME NEW other, States(other, outcomes[j].value, outcomes[j].conditions)
                PROVE  States(other, c.value, c.conditions)
            BY <4>3, <4>6, <5>2, ConversionKeepsSupport
          <5> QED BY <5>1, <5>2 DEF Unanimous
        <4> QED BY <4>6, <4>7, <4>8, <4>9, <4>10, <4>11 DEF Backs, Witnessed
      <3>3. \A c \in Written' : \A k \in c.supporting : Backs(k, c)'
        BY <3>1, <3>2 DEF Backs
      <3> QED BY <3>1, <3>3 DEF OutcomesInv, OneProduct
    <2>4. CASE UNCHANGED <<claims, outcomes, row>>
      BY <2>4 DEF OutcomesInv, OneProduct, Written, Backs
    <2> QED BY <2>1, <2>2, <2>3, <2>4 DEF Next, Gather, Resolve, Reingest, Load, vars
  <1> QED BY <1>1, <1>2, PTL DEF Spec

\* A gated assembly commits for the product of the caller's last resolution.
THEOREM GatedRows == Spec => GatedRowsAreOfTheProduct
  <1> DEFINE OfTheProduct ==
        row # row' /\ caller.gated =>
            \A c \in row'.cells : /\ identity.answer.disposition = "EXACT"
                                  /\ c.mpn = identity.answer.exact
  <1>1. ASSUME PipelineInv, OutcomesInv, [Next]_vars
        PROVE  [OfTheProduct]_vars
    <2> SUFFICES ASSUME Assemble, caller.gated, NEW c \in row'.cells
                 PROVE  /\ identity.answer.disposition = "EXACT"
                        /\ c.mpn = identity.answer.exact
      BY <1>1 DEF Next, Gather, Resolve, Reingest, Extract, Load, Verify, vars
    <2>1. claims # None /\ facts' = Adjudicate(outcomes, caller.registry, Gate)
      BY DEF Assemble
    <2>2. PICK settled : settled = facts'
      OBVIOUS
    <2>3. c \in BuildAttributes(settled, caller.registry)
      BY <2>2 DEF Assemble, WriteAttributes
    <2>4. PICK k \in Committed(settled) : c.mpn = settled[k].outcome.mpn
      BY <2>3 DEF BuildAttributes
    <2>5. SameProduct(outcomes[k], Gate) /\ settled[k].outcome = outcomes[k]
      <3>1. IsFiniteSet(DOMAIN outcomes)
        BY <1>1, PipelineAssumption, FS_Subset DEF OutcomesInv
      <3>2. \A j \in DOMAIN outcomes : outcomes[j].key = j
        BY <1>1 DEF OutcomesInv
      <3> QED BY <2>1, <2>2, <2>4, <3>1, <3>2, CommittedFacts
    <2>6. Gate = identity.answer /\ Gate # NoIdentity
      <3>1. PICK e \in SUBSET evidence :
               identity.answer = ResolveIdentity(e, Brand, identity.asked, Selection)
        BY <1>1, <2>1 DEF PipelineInv, ResolvedFromEvidence
      <3>2. e \subseteq Facts /\ identity.asked \in References
        BY <1>1, <2>1 DEF PipelineInv, ResolvedFromEvidence
      <3>3. identity.answer \in Answers
        BY <3>1, <3>2, ResolutionsAreAnswers
      <3> QED BY <3>3, PipelineAssumption DEF Gate
    <2> QED BY <2>4, <2>5, <2>6 DEF SameProduct
  <1> QED BY <1>1, PipelineInvHolds, OutcomesInvHolds, PTL DEF Spec, GatedRowsAreOfTheProduct

\* Every written cell, with its unit converted and its duplicates merged, is
\* in a line that speaks for the product, of a parse each of its facts was
\* verified on; whatever the document, the mapping rules and the interleaving
\* with the store.
THEOREM WrittenCellsAreWitnessed == Spec => []CellsAreWitnessed
  <1>1. OutcomesInv => CellsAreWitnessed
    BY DEF OutcomesInv, CellsAreWitnessed, Backs, Witnessed
  <1> QED BY <1>1, OutcomesInvHolds, PTL

\* No place that a written text fact's fragment is quoted from says anything
\* else than its cell, in any parse and through any conversion and merge.
THEOREM OccurrencesAgree == Spec => []NoOccurrenceDisagrees
  <1>1. OutcomesInv => NoOccurrenceDisagrees
    BY DEF OutcomesInv, NoOccurrenceDisagrees, Backs, Unanimous
  <1> QED BY <1>1, OutcomesInvHolds, PTL
-------------------------------------------------------------------------------
(* The row tells all that was decided. *)

Alone(results, registry, gate) ==
    [k \in DOMAIN results |-> AdjudicateOne(results[k], registry, gate)]

\* The facts of a group agree on value and operating point.
Agree(fs, group) ==
    \A j, k \in group : /\ fs[j].value = fs[k].value
                        /\ fs[j].outcome.conditions = fs[k].outcome.conditions

\* A fact that is eligible on its own, and what the others make of it.
LEMMA AloneCommitted ==
    ASSUME NEW results, NEW registry, NEW gate, NEW k \in DOMAIN results
    PROVE  LET alone == Alone(results, registry, gate)
           IN  /\ alone[k].outcome = results[k]
               /\ alone[k].reason = "IDENTITY_NOT_EXACT" <=> ~SameProduct(results[k], gate)
               /\ k \in Committed(alone) <=>
                     /\ SameProduct(results[k], gate)
                     /\ results[k].status = "EXACT_SPAN"
                     /\ results[k].key \in DOMAIN registry
                     /\ KindFits(registry[results[k].key], results[k].value)
                     /\ Representable(registry[results[k].key], results[k].conditions)
                     /\ ValueForTarget(registry[results[k].key], results[k].value) # NoValue
               /\ k \in Committed(alone) =>
                     alone[k] = Decided(results[k], "COMMIT", "ELIGIBLE",
                                   ValueForTarget(registry[results[k].key], results[k].value))
BY DEF Alone, Committed, AdjudicateOne, Refusal, Decided

LEMMA OneOrMore ==
    ASSUME NEW S, IsFiniteSet(S)
    PROVE  Cardinality(S) > 1 <=> \E x, y \in S : x # y
<1>1. Cardinality(S) \in Nat
  BY FS_CardinalityType
<1>2. ASSUME ~(Cardinality(S) > 1) PROVE \A x, y \in S : x = y
  <2>1. Cardinality(S) = 0 \/ Cardinality(S) = 1
    BY <1>1, <1>2
  <2> QED BY <2>1, FS_EmptySet, FS_Singleton
<1>3. ASSUME \A x, y \in S : x = y PROVE ~(Cardinality(S) > 1)
  <2>1. CASE S = {}
    BY <2>1, FS_EmptySet
  <2>2. CASE S # {}
    <3>1. PICK x : S = {x}
      BY <1>3, <2>2
    <3> QED BY <3>1, FS_Singleton
  <2> QED BY <2>1, <2>2
<1> QED BY <1>2, <1>3

LEMMA Images ==
    ASSUME NEW f, NEW group, IsFiniteSet(group)
    PROVE  /\ IsFiniteSet(Points(f, group)) /\ IsFiniteSet(Values(f, group))
           /\ Agree(f, group) <=> /\ ~(Cardinality(Points(f, group)) > 1)
                                  /\ ~(Cardinality(Values(f, group)) > 1)
<1>1. [j \in group |-> f[j].outcome.conditions] \in Surjection(group, Points(f, group))
  BY DEF Surjection, Points
<1>2. [j \in group |-> f[j].value] \in Surjection(group, Values(f, group))
  BY DEF Surjection, Values
<1>3. IsFiniteSet(Points(f, group)) /\ IsFiniteSet(Values(f, group))
  BY <1>1, <1>2, FS_Surjection
<1>4. ~(Cardinality(Points(f, group)) > 1) <=>
         \A j, k \in group : f[j].outcome.conditions = f[k].outcome.conditions
  BY <1>3, OneOrMore DEF Points
<1>5. ~(Cardinality(Values(f, group)) > 1) <=> \A j, k \in group : f[j].value = f[k].value
  BY <1>3, OneOrMore DEF Values
<1> QED BY <1>3, <1>4, <1>5 DEF Agree

\* The keeper of a group is one of it, by priority and then key.
LEMMA KeeperIsInGroup ==
    ASSUME NEW registry, NEW group, IsFiniteSet(group), group # {}, group \subseteq Nat,
           \A k \in group : registry[k].priority \in Int
    PROVE  Keeper(group, registry) \in group
<1> DEFINE priorities == {registry[k].priority : k \in group}
<1>1. IsFiniteSet(priorities)
  <2>1. [k \in group |-> registry[k].priority] \in Surjection(group, priorities)
    BY DEF Surjection
  <2> QED BY <2>1, FS_Surjection
<1>2. PICK best \in priorities : \A p \in priorities : best <= p
  <2>1. priorities \in SUBSET Int /\ priorities # {}
    OBVIOUS
  <2> HIDE DEF priorities
  <2> QED BY <1>1, <2>1, LeastOfFinite
<1> DEFINE first == {k \in group : registry[k].priority = best}
<1>3. PICK k \in first : \A j \in first : k <= j
  <2>1. first \in SUBSET Nat /\ first # {}
    BY <1>2
  <2> HIDE DEF first
  <2> QED BY <2>1, LeastNatural
<1>4. ASSUME NEW j \in group
      PROVE  \/ registry[k].priority < registry[j].priority
             \/ registry[k].priority = registry[j].priority /\ k <= j
  <2>1. best <= registry[j].priority /\ best \in Int /\ registry[j].priority \in Int
    BY <1>2
  <2>2. registry[k].priority = best
    BY <1>3
  <2>3. registry[j].priority = best => k <= j
    BY <1>3
  <2> QED BY <2>1, <2>2, <2>3
<1> QED BY <1>3, <1>4 DEF Keeper

\* What becomes of each fact: one that is not eligible stays as it was, a group
\* in dispute goes to review, and of one that agrees the keeper has the cell.
LEMMA SettledFacts ==
    ASSUME NEW results, NEW registry, NEW gate, IsFiniteSet(DOMAIN results),
           NEW k \in DOMAIN results
    PROVE  LET alone == Alone(results, registry, gate)
               settled == Adjudicate(results, registry, gate)
               group == Wanting(alone, registry, registry[k].label)
           IN  /\ DOMAIN settled = DOMAIN results
               /\ k \notin Committed(alone) => settled[k] = alone[k]
               /\ k \in Committed(alone) =>
                     /\ settled[k].reason # "IDENTITY_NOT_EXACT"
                     /\ ~Agree(alone, group) => settled[k].decision = "REVIEW"
                     /\ Agree(alone, group) /\ k # Keeper(group, registry) =>
                           settled[k].decision = "WITHHOLD"
                     /\ Agree(alone, group) /\ k = Keeper(group, registry) =>
                           settled[k] = [alone[k] EXCEPT !.merged = group \ {k}]
<1> DEFINE alone == Alone(results, registry, gate)
           settled == Adjudicate(results, registry, gate)
           group == Wanting(alone, registry, registry[k].label)
<1>1. settled = ResolveConflicts(alone, registry) /\ DOMAIN alone = DOMAIN results
  BY DEF Adjudicate, Alone
<1>2. IsFiniteSet(group)
  <2>1. group \subseteq DOMAIN results
    BY <1>1 DEF Wanting, Committed
  <2> QED BY <2>1, FS_Subset
<1>3. Agree(alone, group) <=> /\ ~(Cardinality(Points(alone, group)) > 1)
                              /\ ~(Cardinality(Values(alone, group)) > 1)
  BY <1>2, Images
<1>4. k \in Committed(alone) => alone[k] = Decided(results[k], "COMMIT", "ELIGIBLE",
                                   ValueForTarget(registry[results[k].key], results[k].value))
  BY AloneCommitted
<1>5. settled[k] =
        IF k \notin Committed(alone) THEN alone[k]
        ELSE IF Cardinality(Points(alone, group)) > 1
             THEN Refusal(alone[k].outcome, "REVIEW", "MULTIPLE_OPERATING_POINTS")
             ELSE IF Cardinality(Values(alone, group)) > 1
             THEN Refusal(alone[k].outcome, "REVIEW", "CONFLICT")
             ELSE IF k = Keeper(group, registry)
             THEN [alone[k] EXCEPT !.merged = group \ {k}]
             ELSE Refusal(alone[k].outcome, "WITHHOLD", "DUPLICATE_MERGED")
  BY <1>1 DEF ResolveConflicts
<1>6. DOMAIN settled = DOMAIN results
  BY <1>1 DEF ResolveConflicts
<1> HIDE DEF alone, settled, group
<1>7. /\ k \notin Committed(alone) => settled[k] = alone[k]
      /\ k \in Committed(alone) =>
            /\ settled[k].reason # "IDENTITY_NOT_EXACT"
            /\ ~Agree(alone, group) => settled[k].decision = "REVIEW"
            /\ Agree(alone, group) /\ k # Keeper(group, registry) =>
                  settled[k].decision = "WITHHOLD"
            /\ Agree(alone, group) /\ k = Keeper(group, registry) =>
                  settled[k] = [alone[k] EXCEPT !.merged = group \ {k}]
  BY <1>3, <1>4, <1>5 DEF Refusal, Decided
<1> QED BY <1>6, <1>7 DEF alone, settled, group

\* What the lemmas ask of the outcomes of a run and of a mapping registry.
Given(results, registry) ==
    /\ IsFiniteSet(DOMAIN results) /\ DOMAIN results \subseteq Nat
    /\ \A k \in DOMAIN results : results[k].key = k
    /\ \A k \in DOMAIN registry : registry[k].priority \in Int /\ registry[k].label \in Nat

\* The same, as far as the contests of a row need it.
LEMMA Refused ==
    ASSUME NEW results, NEW registry, NEW gate, Given(results, registry),
           NEW k \in DOMAIN results
    PROVE  /\ k \notin Committed(Alone(results, registry, gate)) =>
                 Adjudicate(results, registry, gate)[k] = Alone(results, registry, gate)[k]
           /\ k \in Committed(Alone(results, registry, gate)) =>
                 Adjudicate(results, registry, gate)[k].reason # "IDENTITY_NOT_EXACT"
           /\ /\ k \in Committed(Alone(results, registry, gate))
              /\ Adjudicate(results, registry, gate)[k].decision # "REVIEW"
              => Agree(Alone(results, registry, gate),
                       Wanting(Alone(results, registry, gate), registry, registry[k].label))
<1> DEFINE alone == Alone(results, registry, gate)
           settled == Adjudicate(results, registry, gate)
           group == Wanting(alone, registry, registry[k].label)
<1>1. /\ k \notin Committed(alone) => settled[k] = alone[k]
      /\ k \in Committed(alone) =>
            /\ settled[k].reason # "IDENTITY_NOT_EXACT"
            /\ ~Agree(alone, group) => settled[k].decision = "REVIEW"
            /\ Agree(alone, group) /\ k # Keeper(group, registry) =>
                  settled[k].decision = "WITHHOLD"
            /\ Agree(alone, group) /\ k = Keeper(group, registry) =>
                  settled[k] = [alone[k] EXCEPT !.merged = group \ {k}]
  BY SettledFacts DEF Given
<1>2. alone = Alone(results, registry, gate) /\ settled = Adjudicate(results, registry, gate)
      /\ group = Wanting(alone, registry, registry[k].label)
  OBVIOUS
<1> HIDE DEF alone, settled, group
<1> QED BY <1>1, <1>2

LEMMA GroupsAreFinite ==
    ASSUME NEW results, NEW registry, NEW gate, Given(results, registry), NEW label
    PROVE  LET alone == Alone(results, registry, gate)
           IN  /\ Committed(alone) \subseteq DOMAIN results \cap DOMAIN registry
               /\ Wanting(alone, registry, label) \subseteq Committed(alone)
               /\ IsFiniteSet(Wanting(alone, registry, label))
               /\ Wanting(alone, registry, label) # {} =>
                     Keeper(Wanting(alone, registry, label), registry)
                        \in Wanting(alone, registry, label)
<1> DEFINE alone == Alone(results, registry, gate)
           group == Wanting(alone, registry, label)
<1>1. Committed(alone) \subseteq DOMAIN results
  BY DEF Committed, Alone
<1>2. Committed(alone) \subseteq DOMAIN registry
  BY <1>1, AloneCommitted DEF Given
<1>3. group \subseteq Committed(alone)
  BY DEF Wanting
<1>4. group \subseteq DOMAIN results
  BY <1>1, <1>3
<1>5. IsFiniteSet(group)
  BY <1>4, FS_Subset DEF Given
<1>6. group \subseteq Nat /\ \A k \in group : registry[k].priority \in Int
  BY <1>2, <1>3, <1>4 DEF Given
<1> HIDE DEF alone, group
<1>7. group # {} => Keeper(group, registry) \in group
  BY <1>5, <1>6, KeeperIsInGroup
<1> QED BY <1>1, <1>2, <1>3, <1>5, <1>7 DEF alone, group

\* The facts with a cell are the keepers of the groups that agree.
LEMMA CommittedAreKeepers ==
    ASSUME NEW results, NEW registry, NEW gate, Given(results, registry), NEW k
    PROVE  LET alone == Alone(results, registry, gate)
               settled == Adjudicate(results, registry, gate)
               group == Wanting(alone, registry, registry[k].label)
           IN  /\ k \in Committed(settled) <=>
                     k \in Committed(alone) /\ Agree(alone, group) /\ k = Keeper(group, registry)
               /\ k \in Committed(settled) =>
                     settled[k].merged = group \ {k} /\ settled[k].outcome = results[k]
<1> DEFINE alone == Alone(results, registry, gate)
           settled == Adjudicate(results, registry, gate)
           group == Wanting(alone, registry, registry[k].label)
<1>1. DOMAIN settled = DOMAIN results /\ DOMAIN alone = DOMAIN results
  BY DEF Adjudicate, ResolveConflicts, Alone
<1>2. CASE k \notin DOMAIN results
  BY <1>1, <1>2 DEF Committed
<1>3. CASE k \in DOMAIN results
  <2>1. /\ k \notin Committed(alone) => settled[k] = alone[k]
        /\ k \in Committed(alone) =>
              /\ ~Agree(alone, group) => settled[k].decision = "REVIEW"
              /\ Agree(alone, group) /\ k # Keeper(group, registry) =>
                    settled[k].decision = "WITHHOLD"
              /\ Agree(alone, group) /\ k = Keeper(group, registry) =>
                    settled[k] = [alone[k] EXCEPT !.merged = group \ {k}]
    BY <1>3, SettledFacts DEF Given
  <2>2. k \in Committed(alone) =>
           alone[k] = Decided(results[k], "COMMIT", "ELIGIBLE",
                              ValueForTarget(registry[results[k].key], results[k].value))
    BY <1>3, AloneCommitted
  <2>3. /\ k \in Committed(settled) <=> settled[k].decision = "COMMIT"
        /\ k \in Committed(alone) <=> alone[k].decision = "COMMIT"
    BY <1>1, <1>3 DEF Committed
  <2> HIDE DEF alone, settled, group
  <2>4. ASSUME k \in Committed(alone), Agree(alone, group), k = Keeper(group, registry)
        PROVE  /\ settled[k].decision = "COMMIT"
               /\ settled[k].merged = group \ {k} /\ settled[k].outcome = results[k]
    BY <2>1, <2>2, <2>4 DEF Decided
  <2>5. ASSUME k \in Committed(alone),
               ~(Agree(alone, group) /\ k = Keeper(group, registry))
        PROVE  settled[k].decision # "COMMIT"
    <3>1. settled[k].decision \in {"REVIEW", "WITHHOLD"}
      BY <2>1, <2>5
    <3> QED BY <3>1
  <2>6. k \notin Committed(alone) => k \notin Committed(settled)
    BY <2>1, <2>3
  <2>7. /\ k \in Committed(settled) <=>
              k \in Committed(alone) /\ Agree(alone, group) /\ k = Keeper(group, registry)
        /\ k \in Committed(settled) =>
              settled[k].merged = group \ {k} /\ settled[k].outcome = results[k]
    BY <2>3, <2>4, <2>5, <2>6
  <2> QED BY <2>7 DEF alone, settled, group
<1> QED BY <1>2, <1>3

CellOf(fs, registry, k) ==
    [slot |-> Slot(fs, registry, k), key |-> k, label |-> registry[k].label,
     reads |-> RenderValue(fs[k].value), value |-> fs[k].value,
     conditions |-> fs[k].outcome.conditions, mpn |-> fs[k].outcome.mpn,
     supporting |-> {k} \cup fs[k].merged]

LEMMA CellsAreOfKeepers ==
    ASSUME NEW fs, NEW registry
    PROVE  BuildAttributes(fs, registry) = {CellOf(fs, registry, k) : k \in Committed(fs)}
BY DEF BuildAttributes, CellOf

\* A label has one cell, backed by all its rivals, or they dispute it and it has
\* none.
LEMMA CellsOfALabel ==
    ASSUME NEW results, NEW registry, NEW gate, Given(results, registry), NEW label
    PROVE  LET alone == Alone(results, registry, gate)
               settled == Adjudicate(results, registry, gate)
               rivals == Wanting(alone, registry, label)
               keeper == Keeper(rivals, registry)
               cells == {c \in BuildAttributes(settled, registry) : c.label = label}
           IN  /\ rivals # {} /\ Agree(alone, rivals) =>
                     /\ keeper \in Committed(settled)
                     /\ cells = {CellOf(settled, registry, keeper)}
                     /\ CellOf(settled, registry, keeper).supporting = rivals
               /\ ~Agree(alone, rivals) => cells = {}
<1> DEFINE alone == Alone(results, registry, gate)
           settled == Adjudicate(results, registry, gate)
           rivals == Wanting(alone, registry, label)
           keeper == Keeper(rivals, registry)
           cells == {c \in BuildAttributes(settled, registry) : c.label = label}
<1>1. \A k \in rivals : registry[k].label = label /\ k \in Committed(alone)
  BY DEF Wanting
<1>2. ASSUME NEW c \in cells
      PROVE  /\ Agree(alone, rivals) /\ c = CellOf(settled, registry, keeper)
  <2>1. PICK k \in Committed(settled) : c = CellOf(settled, registry, k)
    BY CellsAreOfKeepers
  <2>2. registry[k].label = label
    BY <2>1 DEF CellOf
  <2>3. Agree(alone, rivals) /\ k = keeper
    BY <2>2, CommittedAreKeepers
  <2> QED BY <2>1, <2>3
<1>3. ASSUME rivals # {}, Agree(alone, rivals)
      PROVE  /\ keeper \in Committed(settled)
             /\ CellOf(settled, registry, keeper) \in cells
             /\ CellOf(settled, registry, keeper).supporting = rivals
  <2>1. keeper \in rivals
    BY <1>3, GroupsAreFinite
  <2>2. registry[keeper].label = label /\ keeper \in Committed(alone)
    BY <1>1, <2>1
  <2>3. keeper \in Committed(settled) /\ settled[keeper].merged = rivals \ {keeper}
    BY <1>3, <2>2, CommittedAreKeepers
  <2>4. CellOf(settled, registry, keeper) \in BuildAttributes(settled, registry)
    BY <2>3, CellsAreOfKeepers
  <2> HIDE DEF keeper, rivals, settled, alone
  <2>5. /\ CellOf(settled, registry, keeper).label = label
        /\ CellOf(settled, registry, keeper).supporting = {keeper} \cup (rivals \ {keeper})
    BY <2>2, <2>3 DEF CellOf
  <2> QED BY <2>1, <2>3, <2>4, <2>5
<1> HIDE DEF alone, settled, rivals, keeper, cells
<1>4. /\ rivals # {} /\ Agree(alone, rivals) =>
            /\ keeper \in Committed(settled)
            /\ cells = {CellOf(settled, registry, keeper)}
            /\ CellOf(settled, registry, keeper).supporting = rivals
      /\ ~Agree(alone, rivals) => cells = {}
  BY <1>2, <1>3
<1> QED BY <1>4 DEF alone, settled, rivals, keeper, cells

\* Committed facts are in a strict order, in which each has a place of its own.
LEMMA SlotsAreDistinct ==
    ASSUME NEW results, NEW registry, NEW gate, Given(results, registry),
           NEW j \in Committed(Adjudicate(results, registry, gate)),
           NEW k \in Committed(Adjudicate(results, registry, gate))
    PROVE  LET settled == Adjudicate(results, registry, gate)
           IN  /\ Slot(settled, registry, k) \in 1 .. Cardinality(Committed(settled))
               /\ Slot(settled, registry, j) = Slot(settled, registry, k) => j = k
<1> DEFINE settled == Adjudicate(results, registry, gate)
           alone == Alone(results, registry, gate)
           all == Committed(settled)
           Below(i) == {m \in all : Precedes(registry[m], registry[i])}
<1>1. all \subseteq Committed(alone)
  BY CommittedAreKeepers
<1>2. all \subseteq DOMAIN results \cap DOMAIN registry
  BY <1>1, GroupsAreFinite
<1>3. \A i \in all : registry[i].priority \in Int /\ registry[i].label \in Nat
  BY <1>2 DEF Given
<1>4. IsFiniteSet(all)
  BY <1>2, FS_Subset DEF Given
<1>5. ASSUME NEW i \in all, NEW m \in all, i # m
      PROVE  Precedes(registry[i], registry[m]) \/ Precedes(registry[m], registry[i])
  <2>1. registry[i].label # registry[m].label
    BY <1>5, CommittedAreKeepers
  <2> QED BY <1>3, <2>1 DEF Precedes
<1> HIDE DEF settled, alone, all
<1>6. ASSUME NEW i \in all
      PROVE  /\ IsFiniteSet(Below(i)) /\ i \notin Below(i)
             /\ Slot(settled, registry, i) = 1 + Cardinality(Below(i))
             /\ Cardinality(Below(i)) \in Nat /\ Below(i) \subseteq all
  <2>1. IsFiniteSet(Below(i))
    BY <1>4, FS_Subset
  <2>2. i \notin Below(i)
    BY <1>3 DEF Precedes
  <2>3. Slot(settled, registry, i) = 1 + Cardinality(Below(i))
    BY DEF Slot, all
  <2> QED BY <2>1, <2>2, <2>3, FS_CardinalityType
<1>7. ASSUME NEW i \in all, NEW m \in all, Precedes(registry[i], registry[m])
      PROVE  Slot(settled, registry, i) < Slot(settled, registry, m)
  <2>1. Below(i) \subseteq Below(m)
    <3> SUFFICES ASSUME NEW n \in all, Precedes(registry[n], registry[i])
                 PROVE  Precedes(registry[n], registry[m])
      OBVIOUS
    <3> QED BY <1>3, <1>7 DEF Precedes
  <2>2. i \in Below(m) /\ i \notin Below(i)
    BY <1>6, <1>7
  <2> HIDE DEF Below
  <2>3. Cardinality(Below(i)) < Cardinality(Below(m))
    <3>1. Below(i) # Below(m)
      BY <2>2
    <3> QED BY <1>6, <2>1, <3>1, FS_Subset
  <2> QED BY <1>6, <2>3
<1>8. ASSUME NEW i \in all PROVE Slot(settled, registry, i) \in 1 .. Cardinality(all)
  <2>1. Below(i) # all
    BY <1>6
  <2>2. IsFiniteSet(Below(i)) /\ Below(i) \subseteq all /\ Cardinality(Below(i)) \in Nat
        /\ Slot(settled, registry, i) = 1 + Cardinality(Below(i))
    BY <1>6
  <2> HIDE DEF Below
  <2>3. Cardinality(Below(i)) < Cardinality(all) /\ Cardinality(all) \in Nat
    BY <1>4, <2>1, <2>2, FS_Subset, FS_CardinalityType
  <2> QED BY <2>2, <2>3
<1>9. j \in all /\ k \in all
  BY DEF all, settled
<1>10. Slot(settled, registry, j) = Slot(settled, registry, k) => j = k
  <2> SUFFICES ASSUME j # k, Slot(settled, registry, j) = Slot(settled, registry, k)
               PROVE FALSE
    OBVIOUS
  <2>1. \A i \in all : Slot(settled, registry, i) \in Int
    BY <1>4, <1>8, FS_CardinalityType
  <2>2. Precedes(registry[j], registry[k]) \/ Precedes(registry[k], registry[j])
    BY <1>5, <1>9
  <2>3. \/ Slot(settled, registry, j) < Slot(settled, registry, k)
        \/ Slot(settled, registry, k) < Slot(settled, registry, j)
    BY <1>7, <1>9, <2>2
  <2> QED BY <1>9, <2>1, <2>3
<1> QED BY <1>8, <1>9, <1>10 DEF settled, all

\* A row within the capacity has no fewer cells than committed facts.
LEMMA CellsCountFacts ==
    ASSUME NEW fs, NEW registry, IsFiniteSet(Committed(fs))
    PROVE  Cardinality(Committed(fs)) <= Cardinality(BuildAttributes(fs, registry))
<1> DEFINE all == Committed(fs)
           cells == {CellOf(fs, registry, k) : k \in all}
<1>1. [k \in all |-> CellOf(fs, registry, k)] \in Surjection(all, cells)
  BY DEF Surjection
<1>2. IsFiniteSet(cells)
  BY <1>1, FS_Surjection
<1>3. \A k \in all : CellOf(fs, registry, k).key = k
  BY DEF CellOf
<1>4. [c \in cells |-> c.key] \in Surjection(cells, all)
  BY <1>3 DEF Surjection
<1>5. Cardinality(all) <= Cardinality(cells)
  BY <1>2, <1>4, FS_Surjection
<1> QED BY <1>5, CellsAreOfKeepers

\* The row is what was made of the outcomes, under the identity of one gate,
\* and nothing that it was made of changes afterwards.
RowInv ==
    /\ caller \in Callers
    /\ row # Unwritten =>
          /\ claims # None /\ Pending = {}
          /\ \E gate : facts = Adjudicate(outcomes, caller.registry, gate)
          /\ row = WriteAttributes(BuildAttributes(facts, caller.registry))

LEMMA RowInvHolds == Spec => []RowInv
<1>1. Init => RowInv
  BY DEF Init, RowInv
<1>2. ASSUME RowInv, [Next]_vars PROVE RowInv'
  <2> USE <1>2
  <2>1. CASE Assemble
    <3>1. /\ claims # None /\ Pending = {}
          /\ UNCHANGED <<claims, outcomes, caller>>
          /\ facts' = Adjudicate(outcomes, caller.registry, Gate)
          /\ row' = WriteAttributes(BuildAttributes(facts', caller.registry))
      BY <2>1 DEF Assemble
    <3>2. Pending' = {}
      BY <3>1 DEF Pending
    <3> QED BY <3>1, <3>2 DEF RowInv
  <2>2. CASE Extract
    BY <2>2 DEF Extract, RowInv
  <2>3. CASE Verify
    BY <2>3 DEF Verify, RowInv
  <2>4. CASE UNCHANGED <<claims, outcomes, caller, facts, row>>
    <3>1. Pending' = Pending
      BY <2>4 DEF Pending
    <3> QED BY <2>4, <3>1 DEF RowInv
  <2> QED BY <2>1, <2>2, <2>3, <2>4 DEF Next, Gather, Resolve, Reingest, Load, vars
<1> QED BY <1>1, <1>2, PTL DEF Spec

\* What could have a cell alone is what adjudication finds eligible alone.
LEMMA EligibleAlone ==
    ASSUME OutcomesInv, RowInv, NEW gate, facts = Adjudicate(outcomes, caller.registry, gate)
    PROVE  LET alone == Alone(outcomes, caller.registry, gate)
           IN  /\ Given(outcomes, caller.registry)
               /\ Eligible = Committed(alone)
               /\ \A k \in Eligible :
                     InCell(k) = <<alone[k].value, alone[k].outcome.conditions>>
<1> DEFINE registry == caller.registry
           alone == Alone(outcomes, registry, gate)
<1>1. Given(outcomes, registry)
  <2>1. DOMAIN outcomes \subseteq Keys /\ \A k \in DOMAIN outcomes : outcomes[k].key = k
    BY DEF OutcomesInv
  <2>2. IsFiniteSet(DOMAIN outcomes) /\ DOMAIN outcomes \subseteq Nat
    BY <2>1, PipelineAssumption, FS_Subset
  <2>3. \A k \in DOMAIN registry : registry[k].priority \in Int /\ registry[k].label \in Nat
    BY PipelineAssumption DEF RowInv
  <2> QED BY <2>1, <2>2, <2>3 DEF Given
<1>2. DOMAIN facts = DOMAIN outcomes /\ DOMAIN alone = DOMAIN outcomes
  BY DEF Adjudicate, ResolveConflicts, Alone
<1>3. ASSUME NEW k \in DOMAIN outcomes
      PROVE  /\ k \in Eligible <=> k \in Committed(alone)
             /\ k \in Committed(alone) =>
                   InCell(k) = <<alone[k].value, alone[k].outcome.conditions>>
  <2>1. outcomes[k].key = k
    BY <1>1 DEF Given
  <2>2. /\ alone[k].reason = "IDENTITY_NOT_EXACT" <=> ~SameProduct(outcomes[k], gate)
        /\ k \in Committed(alone) <=>
              /\ SameProduct(outcomes[k], gate)
              /\ outcomes[k].status = "EXACT_SPAN"
              /\ k \in DOMAIN registry
              /\ KindFits(registry[k], outcomes[k].value)
              /\ Representable(registry[k], outcomes[k].conditions)
              /\ ValueForTarget(registry[k], outcomes[k].value) # NoValue
        /\ k \in Committed(alone) =>
              alone[k] = Decided(outcomes[k], "COMMIT", "ELIGIBLE",
                                 ValueForTarget(registry[k], outcomes[k].value))
    BY <2>1, AloneCommitted
  <2>3. facts[k].reason # "IDENTITY_NOT_EXACT" <=> SameProduct(outcomes[k], gate)
    <3>1. /\ k \notin Committed(alone) => facts[k] = alone[k]
          /\ k \in Committed(alone) => facts[k].reason # "IDENTITY_NOT_EXACT"
      BY <1>1, Refused
    <3> HIDE DEF alone, registry
    <3> QED BY <2>2, <3>1
  <2>4. k \in Eligible <=>
           /\ k \in DOMAIN registry
           /\ facts[k].reason # "IDENTITY_NOT_EXACT"
           /\ outcomes[k].status = "EXACT_SPAN"
           /\ KindFits(registry[k], outcomes[k].value)
           /\ Representable(registry[k], outcomes[k].conditions)
           /\ ValueForTarget(registry[k], outcomes[k].value) # NoValue
    BY <1>2 DEF Eligible
  <2>5. InCell(k) = <<ValueForTarget(registry[k], outcomes[k].value), outcomes[k].conditions>>
    BY DEF InCell
  <2> HIDE DEF alone, registry
  <2> QED BY <2>2, <2>3, <2>4, <2>5 DEF Decided
<1>4. Eligible \subseteq DOMAIN outcomes /\ Committed(alone) \subseteq DOMAIN outcomes
  BY <1>2 DEF Eligible, Committed
<1> QED BY <1>1, <1>3, <1>4

\* Whatever the mapping rules, the outcomes and the capacity, a row that is
\* written has one cell, backed by all of them, for the facts that agree on
\* what a label says, none for those that dispute it, and a slot for each.
THEOREM RowsAreFaithful == Spec => []RowIsFaithful
<1>1. ASSUME OutcomesInv, RowInv PROVE RowIsFaithful
  <2> SUFFICES ASSUME row.status = "written"
               PROVE  ContestsAreSettled /\ NoFactIsLost
    BY DEF RowIsFaithful, ContestsAreSettled, NoFactIsLost
  <2> DEFINE registry == caller.registry
             cells == BuildAttributes(facts, registry)
  <2>1. PICK gate : facts = Adjudicate(outcomes, registry, gate)
    BY <1>1 DEF RowInv, Unwritten
  <2>2. row.cells = cells /\ ~(Cardinality(cells) > Capacity)
    BY <1>1 DEF RowInv, Unwritten, WriteAttributes
  <2> DEFINE alone == Alone(outcomes, registry, gate)
             Rivals(label) == Wanting(alone, registry, label)
             Best(label) == Keeper(Rivals(label), registry)
  <2>3. Given(outcomes, registry)
    BY <1>1, <2>1, EligibleAlone
  <2>4. Eligible = Committed(alone)
    BY <1>1, <2>1, EligibleAlone
  <2>5. \A k \in Eligible : InCell(k) = <<alone[k].value, alone[k].outcome.conditions>>
    BY <1>1, <2>1, EligibleAlone
  <2>6. ASSUME NEW label
        PROVE  /\ Rivals(label) = {k \in Eligible : registry[k].label = label}
               /\ Agree(alone, Rivals(label)) <=>
                     \A j, k \in Rivals(label) : InCell(j) = InCell(k)
               /\ Rivals(label) # {} /\ Agree(alone, Rivals(label)) =>
                     /\ Best(label) \in Committed(facts)
                     /\ {c \in cells : c.label = label} = {CellOf(facts, registry, Best(label))}
                     /\ CellOf(facts, registry, Best(label)).supporting = Rivals(label)
               /\ ~Agree(alone, Rivals(label)) => {c \in cells : c.label = label} = {}
    <3>1. Rivals(label) = {k \in Eligible : registry[k].label = label}
      BY <2>4 DEF Wanting
    <3>2. \A k \in Rivals(label) : InCell(k) = <<alone[k].value, alone[k].outcome.conditions>>
      BY <2>5, <3>1
    <3>3. Agree(alone, Rivals(label)) <=>
             \A j, k \in Rivals(label) : InCell(j) = InCell(k)
      <4> HIDE DEF alone, Rivals
      <4> QED BY <3>2 DEF Agree
    <3>4. /\ Rivals(label) # {} /\ Agree(alone, Rivals(label)) =>
                /\ Best(label) \in Committed(Adjudicate(outcomes, registry, gate))
                /\ {c \in BuildAttributes(Adjudicate(outcomes, registry, gate), registry) :
                      c.label = label}
                     = {CellOf(Adjudicate(outcomes, registry, gate), registry, Best(label))}
                /\ CellOf(Adjudicate(outcomes, registry, gate), registry, Best(label)).supporting
                     = Rivals(label)
          /\ ~Agree(alone, Rivals(label)) =>
                {c \in BuildAttributes(Adjudicate(outcomes, registry, gate), registry) :
                    c.label = label} = {}
      BY <2>3, CellsOfALabel
    <3> QED BY <2>1, <3>1, <3>3, <3>4
  <2>7. ContestsAreSettled
    <3> SUFFICES ASSUME NEW label \in {registry[k].label : k \in Eligible}
                 PROVE  LET rivals == {k \in Eligible : registry[k].label = label}
                            agreed == \A j, k \in rivals : InCell(j) = InCell(k)
                            cs == {c \in row.cells : c.label = label}
                        IN  /\ agreed <=> cs # {}
                            /\ \A c \in cs : c.supporting = rivals /\ Cardinality(cs) = 1
      BY DEF ContestsAreSettled
    <3> DEFINE cs == {c \in cells : c.label = label}
               cell == CellOf(facts, registry, Best(label))
    <3>1. Rivals(label) = {k \in Eligible : registry[k].label = label} /\ Rivals(label) # {}
      BY <2>6
    <3>2. /\ Agree(alone, Rivals(label)) =>
                cs = {cell} /\ cell.supporting = Rivals(label)
          /\ ~Agree(alone, Rivals(label)) => cs = {}
          /\ Agree(alone, Rivals(label)) <=> \A j, k \in Rivals(label) : InCell(j) = InCell(k)
      BY <2>6, <3>1
    <3>3. Cardinality({cell}) = 1
      BY FS_Singleton
    <3>4. cs = {c \in row.cells : c.label = label}
      BY <2>2
    <3> HIDE DEF cs, cell, cells, alone, Rivals
    <3> QED BY <3>1, <3>2, <3>3, <3>4
  <2>8. NoFactIsLost
    <3> SUFFICES ASSUME NEW k \in Eligible, facts[k].decision # "REVIEW"
                 PROVE  \E c \in row.cells : /\ k \in c.supporting
                                             /\ c.slot \in 1..Capacity
                                             /\ \A d \in row.cells : d.slot = c.slot => d = c
      BY DEF NoFactIsLost
    <3> DEFINE label == registry[k].label
               best == Best(label)
               cell == CellOf(facts, registry, best)
               all == Committed(facts)
    <3>1. k \in Rivals(label)
      BY <2>6
    <3>2. k \in DOMAIN outcomes /\ k \in Committed(alone)
      BY <2>4 DEF Committed, Alone
    <3>3. Agree(alone, Rivals(label))
      BY <2>1, <2>3, <3>2, Refused
    <3>4. best \in all /\ cell \in cells /\ k \in cell.supporting
      BY <2>6, <3>1, <3>3
    <3>5. \A j \in all : /\ Slot(facts, registry, j) \in 1 .. Cardinality(all)
                         /\ Slot(facts, registry, j) = Slot(facts, registry, best) => j = best
      BY <2>1, <2>3, <3>4, SlotsAreDistinct
    <3>6. IsFiniteSet(all) /\ IsFiniteSet(cells)
      <4>1. all \subseteq DOMAIN outcomes
        BY <2>1 DEF Committed, Adjudicate, ResolveConflicts
      <4>2. IsFiniteSet(all)
        BY <2>3, <4>1, FS_Subset DEF Given
      <4>3. [j \in all |-> CellOf(facts, registry, j)] \in Surjection(all, cells)
        BY CellsAreOfKeepers DEF Surjection
      <4> QED BY <4>2, <4>3, FS_Surjection
    <3>7. Cardinality(all) <= Capacity
      <4>1. Cardinality(all) <= Cardinality(cells)
        BY <3>6, CellsCountFacts
      <4>2. Cardinality(all) \in Nat /\ Cardinality(cells) \in Nat /\ Capacity \in Nat
        BY <3>6, FS_CardinalityType, PipelineAssumption
      <4> HIDE DEF all, cells
      <4> QED BY <2>2, <4>1, <4>2
    <3>8. cell.slot \in 1 .. Capacity
      <4>1. cell.slot = Slot(facts, registry, best)
        BY DEF CellOf
      <4>2. Cardinality(all) \in Nat
        BY <3>6, FS_CardinalityType
      <4> HIDE DEF all, cell, best
      <4> QED BY <3>4, <3>5, <3>7, <4>1, <4>2, PipelineAssumption
    <3>9. ASSUME NEW d \in cells, d.slot = cell.slot PROVE d = cell
      <4>1. PICK j \in all : d = CellOf(facts, registry, j)
        BY CellsAreOfKeepers
      <4>2. d.slot = Slot(facts, registry, j) /\ cell.slot = Slot(facts, registry, best)
        BY <4>1 DEF CellOf
      <4>3. j = best
        BY <3>5, <3>9, <4>2
      <4> QED BY <4>1, <4>3
    <3> HIDE DEF cell, cells
    <3> QED BY <2>2, <3>4, <3>8, <3>9
  <2> QED BY <2>7, <2>8
<1> QED BY <1>1, OutcomesInvHolds, RowInvHolds, PTL
-------------------------------------------------------------------------------
(* Every variable holds what the code can put in it. *)

\* An answer that is not EXACT names no reference, and an EXACT one does.
LEMMA ExactNamesOne ==
    ASSUME NEW e, e \subseteq Facts, NEW mpn \in References
    PROVE  LET answer == ResolveIdentity(e, Brand, mpn, Selection)
           IN  answer.exact \in Names <=> answer.disposition = "EXACT"
<1> DEFINE answer == ResolveIdentity(e, Brand, mpn, Selection)
           complete == Complete(e, Brand, mpn, Selection)
           candidates == Candidates(e, Brand, mpn, Selection)
           required == Required(e, Brand, mpn)
           constructs == required \subseteq DOMAIN Selection /\ Cardinality(required) = 1
           confirmed == {c \in candidates : Exacts(e, Brand, c) # {}}
<1>1. IsFiniteSet(e)
  BY PipelineAssumption, FS_Subset
<1>2. candidates \subseteq Names /\ mpn \in Names
  BY DEF Names, Candidates, Mappings
<1>3. ASSUME answer.disposition = "EXACT" PROVE answer.exact \in Names
  BY <1>1, <1>2, <1>3, ExactAnswers
<1>4. complete.disposition = "EXACT" \/ complete.exact = None
  <2>1. Cardinality(candidates) \in Nat /\ (Cardinality(candidates) = 0 <=> candidates = {})
    BY <1>1, CandidatesAreFinite
  <2>2. CASE constructs /\ Cardinality(candidates) > 1
    BY <2>2 DEF Complete, Answer
  <2>3. CASE constructs /\ Cardinality(candidates) = 1
    <3>1. candidates # {} /\ ~(Cardinality(candidates) > 1)
      BY <2>1, <2>3
    <3>2. CASE confirmed # {}
      BY <2>3, <3>1, <3>2 DEF Complete, Answer
    <3>3. CASE confirmed = {}
      BY <2>3, <3>1, <3>3 DEF Complete, Answer
    <3> QED BY <3>2, <3>3
  <2>4. CASE ~constructs \/ candidates = {}
    <3>1. ~(constructs /\ Cardinality(candidates) > 1) /\ ~(constructs /\ Cardinality(candidates) = 1)
      BY <2>1, <2>4
    <3>2. complete = Answer("FAMILY_OR_INCOMPLETE_REFERENCE", None, {})
      BY <2>4, <3>1 DEF Complete
    <3> QED BY <3>2 DEF Answer
  <2> QED BY <2>1, <2>2, <2>3, <2>4
<1>5. ASSUME answer.disposition # "EXACT" PROVE answer.exact \notin Names
  <2>1. answer.exact = None
    BY <1>4, <1>5 DEF ResolveIdentity, Answer
  <2> QED BY <2>1, PipelineAssumption
<1> QED BY <1>3, <1>5

\* A line that does not support a claim has a reason.
LEMMA ReasonsAreNamed ==
    ASSUME NEW claim, NEW line
    PROVE  "" \notin LineFailures(claim, line)
<1>1. "" \notin ValueFailures(claim.value, line)
  <2> DEFINE value == claim.value
             states == \E q \in line.states : Supports(q, Point(value))
             bounds == \E q \in line.states : Supports([q EXCEPT !.relation = "EQ"], Point(value))
             measures == \E q \in line.states : /\ {q.unit, value.unit} \subseteq Known
                                                /\ Convertible(q.unit, value.unit)
             silent == line.states # {} /\ value.unit # NoUnit /\ ~measures
  <2>1. CASE value.kind = "numeric" /\ states
    BY <2>1 DEF ValueFailures
  <2>2. CASE value.kind = "numeric" /\ ~states /\ bounds
    BY <2>2 DEF ValueFailures
  <2>3. CASE value.kind = "numeric" /\ ~states /\ ~bounds
    BY <2>3 DEF ValueFailures
  <2>4. CASE value.kind # "numeric"
    BY <2>4 DEF ValueFailures
  <2> QED BY <2>1, <2>2, <2>3, <2>4
<1>2. "" \notin ConditionFailures(claim.conditions, line)
  BY DEF ConditionFailures
<1> QED BY <1>1, <1>2 DEF LineFailures

\* A verdict supports a claim, or says why it does not.
Reasoned(verdict) == verdict.status = "EXACT_SPAN" <=> verdict.failure = ""

LEMMA TextVerdicts ==
    ASSUME NEW claim, NEW page, DOMAIN page \subseteq Nat
    PROVE  Reasoned(VerifyText(claim, page))
<1> DEFINE located == Located(page, claim.fragment)
           agree == {n \in located : LineFailures(claim, page[n]) = {}}
<1>1. CASE located = {}
  BY <1>1 DEF VerifyText, Failed, Reasoned
<1>2. CASE agree # {} /\ agree # located
  BY <1>2 DEF VerifyText, Failed, Reasoned
<1>3. CASE agree # {} /\ agree = located
  BY <1>3 DEF VerifyText, Failed, Reasoned
<1>4. CASE agree = {} /\ located # {}
  <2> DEFINE reasons == LineFailures(claim, page[First(located)])
             why == CHOOSE f \in reasons : TRUE
  <2>1. First(located) \in located
    <3>1. PICK n \in located : \A m \in located : n <= m
      <4>1. located \subseteq Nat
        BY DEF Located
      <4> QED BY <1>4, <4>1, LeastNatural
    <3> QED BY <3>1 DEF First
  <2>2. reasons # {}
    BY <1>4, <2>1
  <2>3. why # ""
    BY <2>2, ReasonsAreNamed
  <2>4. VerifyText(claim, page) = [status |-> "UNVERIFIED", failure |-> why,
                                   mode |-> "TEXT_UNIT", at |-> First(located)]
    BY <1>4 DEF VerifyText
  <2>5. VerifyText(claim, page).status = "UNVERIFIED" /\ VerifyText(claim, page).failure = why
    BY <2>4
  <2> HIDE DEF why
  <2> QED BY <2>3, <2>5 DEF Reasoned
<1> QED BY <1>1, <1>2, <1>3, <1>4

LEMMA Verdicts ==
    ASSUME NEW claim, NEW gate, NEW reading \in Parses \cup {None}
    PROVE  Reasoned(VerifyClaim(claim, gate, reading))
<1>1. ASSUME NEW artifact \in Parses, NEW tabled
      PROVE  Reasoned(VerifyInArtifact(claim, artifact, tabled))
  <2> DEFINE binding == ScopeBinding(artifact, claim.mpn)
             paged == claim.page \in DOMAIN artifact.pages
             rows == IF tabled /\ paged THEN RowsFor(claim, artifact.tables[claim.page]) ELSE {}
  <2>1. binding \in {"EXACT", "CONTRADICTED", "NOT_ESTABLISHED"}
    BY DEF ScopeBinding
  <2>2. CASE binding = "CONTRADICTED"
    BY <2>2 DEF VerifyInArtifact, Failed, Reasoned
  <2>3. CASE binding # "CONTRADICTED" /\ ~paged
    BY <2>3 DEF VerifyInArtifact, Failed, Reasoned
  <2>4. CASE binding # "CONTRADICTED" /\ paged /\ rows # {}
    BY <2>4 DEF VerifyInArtifact, Failed, Reasoned
  <2>5. CASE binding = "NOT_ESTABLISHED" /\ paged /\ rows = {}
    BY <2>5 DEF VerifyInArtifact, Failed, Reasoned
  <2>6. CASE binding = "EXACT" /\ paged /\ rows = {}
    <3>1. VerifyInArtifact(claim, artifact, tabled)
            = VerifyText(claim, artifact.pages[claim.page])
      BY <2>6 DEF VerifyInArtifact
    <3>2. DOMAIN artifact.pages[claim.page] \subseteq Nat
      BY <2>6, PipelineAssumption
    <3> QED BY <3>1, <3>2, TextVerdicts
  <2> QED BY <2>1, <2>2, <2>3, <2>4, <2>5, <2>6
<1>2. CASE SameProduct(claim, gate) /\ reading # None
  BY <1>1, <1>2 DEF VerifyClaim, SameProduct
<1>3. CASE SameProduct(claim, gate) /\ reading = None
  BY <1>3 DEF VerifyClaim, SameProduct, Failed, Reasoned
<1>4. CASE ~SameProduct(claim, gate)
  BY <1>4 DEF VerifyClaim, SameProduct, Failed, Reasoned
<1> QED BY <1>2, <1>3, <1>4

\* An adjudicated fact keeps the outcome it was made of.
LEMMA FactsKeepOutcomes ==
    ASSUME NEW results, NEW registry, NEW gate, IsFiniteSet(DOMAIN results)
    PROVE  /\ DOMAIN Adjudicate(results, registry, gate) = DOMAIN results
           /\ \A k \in DOMAIN results :
                 Adjudicate(results, registry, gate)[k].outcome = results[k]
<1> DEFINE alone == Alone(results, registry, gate)
           settled == Adjudicate(results, registry, gate)
<1>1. settled = ResolveConflicts(alone, registry) /\ DOMAIN alone = DOMAIN results
  BY DEF Adjudicate, Alone
<1>2. DOMAIN settled = DOMAIN results
  BY <1>1 DEF ResolveConflicts
<1>3. ASSUME NEW k \in DOMAIN results PROVE alone[k].outcome = results[k]
  BY DEF Alone, AdjudicateOne, Refusal, Decided
<1>4. ASSUME NEW k \in DOMAIN results, k \in Committed(alone)
      PROVE  alone[k] = Decided(results[k], "COMMIT", "ELIGIBLE",
                                ValueForTarget(registry[results[k].key], results[k].value))
  BY <1>4, AloneCommitted
<1>5. ASSUME NEW k \in DOMAIN results PROVE settled[k].outcome = results[k]
  <2> DEFINE group == Wanting(alone, registry, registry[k].label)
  <2>1. CASE k \notin Committed(alone)
    BY <1>1, <1>3, <2>1 DEF ResolveConflicts
  <2>2. CASE k \in Committed(alone)
    <3>1. \/ \E d, r : settled[k] = Refusal(alone[k].outcome, d, r)
          \/ settled[k] = [alone[k] EXCEPT !.merged = group \ {k}]
      BY <1>1, <2>2 DEF ResolveConflicts
    <3>2. alone[k] = Decided(results[k], "COMMIT", "ELIGIBLE",
                             ValueForTarget(registry[results[k].key], results[k].value))
      BY <1>4, <2>2
    <3>3. alone[k].outcome = results[k]
      BY <1>3
    <3>4. ASSUME NEW a, NEW o, NEW v, NEW g, a = Decided(o, "COMMIT", "ELIGIBLE", v)
          PROVE  [a EXCEPT !.merged = g].outcome = o
      BY <3>4 DEF Decided
    <3>5. ASSUME NEW o, NEW d, NEW r PROVE Refusal(o, d, r).outcome = o
      BY DEF Refusal, Decided
    <3> HIDE DEF alone, settled, group
    <3>6. CASE \E d, r : settled[k] = Refusal(alone[k].outcome, d, r)
      <4>1. PICK d, r : settled[k] = Refusal(alone[k].outcome, d, r)
        BY <3>6
      <4> QED BY <3>3, <3>5, <4>1
    <3>7. CASE settled[k] = [alone[k] EXCEPT !.merged = group \ {k}]
      <4>1. PICK a, g : a = alone[k] /\ g = group \ {k}
        OBVIOUS
      <4>2. PICK v : a = Decided(results[k], "COMMIT", "ELIGIBLE", v)
        BY <3>2, <4>1
      <4>3. [a EXCEPT !.merged = g].outcome = results[k]
        BY <3>4, <4>2
      <4>4. settled[k] = [a EXCEPT !.merged = g]
        BY <3>7, <4>1, Zenon
      <4> QED BY <4>3, <4>4, Zenon
    <3> QED BY <3>1, <3>6, <3>7
  <2> QED BY <2>1, <2>2
<1> QED BY <1>2, <1>5

\* What the type invariant says of the outcomes and of the facts, apart from
\* the rest of the state, with what the two earlier invariants say of it.
OutcomesTyped ==
    \A k \in DOMAIN outcomes :
        /\ claims # None /\ k \in DOMAIN claims
        /\ ClaimOf(outcomes[k]) = claims[k]
        /\ outcomes[k].status = "EXACT_SPAN" <=> outcomes[k].failure = ""

ClaimsTyped ==
    claims # None => /\ DOMAIN claims \subseteq Keys
                     /\ \A k \in DOMAIN claims : claims[k] \in Claims /\ claims[k].key = k

FactsTyped ==
    /\ \A k \in DOMAIN facts : k \in DOMAIN outcomes /\ facts[k].outcome = outcomes[k]
    /\ row.status \in {"unwritten", "written", "refused"}
    /\ row = Unwritten => facts = << >>

IdentityTyped ==
    \/ identity = NoIdentity
    \/ /\ identity.asked \in References
       /\ identity.answer.disposition \in Dispositions
       /\ identity.answer.candidates \subseteq Names
       /\ identity.answer.exact \in Names <=> identity.answer.disposition = "EXACT"

WorldTyped ==
    /\ stored \in Parses \cup {None}
    /\ caller \in Callers
    /\ held \in Parses \cup {None}

\* The identity is one that was resolved, and a resolution is an answer.
LEMMA IdentitiesAreTyped == PipelineInv => IdentityTyped
<1> SUFFICES ASSUME PipelineInv, identity # NoIdentity
             PROVE  /\ identity.asked \in References
                    /\ identity.answer.disposition \in Dispositions
                    /\ identity.answer.candidates \subseteq Names
                    /\ identity.answer.exact \in Names <=> identity.answer.disposition = "EXACT"
  BY DEF IdentityTyped
<1>1. PICK e \in SUBSET evidence :
         identity.answer = ResolveIdentity(e, Brand, identity.asked, Selection)
  BY DEF PipelineInv, ResolvedFromEvidence
<1>2. e \subseteq Facts /\ identity.asked \in References
  BY DEF PipelineInv, ResolvedFromEvidence
<1>3. identity.answer \in Answers
  BY <1>1, <1>2, ResolutionsAreAnswers
<1>4. identity.answer.exact \in Names <=> identity.answer.disposition = "EXACT"
  BY <1>1, <1>2, ExactNamesOne
<1> QED BY <1>2, <1>3, <1>4 DEF Answers

\* Every variable of the pipeline keeps its type: claims are proposals about
\* a product somebody asked for, outcomes belong to claims of this run and
\* facts to its outcomes, and a verdict that supports nothing says why.
THEOREM PipelineIsTyped == Spec => []TypeOK
<1> DEFINE Typed == WorldTyped /\ ClaimsTyped /\ OutcomesTyped /\ FactsTyped
<1>1. Init => Typed
  BY DEF Init, WorldTyped, ClaimsTyped, OutcomesTyped, FactsTyped, Unwritten
<1>2. ASSUME Typed, PipelineInv, OutcomesInv, [Next]_vars
      PROVE  Typed'
  <2> USE <1>2
  <2>1. CASE Gather \/ Resolve \/ UNCHANGED vars
    BY <2>1 DEF Gather, Resolve, vars, WorldTyped, ClaimsTyped, OutcomesTyped, ClaimOf, FactsTyped
  <2>2. CASE Reingest \/ Load
    BY <2>2 DEF Reingest, Load, WorldTyped, ClaimsTyped, OutcomesTyped, ClaimOf, FactsTyped
  <2>3. CASE Extract
    <3>1. PICK p \in {q \in [Keys -> UNION {Proposals[k] : k \in Keys}] :
                         \A k \in Keys : q[k] \in Proposals[k]} :
             claims' = [k \in {j \in Keys : p[j] # None /\ p[j].page <= PageCount} |->
                           ClaimFor(identity.answer.exact, k, p[k])]
      BY <2>3 DEF Extract
    <3>2. identity.answer.exact \in Names
      BY <2>3, IdentitiesAreTyped DEF Extract, IdentityTyped
    <3>3. ASSUME NEW k \in DOMAIN claims'
          PROVE  claims'[k] \in Claims /\ claims'[k].key = k /\ k \in Keys
      <4>1. k \in Keys /\ p[k] # None /\ claims'[k] = ClaimFor(identity.answer.exact, k, p[k])
        BY <3>1
      <4>2. p[k] \in UNION {Proposals[j] \ {None} : j \in Keys}
        BY <4>1
      <4>3. claims'[k] \in Claims
        BY <3>2, <4>1, <4>2 DEF Claims
      <4> QED BY <4>1, <4>3 DEF ClaimFor
    <3>4. ClaimsTyped'
      BY <3>3 DEF ClaimsTyped
    <3>5. OutcomesTyped'
      BY <2>3 DEF Extract, OutcomesInv, OutcomesTyped
    <3> QED BY <2>3, <3>4, <3>5 DEF Extract, WorldTyped, FactsTyped
  <2>4. CASE Verify
    <3>1. PICK n \in Pending :
             outcomes' = [k \in DOMAIN outcomes \cup {Schema[n]} |->
                            IF k = Schema[n] THEN OutcomeOf(claims[k], Gate, Reading)
                            ELSE outcomes[k]]
      BY <2>4 DEF Verify
    <3>2. claims # None /\ UNCHANGED <<stored, caller, held, claims, facts, row>>
      BY <2>4 DEF Verify
    <3> DEFINE next == Schema[n]
    <3>3. next \in DOMAIN claims /\ next \notin DOMAIN outcomes
      BY <3>1 DEF Pending
    <3>4. DOMAIN outcomes' = DOMAIN outcomes \cup {next}
          /\ outcomes'[next] = OutcomeOf(claims[next], Gate, Reading)
          /\ \A k \in DOMAIN outcomes : outcomes'[k] = outcomes[k]
      BY <3>1, <3>3
    <3>5. claims[next] \in Claims
      BY <3>2, <3>3 DEF ClaimsTyped
    <3>6. PICK claim, gate, reading : /\ claim = claims[next] /\ gate = Gate
                                       /\ reading = Reading
      OBVIOUS
    <3>7. /\ ClaimOf(outcomes'[next]) = claims[next]
          /\ outcomes'[next].status = "EXACT_SPAN" <=> outcomes'[next].failure = ""
      <4> DEFINE outcome == OutcomeOf(claim, gate, reading)
      <4>1. PICK mpn, k, p : claim = ClaimFor(mpn, k, p)
        BY <3>5, <3>6 DEF Claims
      <4>2. ClaimOf(outcome) = claim
        BY <4>1 DEF ClaimOf, OutcomeOf, ClaimFor
      <4>3. reading \in Parses \cup {None}
        BY <3>6 DEF Reading, WorldTyped
      <4>4. Reasoned(VerifyClaim(claim, gate, reading))
        BY <4>3, Verdicts
      <4>5. outcome.status = "EXACT_SPAN" <=> outcome.failure = ""
        BY <4>4 DEF OutcomeOf, Reasoned
      <4>6. outcomes'[next] = outcome
        BY <3>4, <3>6
      <4> HIDE DEF outcome, next
      <4> QED BY <3>6, <4>2, <4>5, <4>6
    <3>8. OutcomesTyped'
      <4> SUFFICES ASSUME NEW k \in DOMAIN outcomes'
                   PROVE  /\ claims # None /\ k \in DOMAIN claims
                          /\ ClaimOf(outcomes'[k]) = claims[k]
                          /\ outcomes'[k].status = "EXACT_SPAN" <=> outcomes'[k].failure = ""
        BY <3>2 DEF OutcomesTyped, ClaimOf
      <4>1. CASE k = next
        BY <3>2, <3>3, <3>7, <4>1
      <4>2. CASE k \in DOMAIN outcomes
        BY <3>4, <4>2 DEF OutcomesTyped
      <4> QED BY <3>4, <4>1, <4>2
    <3>9. FactsTyped'
      BY <3>2, <3>4 DEF FactsTyped
    <3> QED BY <3>2, <3>8, <3>9 DEF WorldTyped, ClaimsTyped
  <2>5. CASE Assemble
    <3>1. /\ UNCHANGED <<stored, caller, held, claims, outcomes>>
          /\ facts' = Adjudicate(outcomes, caller.registry, Gate)
          /\ row' = WriteAttributes(BuildAttributes(facts', caller.registry))
      BY <2>5 DEF Assemble
    <3>2. IsFiniteSet(DOMAIN outcomes)
      BY PipelineAssumption, FS_Subset DEF OutcomesInv
    <3>3. \A k \in DOMAIN facts' : k \in DOMAIN outcomes /\ facts'[k].outcome = outcomes[k]
      BY <3>1, <3>2, FactsKeepOutcomes
    <3>4. row'.status \in {"written", "refused"} /\ row' # Unwritten
      BY <3>1 DEF WriteAttributes, Unwritten
    <3>5. FactsTyped'
      BY <3>1, <3>3, <3>4 DEF FactsTyped
    <3> QED BY <3>1, <3>5 DEF WorldTyped, ClaimsTyped, OutcomesTyped, ClaimOf
  <2> QED BY <2>1, <2>2, <2>3, <2>4, <2>5 DEF Next
<1>3. PipelineInv /\ Typed => TypeOK
  BY IdentitiesAreTyped
     DEF PipelineInv, IdentityTyped, WorldTyped, ClaimsTyped, OutcomesTyped, FactsTyped, TypeOK
<1> QED BY <1>1, <1>2, <1>3, PipelineInvHolds, OutcomesInvHolds, PTL DEF Spec
==============================================================================
