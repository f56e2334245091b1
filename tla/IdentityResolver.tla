--------------------------- MODULE IdentityResolver ---------------------------
(* Which exact product a reference names: backend/skutruth/identity.  The     *)
(* resolver is a pure function of the reviewed evidence, the product asked    *)
(* for and the variants the caller selected.                                  *)
(*                                                                            *)
(* Brands and references are taken in their canonical form (contracts/mpn.py, *)
(* evidence.py: case and white space folded), the order of the facts decides  *)
(* nothing but the wording of the trace, and a mapping fact holds the         *)
(* reference its template spells.  The evidence is a set of facts             *)
(*   [type |-> "completion", brand, base, key]                                *)
(*   [type |-> "mapping", brand, base, key, choice, makes]                    *)
(*   [type |-> "exact", brand, mpn]                                           *)
(*   [type |-> "axis", brand, base, key, blocks]                              *)
EXTENDS FiniteSets, Integers

CONSTANT None

Dispositions == {"EXACT", "FAMILY_OR_INCOMPLETE_REFERENCE", "CONTRADICTORY", "UNKNOWN"}

Exacts(evidence, brand, mpn) ==
    {f \in evidence : f.type = "exact" /\ f.brand = brand /\ f.mpn = mpn}

Completions(evidence, brand, mpn) ==
    {f \in evidence : f.type = "completion" /\ f.brand = brand /\ f.base = mpn}

\* Axes that the evidence says must be bound too; the others only inform.
Blocking(evidence, brand, mpn) ==
    {f \in evidence : f.type = "axis" /\ f.brand = brand /\ f.base = mpn /\ f.blocks}

Mappings(evidence, brand, mpn, key, choice) ==
    {f \in evidence : /\ f.type = "mapping" /\ f.brand = brand /\ f.base = mpn
                      /\ f.key = key /\ f.choice = choice}

\* The discriminators that complete the reference.
Required(evidence, brand, mpn) ==
    {f.key : f \in Completions(evidence, brand, mpn) \cup Blocking(evidence, brand, mpn)}

\* What the mapping rules make of the caller's selection, a function from
\* the discriminators bound to the choices.
Candidates(evidence, brand, mpn, selection) ==
    UNION {{f.makes : f \in Mappings(evidence, brand, mpn, k, selection[k])} :
              k \in Required(evidence, brand, mpn) \cap DOMAIN selection}

Answer(disposition, exact, candidates) ==
    [disposition |-> disposition, exact |-> exact, candidates |-> candidates]

\* Mutant: of rival candidates, the one that is confirmed is taken.
CompleteFirstConfirmed(evidence, brand, mpn, selection) ==
    LET required == Required(evidence, brand, mpn)
        candidates == Candidates(evidence, brand, mpn, selection)
        confirmed == {c \in candidates : Exacts(evidence, brand, c) # {}}
    IN  IF required \subseteq DOMAIN selection /\ Cardinality(required) = 1 /\ confirmed # {}
        THEN Answer("EXACT", CHOOSE c \in confirmed : TRUE, candidates)
        ELSE Answer("FAMILY_OR_INCOMPLETE_REFERENCE", None, candidates)

\* Mutant: the sole candidate is taken without a fact of its own.
CompleteUnconfirmed(evidence, brand, mpn, selection) ==
    LET required == Required(evidence, brand, mpn)
        candidates == Candidates(evidence, brand, mpn, selection)
    IN  IF required \subseteq DOMAIN selection /\ Cardinality(required) = 1
           /\ Cardinality(candidates) = 1
        THEN Answer("EXACT", CHOOSE c \in candidates : TRUE, candidates)
        ELSE Answer("FAMILY_OR_INCOMPLETE_REFERENCE", None, candidates)

\* A base reference: one discriminator, bound, mapped to one candidate, and
\* the candidate itself confirmed by an exact reference fact.
Complete(evidence, brand, mpn, selection) ==
    LET required == Required(evidence, brand, mpn)
        candidates == Candidates(evidence, brand, mpn, selection)
        constructs == required \subseteq DOMAIN selection /\ Cardinality(required) = 1
        confirmed == {c \in candidates : Exacts(evidence, brand, c) # {}}
    IN  CASE constructs /\ Cardinality(candidates) > 1 ->
                Answer("CONTRADICTORY", None, candidates)
          [] constructs /\ Cardinality(candidates) = 1 /\ confirmed # {} ->
                Answer("EXACT", CHOOSE c \in confirmed : TRUE, candidates)
          [] constructs /\ Cardinality(candidates) = 1 /\ confirmed = {} ->
                Answer("FAMILY_OR_INCOMPLETE_REFERENCE", None, candidates)
          [] ~constructs \/ candidates = {} ->
                Answer("FAMILY_OR_INCOMPLETE_REFERENCE", None, {})

ResolveIdentity(evidence, brand, mpn, selection) ==
    LET exact == Exacts(evidence, brand, mpn) # {}
        incomplete == Completions(evidence, brand, mpn) # {}
    IN  CASE exact /\ incomplete -> Answer("CONTRADICTORY", None, {})
          [] exact /\ ~incomplete -> Answer("EXACT", mpn, {})
          [] ~exact /\ incomplete -> Complete(evidence, brand, mpn, selection)
          [] ~exact /\ ~incomplete -> Answer("UNKNOWN", None, {})
==============================================================================
