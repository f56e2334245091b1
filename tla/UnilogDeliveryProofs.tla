-------------------------- MODULE UnilogDeliveryProofs --------------------------
(***************************************************************************)
(* Proofs about the delivery: for any reviewed makers, files, examples,    *)
(* schemas and offers, the cells of a record are of its row, the maker it  *)
(* names is one a person approved, its values are committed and uncontested*)
(* in whatever order they came, and a profile gives its example back.      *)
(***************************************************************************)
EXTENDS UnilogDelivery, FiniteSetTheorems, WellFoundedInduction, TLAPS

------------------------------------------------------------------------------
(* The least and the greatest of some numbers, and the first in an order. *)

\* The least element of a set, from the order as a relation.
LEMMA LeastOf ==
    ASSUME NEW R, NEW T \in SUBSET Nat,
           \A x, y \in Nat : <<x, y>> \in R <=> x < y,
           \E x \in T : \A y \in T : <<y, x>> \notin R
    PROVE  \E m \in T : \A n \in T : m <= n
<1>1. PICK x \in T : \A y \in T : <<y, x>> \notin R
  OBVIOUS
<1>2. \A y \in T : x \in Nat /\ y \in Nat /\ ~ (y < x)
  BY <1>1
<1>3. \A y \in T : x <= y
  BY <1>2
<1> QED BY <1>3

LEMMA LeastNatural ==
    ASSUME NEW T \in SUBSET Nat, T # {}
    PROVE  \E m \in T : \A n \in T : m <= n
<1> DEFINE R == OpToRel(<, Nat)
<1>1. IsWellFoundedOn(R, Nat)
  BY NatLessThanWellFounded
<1>2. \A x, y \in Nat : <<x, y>> \in R <=> x < y
  BY DEF OpToRel
<1> HIDE DEF R
<1>3. \E x \in T : \A y \in T : <<y, x>> \notin R
  BY <1>1, WFMin
<1> QED BY <1>2, <1>3, LeastOf

LEMMA LeastChosen ==
    ASSUME NEW T \in SUBSET Nat, T # {}
    PROVE  LET m == CHOOSE n \in T : \A k \in T : n <= k
           IN  m \in T /\ \A k \in T : m <= k
BY LeastNatural

LEMMA GreatestChosen ==
    ASSUME NEW N \in Nat, NEW T \in SUBSET (1 .. N), T # {}
    PROVE  (CHOOSE n \in T : \A m \in T : m <= n) \in T
<1> DEFINE U == {n \in Nat : \E m \in T : n = N - m}
<1>1. \A m \in T : m \in Nat /\ N - m \in Nat
  OBVIOUS
<1>2. U \in SUBSET Nat /\ U # {}
  BY <1>1
<1>3. PICK u \in U : \A v \in U : u <= v
  <2> HIDE DEF U
  <2> QED BY <1>2, LeastNatural
<1>4. PICK m \in T : u = N - m
  OBVIOUS
<1>5. \A n \in T : N - n \in U
  BY <1>1
<1>6. \A n \in T : N - m <= N - n
  BY <1>3, <1>4, <1>5
<1>7. \A n \in T : n <= m
  BY <1>1, <1>6
<1> QED BY <1>7

\* What is first of all but one comes before that one, or after it.
LEMMA FirstInOrder ==
    ASSUME NEW T, IsFiniteSet(T), T # {}, NEW R \in SUBSET (T \X T),
           \A x, y \in T : x # y => <<x, y>> \in R \/ <<y, x>> \in R,
           \A x, y, z \in T : <<x, y>> \in R /\ <<y, z>> \in R => <<x, z>> \in R
    PROVE  \E m \in T : \A n \in T \ {m} : <<m, n>> \in R
<1> DEFINE First(U) == \E m \in U : \A n \in U \ {m} : <<m, n>> \in R
           Sizes == {n \in Nat : \E U \in SUBSET T :
                       IsFiniteSet(U) /\ U # {} /\ Cardinality(U) = n /\ ~First(U)}
<1>1. Sizes \in SUBSET Nat
  OBVIOUS
<1>2. ASSUME Sizes # {} PROVE FALSE
  <2>1. PICK size \in Sizes : \A n \in Sizes : size <= n
    <3> HIDE DEF Sizes
    <3> QED BY <1>1, <1>2, LeastNatural
  <2>2. PICK U \in SUBSET T :
           IsFiniteSet(U) /\ U # {} /\ Cardinality(U) = size /\ ~First(U)
    OBVIOUS
  <2>3. PICK x \in U : TRUE
    BY <2>2
  <2> DEFINE V == U \ {x}
  <2>4. IsFiniteSet(V) /\ Cardinality(V) = size - 1
    BY <2>2, <2>3, FS_RemoveElement
  <2>5. V # {}
    <3> SUFFICES ASSUME U = {x} PROVE FALSE
      BY <2>3
    <3> QED BY <2>2, <2>3
  <2>6. size - 1 \notin Sizes
    BY <1>1, <2>1
  <2>7. Cardinality(V) \in Nat
    BY <2>4, FS_CardinalityType
  <2>8. V \in SUBSET T
    BY <2>2
  <2>9. First(V)
    BY <2>4, <2>5, <2>6, <2>7, <2>8
  <2>10. PICK m \in V : \A n \in V \ {m} : <<m, n>> \in R
    BY <2>9
  <2>11. x \in T /\ m \in T /\ m \in U /\ m # x
    BY <2>2, <2>3, <2>10
  <2>12. CASE <<m, x>> \in R
    <3>1. \A n \in U \ {m} : n = x \/ n \in V \ {m}
      OBVIOUS
    <3> QED BY <2>2, <2>10, <2>11, <2>12, <3>1
  <2>13. CASE <<x, m>> \in R
    <3>1. \A n \in V : <<x, n>> \in R
      BY <2>8, <2>10, <2>11, <2>13
    <3> QED BY <2>2, <2>3, <3>1
  <2> QED BY <2>11, <2>12, <2>13
<1>3. Cardinality(T) \in Nat
  BY FS_CardinalityType
<1>4. First(T)
  BY <1>2, <1>3
<1> QED BY <1>4


------------------------------------------------------------------------------
(* The name a maker is published under. *)

\* The stages at which a rule has a name that folds to this one.
HitsOf(rule, name) ==
    {n \in DOMAIN ManufacturerStages : NamesMatching(rule, ManufacturerStages[n], name) # {}}

LEMMA FiveStages == DOMAIN ManufacturerStages = 1 .. 5 /\ Len(ManufacturerStages) = 5
BY DEF ManufacturerStages, BrandStages

LEMMA DistanceIsLeast ==
    ASSUME NEW rule, NEW name
    PROVE  /\ HitsOf(rule, name) = {} => Distance(rule, name) = 6
           /\ HitsOf(rule, name) # {} =>
                 /\ Distance(rule, name) \in HitsOf(rule, name)
                 /\ \A k \in HitsOf(rule, name) : Distance(rule, name) <= k
<1>1. HitsOf(rule, name) \in SUBSET Nat
  BY FiveStages DEF HitsOf
<1>2. HitsOf(rule, name) = {} => Distance(rule, name) = 6
  BY FiveStages DEF HitsOf, Distance
<1>3. ASSUME HitsOf(rule, name) # {}
      PROVE  Distance(rule, name) =
                 CHOOSE n \in HitsOf(rule, name) : \A m \in HitsOf(rule, name) : n <= m
  BY <1>3, Zenon DEF HitsOf, Distance
<1> QED BY <1>1, <1>2, <1>3, LeastChosen

\* The first stage at which any rule matches, of those at which one does.
AnyHits(rules, name) ==
    {n \in DOMAIN ManufacturerStages : Matching(rules, ManufacturerStages[n], name) # {}}

FirstHit(rules, name) ==
    CHOOSE n \in AnyHits(rules, name) : \A m \in AnyHits(rules, name) : n <= m

LEMMA FirstHitIsFirst ==
    ASSUME NEW rules, NEW name, AnyHits(rules, name) # {}
    PROVE  /\ FirstHit(rules, name) \in 1 .. 5
           /\ FirstHit(rules, name) \in AnyHits(rules, name)
           /\ \A n \in DOMAIN rules :
                 /\ \A k \in HitsOf(rules[n], name) : FirstHit(rules, name) <= k
                 /\ FirstHit(rules, name) \in HitsOf(rules[n], name) <=>
                        n \in Matching(rules, ManufacturerStages[FirstHit(rules, name)], name)
<1>1. AnyHits(rules, name) \in SUBSET Nat /\ AnyHits(rules, name) \subseteq 1 .. 5
  BY FiveStages DEF AnyHits
<1>2. /\ FirstHit(rules, name) \in AnyHits(rules, name)
      /\ \A k \in AnyHits(rules, name) : FirstHit(rules, name) <= k
  BY <1>1, LeastChosen DEF FirstHit
<1>3. \A n \in DOMAIN rules : HitsOf(rules[n], name) \subseteq AnyHits(rules, name)
  BY DEF HitsOf, AnyHits, Matching
<1>4. FirstHit(rules, name) \in DOMAIN ManufacturerStages
  BY <1>2 DEF AnyHits
<1>5. \A n \in DOMAIN rules :
         FirstHit(rules, name) \in HitsOf(rules[n], name) <=>
             n \in Matching(rules, ManufacturerStages[FirstHit(rules, name)], name)
  BY <1>4 DEF HitsOf, Matching
<1> QED BY <1>1, <1>2, <1>3, <1>5

\* The rule that decides is one of those that match at that stage, and all of
\* them have its name.
LEMMA DecidingRule ==
    ASSUME NEW N \in Nat, NEW rules, DOMAIN rules \subseteq 1 .. N, NEW name,
           Match(rules, name, ManufacturerStages).rule # None,
           Match(rules, name, ManufacturerStages).reason # "AMBIGUOUS_ALIAS"
    PROVE  \E n \in DOMAIN rules :
              /\ Match(rules, name, ManufacturerStages).rule = rules[n]
              /\ Distance(rules[n], name) <= 5
              /\ \A m \in DOMAIN rules :
                    rules[m].names[1] # rules[n].names[1] =>
                        Distance(rules[n], name) < Distance(rules[m], name)
<1> DEFINE first == FirstHit(rules, name)
           matches == Matching(rules, ManufacturerStages[first], name)
           last == CHOOSE n \in matches : \A m \in matches : m <= n
<1>1. AnyHits(rules, name) # {}
  BY DEF Match, AnyHits
<1>2. Match(rules, name, ManufacturerStages) = FinishMatches(rules, matches, ManufacturerStages[first], name)
  BY <1>1, Zenon DEF Match, AnyHits, FirstHit
<1>3. matches # {} /\ matches \subseteq DOMAIN rules
  BY <1>1, FirstHitIsFirst DEF AnyHits, Matching
<1>4. last \in matches
  <2>1. matches \in SUBSET (1 .. N)
    BY <1>3
  <2> HIDE DEF matches
  <2> QED BY <1>3, <2>1, GreatestChosen
<1>5. /\ \A n, m \in matches : rules[n].names[1] = rules[m].names[1]
      /\ Match(rules, name, ManufacturerStages).rule = rules[last]
  <2> HIDE DEF matches, first
  <2> QED BY <1>2 DEF FinishMatches, Ambiguous
<1>6. \A n \in DOMAIN rules :
         /\ \A k \in HitsOf(rules[n], name) : first <= k
         /\ first \in HitsOf(rules[n], name) <=> n \in matches
  BY <1>1, FirstHitIsFirst
<1>7. first \in 1 .. 5
  BY <1>1, FirstHitIsFirst
<1> HIDE DEF first, matches, last
<1>8. last \in DOMAIN rules
  BY <1>3, <1>4
<1>9. \A k \in DOMAIN ManufacturerStages : k \in Nat
  BY FiveStages
<1>10. ASSUME NEW n \in DOMAIN rules
       PROVE  /\ n \in matches => Distance(rules[n], name) = first
              /\ n \notin matches => first < Distance(rules[n], name)
  <2> DEFINE d == Distance(rules[n], name)
             hits == HitsOf(rules[n], name)
  <2>1. hits \subseteq Nat
    BY <1>9 DEF HitsOf
  <2>2. /\ hits = {} => d = 6
        /\ hits # {} => d \in hits /\ \A k \in hits : d <= k
    BY DistanceIsLeast
  <2>3. (\A k \in hits : first <= k) /\ (first \in hits <=> n \in matches)
    BY <1>6
  <2> HIDE DEF d, hits
  <2>4. d \in Nat
    <3>1. CASE hits = {}
      BY <2>2, <3>1
    <3>2. CASE hits # {}
      BY <2>1, <2>2, <3>2
    <3> QED BY <3>1, <3>2
  <2>5. n \in matches => d = first
    BY <1>7, <2>2, <2>3, <2>4
  <2>6. n \notin matches => first < d
    BY <1>7, <2>2, <2>3, <2>4
  <2> QED BY <2>5, <2>6 DEF d
<1>11. Distance(rules[last], name) = first
  BY <1>4, <1>8, <1>10
<1>12. \A m \in DOMAIN rules : rules[m].names[1] # rules[last].names[1] =>
           first < Distance(rules[m], name)
  BY <1>4, <1>5, <1>10
<1> QED BY <1>5, <1>7, <1>8, <1>11, <1>12

\* A name is committed for delivery by a reviewed rule only.
LEMMA PublishedByARule ==
    ASSUME NEW rules, NEW row, NameForDelivery(NormalizeManufacturer(rules, row)) # None
    PROVE  LET own == ParsePartManuf(row.raw["Part_Manuf"]).name
               match == Match(rules, own, ManufacturerStages)
           IN  /\ match.rule # None /\ match.reason # "AMBIGUOUS_ALIAS"
               /\ NameForDelivery(NormalizeManufacturer(rules, row)) = match.rule.names[1]
BY DEF NameForDelivery, NormalizeManufacturer, Withheld, Reviewed, Name, ByRule, PermitsDelivery

------------------------------------------------------------------------------
(* The cells of one record. *)

\* Each field is set by one of the four parts of a record, or by none.
LEMMA CellsOfARecord ==
    ASSUME NEW row, NEW normalization, NEW proposal, NEW mapping,
           DOMAIN proposal.values \subseteq ClassificationFields
    PROVE  LET cells == RecordFromRawRow(row, normalization, proposal, mapping)
           IN  /\ DOMAIN cells = ToSet(schema)
               /\ \A c \in RequiredColumns : HasField(<<c>>) => cells[<<c>>] = row.raw[c]
               /\ \A c \in ClassificationFields :
                     HasField(<<c>>) /\ cells[<<c>>] # None =>
                         c \in DOMAIN proposal.values /\ cells[<<c>>] = proposal.values[c]
               /\ HasField(<<"MANUFACTURER_NAME">>) /\ cells[<<"MANUFACTURER_NAME">>] # None =>
                     cells[<<"MANUFACTURER_NAME">>] = NameForDelivery(normalization.manufacturer)
               /\ \A part, n : HasField(<<part, n>>) /\ cells[<<part, n>>] # None =>
                     LET added == AttributeCells(DeliverySlots(mapping))
                     IN  /\ mapping # None /\ <<part, n>> \in DOMAIN added
                         /\ cells[<<part, n>>] = added[<<part, n>>]
<1> DEFINE passed == SetFields(Blank, PassThrough(row))
           named == SetFields(passed, Names(normalization))
           classed == SetFields(named, Taxonomy(proposal))
           slots == DeliverySlots(mapping)
           cells == RecordFromRawRow(row, normalization, proposal, mapping)
<1>1. \A f \in ToSet(schema) :
         /\ Blank[f] = None
         /\ passed[f] = IF f \in DOMAIN PassThrough(row) THEN PassThrough(row)[f] ELSE None
         /\ named[f] = IF f \in DOMAIN Names(normalization) THEN Names(normalization)[f] ELSE passed[f]
         /\ classed[f] = IF f \in DOMAIN Taxonomy(proposal) THEN Taxonomy(proposal)[f] ELSE named[f]
  BY DEF Blank, SetFields
<1>2. DOMAIN classed = ToSet(schema)
  BY DEF Blank, SetFields
<1>3. /\ DOMAIN PassThrough(row) = {<<c>> : c \in RequiredColumns}
      /\ \A c \in RequiredColumns : PassThrough(row)[<<c>>] = row.raw[c]
  BY DEF PassThrough
<1>4. /\ DOMAIN Names(normalization) \subseteq {<<"MANUFACTURER_NAME">>, <<"BRAND_NAME">>}
      /\ <<"MANUFACTURER_NAME">> \in DOMAIN Names(normalization) =>
            Names(normalization)[<<"MANUFACTURER_NAME">>] =
                NameForDelivery(normalization.manufacturer)
  BY DEF Names, Restrict
<1>5. /\ DOMAIN Taxonomy(proposal) = {<<c>> : c \in DOMAIN proposal.values}
      /\ \A c \in DOMAIN proposal.values : Taxonomy(proposal)[<<c>>] = proposal.values[c]
  BY DEF Taxonomy
<1>6. \A c, n, part : <<c>> # <<part, n>>
  <2>1. \A c, n, part : Len(<<c>>) = 1 /\ Len(<<part, n>>) = 2
    OBVIOUS
  <2> QED BY <2>1
<1>7. \A c \in RequiredColumns :
         /\ c \notin ClassificationFields
         /\ c # "MANUFACTURER_NAME" /\ c # "BRAND_NAME"
  BY DEF RequiredColumns, ClassificationFields
<1>8. /\ "MANUFACTURER_NAME" \notin ClassificationFields \cup RequiredColumns
      /\ "BRAND_NAME" \notin ClassificationFields
  BY DEF RequiredColumns, ClassificationFields
<1>9. \A c, d : <<c>> = <<d>> => c = d
  OBVIOUS
<1> HIDE DEF passed, named, classed
<1>10. \A c \in RequiredColumns : HasField(<<c>>) => classed[<<c>>] = row.raw[c]
  <2> SUFFICES ASSUME NEW c \in RequiredColumns, <<c>> \in ToSet(schema)
               PROVE  classed[<<c>>] = row.raw[c]
    BY DEF HasField
  <2>1. <<c>> \notin DOMAIN Taxonomy(proposal) /\ <<c>> \notin DOMAIN Names(normalization)
    BY <1>4, <1>5, <1>7, <1>9
  <2> QED BY <1>1, <1>3, <2>1
<1>11. \A c \in ClassificationFields :
          HasField(<<c>>) /\ classed[<<c>>] # None =>
              c \in DOMAIN proposal.values /\ classed[<<c>>] = proposal.values[c]
  <2> SUFFICES ASSUME NEW c \in ClassificationFields, <<c>> \in ToSet(schema), classed[<<c>>] # None
               PROVE  c \in DOMAIN proposal.values /\ classed[<<c>>] = proposal.values[c]
    BY DEF HasField
  <2>1. <<c>> \notin DOMAIN PassThrough(row) /\ <<c>> \notin DOMAIN Names(normalization)
    BY <1>3, <1>4, <1>7, <1>8, <1>9
  <2> QED BY <1>1, <1>5, <1>9, <2>1
<1>12. HasField(<<"MANUFACTURER_NAME">>) /\ classed[<<"MANUFACTURER_NAME">>] # None =>
          classed[<<"MANUFACTURER_NAME">>] = NameForDelivery(normalization.manufacturer)
  <2> DEFINE f == <<"MANUFACTURER_NAME">>
  <2>1. f \notin DOMAIN PassThrough(row) /\ f \notin DOMAIN Taxonomy(proposal)
    BY <1>3, <1>5, <1>8, <1>9
  <2> QED BY <1>1, <1>4, <2>1 DEF HasField
<1>13. \A part, n : HasField(<<part, n>>) => classed[<<part, n>>] = None
  <2> SUFFICES ASSUME NEW part, NEW n, <<part, n>> \in ToSet(schema)
               PROVE  classed[<<part, n>>] = None
    BY DEF HasField
  <2>1. /\ <<part, n>> \notin DOMAIN PassThrough(row)
        /\ <<part, n>> \notin DOMAIN Names(normalization)
        /\ <<part, n>> \notin DOMAIN Taxonomy(proposal)
    BY <1>3, <1>4, <1>5, <1>6
  <2> QED BY <1>1, <2>1
<1>14. CASE mapping = None
  <2>1. cells = classed
    BY <1>14, Zenon DEF RecordFromRawRow, passed, named, classed
  <2> HIDE DEF cells
  <2>2. \A part, n : ~(HasField(<<part, n>>) /\ cells[<<part, n>>] # None)
    BY <1>13, <2>1
  <2>3. RecordFromRawRow(row, normalization, proposal, mapping) = classed
    BY <2>1 DEF cells
  <2> QED BY <1>2, <1>10, <1>11, <1>12, <2>2, <2>3, <2>1
<1>15. CASE mapping # None
  <2> DEFINE added == AttributeCells(slots)
  <2>1. cells = SetFields(classed, added)
    BY <1>15, Zenon DEF RecordFromRawRow, passed, named, classed
  <2>2. DOMAIN added = AttributeParts \X {slots[n].index : n \in DOMAIN slots}
    BY DEF AttributeCells
  <2>3. \A c : <<c>> \notin DOMAIN added
    BY <1>6, <2>2
  <2> HIDE DEF added, slots, cells
  <2>5. /\ DOMAIN cells = ToSet(schema)
        /\ \A f \in ToSet(schema) : f \notin DOMAIN added => cells[f] = classed[f]
    BY <1>2, <2>1 DEF SetFields
  <2>6. \A c : HasField(<<c>>) => cells[<<c>>] = classed[<<c>>]
    BY <2>3, <2>5 DEF HasField
  <2>7. \A part, n : HasField(<<part, n>>) /\ cells[<<part, n>>] # None =>
                        <<part, n>> \in DOMAIN added /\ cells[<<part, n>>] = added[<<part, n>>]
    <3>1. \A part, n : HasField(<<part, n>>) /\ <<part, n>> \in DOMAIN added =>
                           cells[<<part, n>>] = added[<<part, n>>]
      BY <1>2, <2>1 DEF SetFields, HasField
    <3> QED BY <1>13, <2>5, <3>1 DEF HasField
  <2>8. /\ \A c \in RequiredColumns : HasField(<<c>>) => cells[<<c>>] = row.raw[c]
        /\ \A c \in ClassificationFields :
              HasField(<<c>>) /\ cells[<<c>>] # None =>
                  c \in DOMAIN proposal.values /\ cells[<<c>>] = proposal.values[c]
        /\ HasField(<<"MANUFACTURER_NAME">>) /\ cells[<<"MANUFACTURER_NAME">>] # None =>
              cells[<<"MANUFACTURER_NAME">>] = NameForDelivery(normalization.manufacturer)
    BY <1>10, <1>11, <1>12, <2>6
  <2> QED BY <1>15, <2>5, <2>7, <2>8 DEF cells, slots, added
<1> QED BY <1>14, <1>15

\* A sequence is one of the things in it.
LEMMA SequenceOfItsOwn ==
    ASSUME NEW S, NEW s \in Seq(S)
    PROVE  s \in Seq(ToSet(s))
<1>1. Len(s) \in Nat /\ DOMAIN s = 1 .. Len(s) /\ s = [n \in 1 .. Len(s) |-> s[n]]
  OBVIOUS
<1>2. \A n \in 1 .. Len(s) : s[n] \in ToSet(s)
  BY <1>1 DEF ToSet
<1> QED BY <1>1, <1>2

\* A value cell is the value of the slot with its number.
LEMMA ValueCells ==
    ASSUME NEW slots, NEW n, <<"ATTRIBUTE_VALUE", n>> \in DOMAIN AttributeCells(slots)
    PROVE  \E p \in DOMAIN slots :
              slots[p].index = n /\ slots[p].value = AttributeCells(slots)[<<"ATTRIBUTE_VALUE", n>>]
<1> DEFINE f == <<"ATTRIBUTE_VALUE", n>>
           slot == CHOOSE s \in ToSet(slots) : s.index = f[2]
<1>1. f[1] = "ATTRIBUTE_VALUE" /\ f[2] = n
  OBVIOUS
<1>2. \E p \in DOMAIN slots : slots[p].index = n
  BY DEF AttributeCells
<1>3. slot \in ToSet(slots) /\ slot.index = n
  BY <1>1, <1>2 DEF ToSet
<1>4. AttributeCells(slots)[f] =
         CASE f[1] = "ATTRIBUTE_LABEL" -> slot.label
           [] f[1] = "ATTRIBUTE_VALUE" -> slot.value
           [] f[1] = "ATTRIBUTE_UOM" -> slot.uom
  BY Zenon DEF AttributeCells
<1> HIDE DEF slot
<1>5. AttributeCells(slots)[f] = slot.value
  BY <1>1, <1>4
<1> QED BY <1>3, <1>5 DEF ToSet

\* What an example licenses is its own, for the row it was spelt as.
LEMMA TaxonomyIsAnExamples ==
    ASSUME NEW row, NEW normalization
    PROVE  LET values == Classify(Examples, row, normalization).values
           IN  /\ DOMAIN values \subseteq ClassificationFields
               /\ \A c \in DOMAIN values :
                     \E e \in ToSet(Examples) :
                         /\ e.input = Restrict(row.raw, RequiredColumns)
                         /\ e.values[c] = values[c]
<1> DEFINE values == DeliveryClassification(Examples, row)
           n == CHOOSE m \in Matched(Examples, row) : TRUE
<1>1. Classify(Examples, row, normalization).values = values
  BY DEF Classify
<1>2. CASE Matched(Examples, row) = {}
  <2>1. values = << >>
    BY <1>2 DEF DeliveryClassification
  <2> QED BY <1>1, <2>1
<1>3. CASE Matched(Examples, row) # {}
  <2>1. n \in Matched(Examples, row)
    BY <1>3
  <2>2. n \in DOMAIN Examples /\ ExampleMatches(Examples[n], row)
    BY <2>1 DEF Matched
  <2> DEFINE e == Examples[n]
             filled == {f \in ClassificationFields : e.values[f] # None}
  <2>3. values = [f \in filled |-> e.values[f]]
    BY <1>3, Zenon DEF DeliveryClassification
  <2> HIDE DEF n
  <2>4. e \in ToSet(Examples)
    BY <2>2 DEF ToSet
  <2>5. e.input = Restrict(e.input, RequiredColumns)
    BY <2>4, DeliveryAssumption
  <2>6. e.input = Restrict(row.raw, RequiredColumns)
    BY <2>2, <2>5 DEF ExampleMatches, Restrict
  <2> HIDE DEF values
  <2>7. DOMAIN values \subseteq ClassificationFields /\ \A c \in DOMAIN values : e.values[c] = values[c]
    BY <2>3
  <2> QED BY <1>1, <2>4, <2>6, <2>7
<1> QED BY <1>2, <1>3

ProfileIsDerived ==
    /\ profile.of \in Catalogs /\ IsCatalog(profile.of)
    /\ SharesLabels(profile.of) /\ Labelled(profile.of[1]) # {}
    /\ profile.made = DeriveProfile(profile.of)

LEMMA ProfileIsOfItsExamples ==
    ASSUME ProfileIsDerived
    PROVE  /\ profile.made.authority = "ORGANIZER_EXAMPLE"
           /\ profile.made.records = {e.record : e \in ToSet(profile.of)}
BY DEF ProfileIsDerived, DeriveProfile, ToSet

Resolutions(made, candidates) ==
    [n \in DOMAIN made.slots |-> ResolveSlot(made.slots[n], Grouped(candidates, made.slots[n]))]

LEMMA MappingFields ==
    ASSUME NEW made, NEW candidates, NEW key, NEW classpath
    PROVE  LET mapping == ResolveAttributeCandidates(made, candidates, key, classpath)
           IN  /\ mapping.profile = made /\ mapping.record = key /\ mapping.classpath = classpath
               /\ mapping.resolutions = Resolutions(made, candidates)
               /\ mapping.decision =
                     MappingDecision(made, key, classpath, Resolutions(made, candidates))
<1> DEFINE resolutions == Resolutions(made, candidates)
           reason == MappingReason(made, key, classpath, resolutions)
           decision == MappingDecision(made, key, classpath, resolutions)
<1>1. ResolveAttributeCandidates(made, candidates, key, classpath) =
          [profile |-> made, record |-> key, classpath |-> classpath,
           resolutions |-> resolutions, decision |-> decision, reason |-> reason]
  BY Zenon DEF ResolveAttributeCandidates, Resolutions
<1> HIDE DEF resolutions, reason, decision
<1>2. LET mapping == [profile |-> made, record |-> key, classpath |-> classpath,
                      resolutions |-> resolutions, decision |-> decision, reason |-> reason]
      IN  /\ mapping.profile = made /\ mapping.record = key /\ mapping.classpath = classpath
          /\ mapping.resolutions = resolutions /\ mapping.decision = decision
  OBVIOUS
<1> QED BY <1>1, <1>2 DEF resolutions, decision

\* Labels are delivered for the part number of an example only.
LEMMA LabelsAreAnExamples ==
    ASSUME ProfileIsDerived, NEW key, NEW found,
           MappingOf(key, found) # None, DOMAIN DeliverySlots(MappingOf(key, found)) # {}
    PROVE  /\ MappingOf(key, found).record = key
           /\ \E e \in ToSet(profile.of) : e.record = key
<1>1. MappingOf(key, found) =
          ResolveAttributeCandidates(profile.made, Candidates(key, found), key, None)
  BY Zenon DEF MappingOf
<1>2. /\ MappingOf(key, found).record = key
      /\ MappingOf(key, found).profile = profile.made
      /\ MappingOf(key, found).classpath = None
  BY <1>1, MappingFields
<1>3. CanPopulateLabels(profile.made, key, None)
  BY <1>2 DEF DeliverySlots
<1>4. key \in profile.made.records
  BY <1>3, ProfileIsOfItsExamples DEF CanPopulateLabels
<1> QED BY <1>2, <1>4, ProfileIsOfItsExamples

------------------------------------------------------------------------------
(***************************************************************************)
(* The inductive invariant.  The parts of a record are tied to their row   *)
(* by a number, which no two rows of a file share; a catalog's rules and a *)
(* profile's records are a person's and the organizer's.                   *)
(***************************************************************************)
Lines == UNION {ToSet(i.lines) : i \in Inputs}
FileRows == {RowAt(i.header, line, n) : i \in Inputs, line \in Lines, n \in Nat}
Entries == [approved : {TRUE}, hints : Hints]

CatalogIsReviewed ==
    /\ DOMAIN catalog \subseteq 1 .. Len(registry)
    /\ \A n \in DOMAIN catalog :
          /\ catalog[n].authority = "HUMAN_APPROVED"
          /\ \E e \in ToSet(registry) : e.approved /\ e.hints = catalog[n].names

RowsAreNumbered ==
    /\ \A n \in DOMAIN rows : rows[n].number \in Nat /\ rows[n].number <= rest.read
    /\ \A m, n \in DOMAIN rows : m < n => rows[m].number < rows[n].number

StagesAreOfTheRows ==
    /\ normals # << >> =>
          rest.lines = << >> /\ normals = [n \in DOMAIN rows |-> Normalize(catalog, rows[n])]
    /\ proposals # << >> =>
          normals # << >> /\ proposals = [n \in DOMAIN rows |-> Classify(Examples, rows[n], normals[n])]

\* PublishedNamesAreReviewed and CellsAreOfTheRow, of one record.
NameIsReviewed(r) ==
    LET name == Cell(r, <<"MANUFACTURER_NAME">>)
        own == ParsePartManuf(r.row.raw["Part_Manuf"]).name
    IN  name # None =>
          \E n \in DOMAIN catalog :
              /\ \E e \in ToSet(registry) : e.approved /\ e.hints = catalog[n].names
              /\ catalog[n].names[1] = name /\ Distance(catalog[n], own) <= 5
              /\ \A m \in DOMAIN catalog :
                    catalog[m].names[1] # name =>
                        Distance(catalog[n], own) < Distance(catalog[m], own)

IsOfItsRow(r) ==
    /\ \A c \in RequiredColumns : HasField(<<c>>) => r.cells[<<c>>] = r.row.raw[c]
    /\ \A c \in ClassificationFields :
          Cell(r, <<c>>) # None =>
              \E e \in ToSet(Examples) :
                  e.input = Restrict(r.row.raw, RequiredColumns) /\ e.values[c] = Cell(r, <<c>>)
    /\ \A n \in SlotIndices(schema) :
          r.cells[<<"ATTRIBUTE_LABEL", n>>] # None =>
              \E e \in ToSet(profile.of) : e.record = Cleaned(r.row, "Mfg_Part_Num")

\* A value in a cell is a slot's of the mapping of what was offered.
IsMapped(r) ==
    /\ DOMAIN r.cells = ToSet(schema) /\ r.offered \in Seq(Offers)
    /\ \A n \in SlotIndices(schema) :
          r.cells[<<"ATTRIBUTE_VALUE", n>>] # None =>
              LET slots == DeliverySlots(MappingOf(r.key, r.offered))
              IN  /\ r.key # None
                  /\ \E p \in DOMAIN slots :
                        slots[p].index = n /\ slots[p].value = r.cells[<<"ATTRIBUTE_VALUE", n>>]

RecordsAreSound ==
    /\ records \in Seq(ToSet(records))
    /\ \A r \in ToSet(records) : NameIsReviewed(r) /\ IsOfItsRow(r) /\ IsMapped(r)

Unopened ==
    /\ rest = None /\ catalog = None /\ written = None /\ profile = None
    /\ rows = << >> /\ normals = << >> /\ proposals = << >> /\ records = << >> /\ offered = << >>

Opened ==
    /\ schema \in Headers /\ IsDeliveryHeader(schema)
    /\ ProfileIsDerived
    /\ CatalogIsReviewed
    /\ rest.lines \in Seq(Lines) /\ rest.read \in Nat
    /\ \E i \in Inputs : rest.header = i.header
    /\ rows \in Seq(FileRows)
    /\ RowsAreNumbered
    /\ StagesAreOfTheRows
    /\ RecordsAreSound /\ offered \in Seq(Offers)

Inv ==
    /\ registry \in Seq(Entries)
    /\ schema = None => Unopened
    /\ schema # None => Opened

LEMMA Start == Init => Inv
BY DEF Init, Inv, Unopened

\* A mapping rests on the profile only.
LEMMA MappingsRest ==
    ASSUME UNCHANGED profile
    PROVE  \A key, found : MappingOf(key, found)' = MappingOf(key, found)
BY Zenon DEF MappingOf, Candidates

\* What the records say does not depend on how far the file was worked on.
LEMMA RecordsRest ==
    ASSUME Opened, UNCHANGED <<registry, schema, profile, catalog, records>>
    PROVE  /\ (schema \in Headers)' /\ IsDeliveryHeader(schema)' /\ ProfileIsDerived'
           /\ CatalogIsReviewed' /\ RecordsAreSound'
<1>1. /\ (schema \in Headers)' /\ IsDeliveryHeader(schema)' /\ ProfileIsDerived'
      /\ CatalogIsReviewed'
  BY DEF Opened, IsDeliveryHeader, SlotIndices, ProfileIsDerived, CatalogIsReviewed
<1>2. \A r : (IsOfItsRow(r) => IsOfItsRow(r)') /\ (NameIsReviewed(r) => NameIsReviewed(r)')
  BY DEF IsOfItsRow, NameIsReviewed, HasField, SlotIndices, Cell
<1>3. \A r : IsMapped(r) => IsMapped(r)'
  BY MappingsRest DEF IsMapped, SlotIndices
<1> QED BY <1>1, <1>2, <1>3 DEF Opened, RecordsAreSound

\* A step that leaves the file alone but for what is offered or written.
LEMMA FileRests ==
    ASSUME Inv,
           UNCHANGED <<registry, schema, profile, catalog, rest, rows, normals, proposals, records>>,
           schema = None => UNCHANGED <<offered, written>>,
           schema # None => offered' \in Seq(Offers)
    PROVE  Inv'
<1>1. ASSUME schema # None PROVE Opened'
  <2>1. Opened
    BY <1>1 DEF Inv
  <2>2. RowsAreNumbered' /\ StagesAreOfTheRows'
    BY <2>1 DEF Opened, RowsAreNumbered, StagesAreOfTheRows
  <2> QED BY <2>1, <2>2, RecordsRest DEF Opened
<1> QED BY <1>1 DEF Inv, Unopened

\* An approval adds to the registry and takes nothing away.
LEMMA ReviewStep ==
    ASSUME Inv, NEW hints \in Hints, Review(hints)
    PROVE  Inv'
<1> DEFINE e == [approved |-> TRUE, hints |-> hints]
<1>1. registry' = Append(registry, e) /\ UNCHANGED <<api, file>>
  BY DEF Review
<1>2. registry' \in Seq(Entries) /\ Len(registry') = Len(registry) + 1
  BY <1>1 DEF Inv, Entries
<1>3. ToSet(registry) \subseteq ToSet(registry')
  <2>1. \A n \in DOMAIN registry : n \in DOMAIN registry' /\ registry'[n] = registry[n]
    BY <1>1 DEF Inv, Entries
  <2> QED BY <2>1 DEF ToSet
<1>4. ASSUME schema # None PROVE Opened'
  <2>1. Opened
    BY <1>4 DEF Inv
  <2>2. CatalogIsReviewed'
    <3>1. 1 .. Len(registry) \subseteq 1 .. Len(registry')
      BY <1>2 DEF Inv
    <3> QED BY <1>1, <1>3, <2>1, <3>1 DEF file, Opened, CatalogIsReviewed
  <2>3. RecordsAreSound'
    <3>1. \A r : IsOfItsRow(r) => IsOfItsRow(r)'
      BY <1>1 DEF file, IsOfItsRow, HasField, SlotIndices, Cell
    <3>2. \A r : NameIsReviewed(r) => NameIsReviewed(r)'
      BY <1>1, <1>3 DEF file, NameIsReviewed, Cell
    <3>3. \A r : IsMapped(r) => IsMapped(r)'
      BY <1>1, MappingsRest DEF file, IsMapped, SlotIndices
    <3> QED BY <1>1, <2>1, <3>1, <3>2, <3>3 DEF file, Opened, RecordsAreSound
  <2> QED BY <1>1, <2>1, <2>2, <2>3
          DEF file, Opened, ProfileIsDerived, RowsAreNumbered, StagesAreOfTheRows,
              IsDeliveryHeader, SlotIndices
<1> QED BY <1>1, <1>2, <1>4 DEF Inv, Unopened, file

\* The registry as it is when a file is opened, with nothing read yet.
LEMMA OpenStep ==
    ASSUME Inv, NEW input \in Inputs, NEW header \in Headers, NEW examples \in Catalogs,
           Open(input, header, examples)
    PROVE  Inv'
<1>1. /\ Unopened /\ IsDeliveryHeader(header) /\ registry \in Seq(Entries)
      /\ schema' = header /\ schema' # None
      /\ profile' = [made |-> DeriveProfile(examples), of |-> examples]
      /\ catalog' = ReviewedManufacturerCatalog(registry)
      /\ rest' = [header |-> input.header, lines |-> input.lines, read |-> 0]
      /\ UNCHANGED <<registry, rows, normals, proposals, offered, records, written>>
  BY DeliveryAssumption DEF Open, Inv
<1>2. IsDeliveryHeader(schema)'
  BY <1>1 DEF IsDeliveryHeader, SlotIndices
<1>3. ProfileIsDerived' /\ (schema \in Headers)' /\ (offered \in Seq(Offers))'
  <2>1. IsCatalog(examples) /\ SharesLabels(examples) /\ Labelled(examples[1]) # {}
    BY DEF Open
  <2>2. profile'.of = examples /\ profile'.made = DeriveProfile(examples)
    BY <1>1
  <2> QED BY <1>1, <2>1, <2>2 DEF ProfileIsDerived, Unopened
<1>4. CatalogIsReviewed'
  BY <1>1 DEF CatalogIsReviewed, ReviewedManufacturerCatalog, ToSet
<1>5. rest'.lines \in Seq(Lines) /\ rest'.read \in Nat /\ \E i \in Inputs : rest'.header = i.header
  <2>1. input.lines \in Seq(ToSet(input.lines)) /\ ToSet(input.lines) \subseteq Lines
    BY DeliveryAssumption DEF Lines
  <2>2. input.lines \in Seq(Lines)
    BY <2>1
  <2> QED BY <1>1, <2>2
<1>6. rows' \in Seq(FileRows) /\ RowsAreNumbered' /\ StagesAreOfTheRows' /\ RecordsAreSound'
  BY <1>1 DEF Unopened, RowsAreNumbered, StagesAreOfTheRows, RecordsAreSound, ToSet
<1> QED BY <1>1, <1>2, <1>3, <1>4, <1>5, <1>6 DEF Inv, Opened

\* A row has a greater number than those before it.
LEMMA ReadLineStep ==
    ASSUME Inv, ReadLine
    PROVE  Inv'
<1>1. /\ schema # None /\ Opened /\ registry \in Seq(Entries)
      /\ rest.lines # << >>
      /\ rest' = [rest EXCEPT !.lines = Tail(@), !.read = @ + 1]
      /\ UNCHANGED <<registry, schema, profile, catalog, normals, proposals, offered, records>>
  BY DEF ReadLine, Inv, Unopened
<1> DEFINE row == RowAt(rest.header, Head(rest.lines), rest.read + 1)
<1>2. /\ rest.lines \in Seq(Lines) /\ rest.read \in Nat
      /\ Head(rest.lines) \in Lines /\ Tail(rest.lines) \in Seq(Lines)
  BY <1>1 DEF Opened
<1>3. rest'.lines = Tail(rest.lines) /\ rest'.read = rest.read + 1 /\ rest'.header = rest.header
  BY <1>1
<1>4. normals = << >> /\ proposals = << >>
  BY <1>1 DEF Opened, StagesAreOfTheRows
<1>5. row \in FileRows /\ row.number = rest.read + 1
  <2>1. PICK i \in Inputs : rest.header = i.header
    BY <1>1 DEF Opened
  <2>2. rest.read + 1 \in Nat
    BY <1>2
  <2>3. row = RowAt(i.header, Head(rest.lines), rest.read + 1)
    BY <2>1
  <2>4. row \in FileRows
    <3> HIDE DEF row
    <3> QED BY <1>2, <2>2, <2>3 DEF FileRows
  <2>5. row.number = rest.read + 1
    BY DEF RowAt
  <2> QED BY <2>4, <2>5
<1>6. rows' = rows \/ rows' = Append(rows, row)
  BY DEF ReadLine
<1>7. rows' \in Seq(FileRows)
  <2> HIDE DEF row
  <2>1. rows \in Seq(FileRows)
    BY <1>1 DEF Opened
  <2> QED BY <1>5, <1>6, <2>1
<1>8. RowsAreNumbered'
  <2> HIDE DEF row
  <2>1. rows \in Seq(FileRows) /\ RowsAreNumbered
    BY <1>1 DEF Opened
  <2>2. CASE rows' = rows
    BY <1>2, <1>3, <2>1, <2>2 DEF RowsAreNumbered
  <2>3. CASE rows' = Append(rows, row)
    <3>1. /\ Len(rows) \in Nat /\ DOMAIN rows = 1 .. Len(rows)
          /\ DOMAIN rows' = 1 .. Len(rows) + 1
          /\ rows'[Len(rows) + 1] = row
          /\ \A n \in DOMAIN rows : rows'[n] = rows[n]
      BY <2>1, <2>3, <1>5
    <3>2. \A n \in DOMAIN rows' : n \in DOMAIN rows \/ n = Len(rows) + 1
      BY <3>1
    <3>3. \A n \in DOMAIN rows' : rows'[n].number \in Nat /\ rows'[n].number <= rest'.read
      BY <1>2, <1>3, <1>5, <2>1, <3>1, <3>2 DEF RowsAreNumbered
    <3>4. ASSUME NEW m \in DOMAIN rows', NEW n \in DOMAIN rows', m < n
          PROVE  rows'[m].number < rows'[n].number
      <4>1. m \in DOMAIN rows
        BY <3>1, <3>4
      <4>2. rows[m].number \in Nat /\ rows[m].number <= rest.read
        BY <2>1, <4>1 DEF RowsAreNumbered
      <4>3. CASE n \in DOMAIN rows
        BY <2>1, <3>1, <3>4, <4>1, <4>3 DEF RowsAreNumbered
      <4>4. CASE n = Len(rows) + 1
        BY <1>2, <1>5, <3>1, <4>1, <4>2, <4>4
      <4> QED BY <3>2, <4>3, <4>4
    <3> QED BY <3>3, <3>4 DEF RowsAreNumbered
  <2> QED BY <1>6, <2>2, <2>3
<1>9. StagesAreOfTheRows'
  BY <1>1, <1>4 DEF StagesAreOfTheRows
<1>10. \E i \in Inputs : rest'.header = i.header
  BY <1>1, <1>3 DEF Opened
<1> QED BY <1>1, <1>2, <1>3, <1>7, <1>8, <1>9, <1>10, RecordsRest DEF Inv, Opened

LEMMA StageStep ==
    ASSUME Inv, NormalizeRows \/ ClassifyRows
    PROVE  Inv'
<1>1. /\ schema # None /\ Opened /\ registry \in Seq(Entries)
      /\ UNCHANGED <<registry, schema, profile, catalog, rest, rows, offered, records>>
  BY DEF NormalizeRows, ClassifyRows, Inv, Unopened
<1>2. StagesAreOfTheRows'
  <2>1. StagesAreOfTheRows
    BY <1>1 DEF Opened
  <2>2. CASE NormalizeRows
    BY <1>1, <2>1, <2>2 DEF NormalizeRows, StagesAreOfTheRows
  <2>3. CASE ClassifyRows
    BY <1>1, <2>1, <2>3 DEF ClassifyRows, StagesAreOfTheRows
  <2> QED BY <2>2, <2>3
<1>3. RowsAreNumbered'
  BY <1>1 DEF Opened, RowsAreNumbered
<1> QED BY <1>1, <1>2, <1>3, RecordsRest DEF Inv, Opened

\* The parts of a record are of one row, whichever the caller handed over,
\* since their numbers agree.
LEMMA RecordIsSound ==
    ASSUME registry \in Seq(Entries), Opened, NEW k \in DOMAIN rows, NEW at \in DOMAIN rows, NEW key, NEW found,
           proposals # << >>,
           BelongsTo(rows[at], normals[k], proposals[k], MappingOf(key, found)),
           NEW r, r.row = rows[at],
           r.cells = RecordFromRawRow(rows[at], normals[k], proposals[k], MappingOf(key, found)),
           r.key = key, r.offered = found, found \in Seq(Offers)
    PROVE  NameIsReviewed(r) /\ IsOfItsRow(r) /\ IsMapped(r)
<1> DEFINE row == rows[at]
           mapping == MappingOf(key, found)
<1>1. /\ normals = [n \in DOMAIN rows |-> Normalize(catalog, rows[n])]
      /\ proposals = [n \in DOMAIN rows |-> Classify(Examples, rows[n], normals[n])]
  BY DEF Opened, StagesAreOfTheRows
<1>2. normals[k] = Normalize(catalog, rows[k]) /\ proposals[k] = Classify(Examples, rows[k], normals[k])
  BY <1>1
<1>3. k = at
  <2>1. rows[k].number = rows[at].number
    BY <1>2 DEF BelongsTo, Normalize
  <2>2. rows \in Seq(FileRows) /\ RowsAreNumbered
    BY DEF Opened
  <2>3. k \in Nat /\ at \in Nat
    BY <2>2
  <2>4. ~(k < at) /\ ~(at < k)
    BY <2>1, <2>2 DEF RowsAreNumbered
  <2> QED BY <2>3, <2>4
<1>4. /\ DOMAIN proposals[k].values \subseteq ClassificationFields
      /\ \A c \in DOMAIN proposals[k].values :
            \E e \in ToSet(Examples) :
                e.input = Restrict(row.raw, RequiredColumns) /\ e.values[c] = proposals[k].values[c]
  BY <1>2, <1>3, TaxonomyIsAnExamples
<1>5. /\ DOMAIN r.cells = ToSet(schema)
      /\ \A c \in RequiredColumns : HasField(<<c>>) => r.cells[<<c>>] = row.raw[c]
      /\ \A c \in ClassificationFields :
            HasField(<<c>>) /\ r.cells[<<c>>] # None =>
                c \in DOMAIN proposals[k].values /\ r.cells[<<c>>] = proposals[k].values[c]
      /\ HasField(<<"MANUFACTURER_NAME">>) /\ r.cells[<<"MANUFACTURER_NAME">>] # None =>
            r.cells[<<"MANUFACTURER_NAME">>] = NameForDelivery(normals[k].manufacturer)
      /\ \A part, n : HasField(<<part, n>>) /\ r.cells[<<part, n>>] # None =>
            LET added == AttributeCells(DeliverySlots(mapping))
            IN  /\ mapping # None /\ <<part, n>> \in DOMAIN added
                /\ r.cells[<<part, n>>] = added[<<part, n>>]
  BY <1>4, CellsOfARecord
<1>6. IsOfItsRow(r)
  <2>1. \A c \in ClassificationFields :
           Cell(r, <<c>>) # None =>
              \E e \in ToSet(Examples) :
                 e.input = Restrict(r.row.raw, RequiredColumns) /\ e.values[c] = Cell(r, <<c>>)
    BY <1>4, <1>5 DEF Cell, HasField
  <2>2. ASSUME NEW n \in SlotIndices(schema), r.cells[<<"ATTRIBUTE_LABEL", n>>] # None
        PROVE  \E e \in ToSet(profile.of) : e.record = Cleaned(r.row, "Mfg_Part_Num")
    <3>1. HasField(<<"ATTRIBUTE_LABEL", n>>)
      BY <2>2 DEF Opened, IsDeliveryHeader, AttributeParts, HasField
    <3>2. mapping # None /\ DOMAIN DeliverySlots(mapping) # {}
      BY <1>5, <2>2, <3>1 DEF AttributeCells
    <3>3. mapping.record = key /\ \E e \in ToSet(profile.of) : e.record = key
      BY <3>2, LabelsAreAnExamples DEF Opened
    <3> QED BY <3>2, <3>3 DEF BelongsTo
  <2> QED BY <1>5, <2>1, <2>2 DEF IsOfItsRow
<1>7. NameIsReviewed(r)
  <2> DEFINE name == Cell(r, <<"MANUFACTURER_NAME">>)
             own == ParsePartManuf(row.raw["Part_Manuf"]).name
  <2> SUFFICES ASSUME name # None
               PROVE  \E n \in DOMAIN catalog :
                         /\ \E e \in ToSet(registry) : e.approved /\ e.hints = catalog[n].names
                         /\ catalog[n].names[1] = name /\ Distance(catalog[n], own) <= 5
                         /\ \A m \in DOMAIN catalog :
                               catalog[m].names[1] # name =>
                                   Distance(catalog[n], own) < Distance(catalog[m], own)
    BY DEF NameIsReviewed
  <2>1. name = NameForDelivery(normals[k].manufacturer)
    BY <1>5 DEF Cell, HasField
  <2>2. normals[k].manufacturer = NormalizeManufacturer(catalog, row)
    BY <1>2, <1>3 DEF Normalize
  <2> DEFINE match == Match(catalog, own, ManufacturerStages)
  <2>3. match.rule # None /\ match.reason # "AMBIGUOUS_ALIAS" /\ name = match.rule.names[1]
    BY <2>1, <2>2, PublishedByARule
  <2>4. /\ DOMAIN catalog \subseteq 1 .. Len(registry)
        /\ \A n \in DOMAIN catalog :
              \E e \in ToSet(registry) : e.approved /\ e.hints = catalog[n].names
    BY DEF Opened, CatalogIsReviewed
  <2> HIDE DEF name, own
  <2>5. PICK n \in DOMAIN catalog :
           /\ match.rule = catalog[n]
           /\ Distance(catalog[n], own) <= 5
           /\ \A m \in DOMAIN catalog :
                 catalog[m].names[1] # catalog[n].names[1] =>
                     Distance(catalog[n], own) < Distance(catalog[m], own)
    <3>1. Len(registry) \in Nat
      OBVIOUS
    <3> QED BY <2>3, <2>4, <3>1, DecidingRule
  <2> QED BY <2>3, <2>4, <2>5
<1>8. IsMapped(r)
  <2> SUFFICES ASSUME NEW n \in SlotIndices(schema), r.cells[<<"ATTRIBUTE_VALUE", n>>] # None
               PROVE  /\ key # None
                      /\ \E p \in DOMAIN DeliverySlots(mapping) :
                            /\ DeliverySlots(mapping)[p].index = n
                            /\ DeliverySlots(mapping)[p].value = r.cells[<<"ATTRIBUTE_VALUE", n>>]
    BY <1>5 DEF IsMapped
  <2>1. HasField(<<"ATTRIBUTE_VALUE", n>>)
    BY DEF Opened, IsDeliveryHeader, AttributeParts, HasField
  <2> DEFINE slots == DeliverySlots(mapping)
  <2>2. /\ mapping # None /\ <<"ATTRIBUTE_VALUE", n>> \in DOMAIN AttributeCells(slots)
        /\ r.cells[<<"ATTRIBUTE_VALUE", n>>] = AttributeCells(slots)[<<"ATTRIBUTE_VALUE", n>>]
    BY <1>5, <2>1
  <2>3. key # None
    BY <2>2 DEF MappingOf
  <2> HIDE DEF slots
  <2>4. \E p \in DOMAIN slots :
           slots[p].index = n /\ slots[p].value = AttributeCells(slots)[<<"ATTRIBUTE_VALUE", n>>]
    BY <2>2, ValueCells
  <2> QED BY <2>2, <2>3, <2>4 DEF slots
<1> QED BY <1>6, <1>7, <1>8

LEMMA BuildStep ==
    ASSUME Inv, NEW k \in DOMAIN rows, NEW key \in Keys, Build(k, key)
    PROVE  Inv'
<1> DEFINE at == Len(records) + 1
           row == rows[at]
           mapping == MappingOf(key, offered)
           cells == RecordFromRawRow(row, normals[k], proposals[k], mapping)
           r == [row |-> row, key |-> key, offered |-> offered, cells |-> cells]
<1>1. /\ proposals # << >> /\ Len(records) < Len(rows)
      /\ BelongsTo(row, normals[k], proposals[k], mapping)
      /\ records' = Append(records, r)
      /\ offered' = << >>
      /\ UNCHANGED <<registry, schema, profile, catalog, rest, rows, normals, proposals>>
  BY DEF Build
<1>2. schema # None /\ Opened /\ registry \in Seq(Entries)
  BY <1>1 DEF Inv, Unopened
<1>3. records \in Seq(ToSet(records)) /\ rows \in Seq(FileRows)
  BY <1>2 DEF Opened, RecordsAreSound
<1>4. at \in DOMAIN rows
  BY <1>1, <1>3
<1>5. NameIsReviewed(r) /\ IsOfItsRow(r) /\ IsMapped(r)
  <2>1. /\ r.row = rows[at] /\ r.key = key /\ r.offered = offered /\ offered \in Seq(Offers)
        /\ r.cells = RecordFromRawRow(rows[at], normals[k], proposals[k], MappingOf(key, offered))
    BY <1>2 DEF Opened
  <2> HIDE DEF r, at
  <2> QED BY <1>1, <1>2, <1>4, <2>1, RecordIsSound
<1> HIDE DEF r
<1>6. \A x : /\ IsOfItsRow(x) => IsOfItsRow(x)'
             /\ NameIsReviewed(x) => NameIsReviewed(x)'
             /\ IsMapped(x) => IsMapped(x)'
  <2>1. \A x : /\ IsOfItsRow(x) => IsOfItsRow(x)'
               /\ NameIsReviewed(x) => NameIsReviewed(x)'
    BY <1>1 DEF IsOfItsRow, NameIsReviewed, HasField, SlotIndices, Cell
  <2>2. \A x : IsMapped(x) => IsMapped(x)'
    BY <1>1, MappingsRest DEF IsMapped, SlotIndices
  <2> QED BY <2>1, <2>2
<1>7. \A x \in ToSet(records') : x \in ToSet(records) \/ x = r
  BY <1>1, <1>3 DEF ToSet
<1>8. records' \in Seq(ToSet(records'))
  <2>1. Len(records') = Len(records) + 1 /\ DOMAIN records' = 1 .. Len(records')
    BY <1>1, <1>3
  <2>2. \A n \in 1 .. Len(records') : records'[n] \in ToSet(records')
    BY <2>1 DEF ToSet
  <2>3. records' = [n \in 1 .. Len(records') |-> records'[n]]
    <3>1. records' \in Seq(ToSet(records) \cup {r})
      BY <1>1, <1>3
    <3> QED BY <3>1
  <2>4. Len(records') \in Nat
    BY <1>3, <2>1
  <2> QED BY <2>2, <2>3, <2>4
<1>9. RecordsAreSound'
  BY <1>2, <1>5, <1>6, <1>7, <1>8 DEF Opened, RecordsAreSound
<1>10. RowsAreNumbered' /\ StagesAreOfTheRows'
  BY <1>1, <1>2 DEF Opened, RowsAreNumbered, StagesAreOfTheRows
<1>11. /\ (schema \in Headers)' /\ IsDeliveryHeader(schema)' /\ ProfileIsDerived'
       /\ CatalogIsReviewed' /\ (offered \in Seq(Offers))'
  <2>1. offered' \in Seq(Offers)
    BY <1>1
  <2>2. /\ (schema \in Headers)' /\ IsDeliveryHeader(schema)' /\ CatalogIsReviewed'
    BY <1>1, <1>2 DEF Opened, IsDeliveryHeader, SlotIndices, CatalogIsReviewed
  <2>3. ProfileIsDerived'
    BY <1>1, <1>2 DEF Opened, ProfileIsDerived
  <2> QED BY <2>1, <2>2, <2>3
<1> QED BY <1>1, <1>2, <1>9, <1>10, <1>11 DEF Inv, Opened

LEMMA Invariance == Spec => []Inv
<1>1. ASSUME Inv, [Next]_vars
      PROVE  Inv'
  <2>1. CASE \E hints \in Hints : Review(hints)
    BY <1>1, <2>1, ReviewStep
  <2>2. CASE \E row \in AllRows : Analyze(row)
    BY <1>1, <2>2, FileRests DEF Analyze, file, Inv, Opened
  <2>3. CASE \E input \in Inputs, header \in Headers, examples \in Catalogs :
                Open(input, header, examples)
    BY <1>1, <2>3, OpenStep
  <2>4. CASE ReadLine
    BY <1>1, <2>4, ReadLineStep
  <2>5. CASE NormalizeRows \/ ClassifyRows
    BY <1>1, <2>5, StageStep
  <2>6. CASE \E candidate \in Offers : Offer(candidate)
    <3>1. PICK candidate \in Offers : Offer(candidate)
      BY <2>6
    <3>2. schema # None /\ offered \in Seq(Offers)
      BY <1>1, <3>1 DEF Offer, Inv, Unopened, Opened
    <3>3. offered' \in Seq(Offers)
      BY <3>1, <3>2 DEF Offer
    <3> QED BY <1>1, <3>1, <3>2, <3>3, FileRests DEF Offer
  <2>7. CASE \E k \in DOMAIN rows, key \in Keys : Build(k, key)
    BY <1>1, <2>7, BuildStep
  <2>8. CASE Write
    BY <1>1, <2>8, FileRests DEF Write, Inv, Unopened, Opened
  <2>9. CASE UNCHANGED vars
    BY <1>1, <2>9, FileRests DEF vars, Inv, Opened
  <2> QED BY <1>1, <2>1, <2>2, <2>3, <2>4, <2>5, <2>6, <2>7, <2>8, <2>9 DEF Next
<1> QED BY <1>1, Start, PTL DEF Spec

------------------------------------------------------------------------------
\* Whoever is approved meanwhile, and however names are spelt, a maker is
\* published only as the reviewed one nearest to the row's name, with no
\* other as near (unilog/normalization.py match, normalize_manufacturer).
THEOREM NamesAreReviewed == Spec => []PublishedNamesAreReviewed
<1>1. Inv => PublishedNamesAreReviewed
  <2>1. CASE schema = None
    BY <2>1 DEF Inv, Unopened, PublishedNamesAreReviewed, ToSet
  <2>2. CASE schema # None
    BY <2>2 DEF Inv, Opened, RecordsAreSound, NameIsReviewed, PublishedNamesAreReviewed
  <2> QED BY <2>1, <2>2
<1> QED BY <1>1, Invariance, PTL

\* Whatever parts the caller hands over, a record is its own row's
\* (unilog/delivery.py record_from_raw_row).
THEOREM RecordsAreTheirRows == Spec => []CellsAreOfTheRow
<1>1. Inv => CellsAreOfTheRow
  <2>1. CASE schema = None
    BY <2>1 DEF Inv, Unopened, CellsAreOfTheRow, ToSet
  <2>2. CASE schema # None
    BY <2>2 DEF Inv, Opened, RecordsAreSound, IsOfItsRow, CellsAreOfTheRow
  <2> QED BY <2>1, <2>2
<1> QED BY <1>1, Invariance, PTL

------------------------------------------------------------------------------
(* The types, and the order in which candidates are compared. *)

\* Lines written so far are as wide as the header.
WrittenInv ==
    written # None =>
        /\ written \in Seq(ToSet(written))
        /\ \A n \in DOMAIN written : Len(written[n]) = Len(schema)

LEMMA WrittenInvHolds == Spec => []WrittenInv
<1>1. Init => WrittenInv
  BY DEF Init, WrittenInv
<1>2. ASSUME Inv, WrittenInv, [Next]_vars
      PROVE  WrittenInv'
  <2>1. CASE UNCHANGED <<schema, written>>
    BY <1>2, <2>1 DEF WrittenInv, ToSet
  <2>2. CASE \E input \in Inputs, header \in Headers, examples \in Catalogs :
                Open(input, header, examples)
    <3>1. written = None /\ written' = None
      BY <1>2, <2>2 DEF Open, Inv, Unopened
    <3> QED BY <3>1 DEF WrittenInv
  <2>3. CASE Write
    <3>1. schema \in Headers
      BY <1>2, <2>3 DEF Write, Inv, Unopened, Opened
    <3>2. schema \in Seq(ToSet(schema)) /\ schema' = schema
      BY <2>3, <3>1, DeliveryAssumption DEF Write
    <3>3. \A r : Len(ToRow(r)) = Len(schema)
      BY <3>2 DEF ToRow
    <3> DEFINE line == ToRow(records[Len(written)])
    <3>4. written' = IF written = None THEN <<schema>> ELSE Append(written, line)
      BY <2>3 DEF Write
    <3> HIDE DEF line
    <3>5. Len(line) = Len(schema)
      BY <3>3 DEF line
    <3>6. CASE written = None
      <4>1. written' = <<schema>>
        BY <3>4, <3>6
      <4>2. written' \in Seq({schema})
        BY <4>1
      <4>3. ToSet(written') = {schema}
        BY <4>1 DEF ToSet
      <4> QED BY <3>2, <4>1, <4>2, <4>3 DEF WrittenInv
    <3>7. CASE written # None
      <4>1. written \in Seq(ToSet(written))
            /\ \A n \in DOMAIN written : Len(written[n]) = Len(schema)
        BY <1>2, <3>7 DEF WrittenInv
      <4>2. written' = Append(written, line)
        BY <3>4, <3>7
      <4>3. /\ DOMAIN written' = 1 .. Len(written) + 1
            /\ \A n \in 1 .. Len(written) : written'[n] = written[n]
            /\ written'[Len(written) + 1] = line
            /\ Len(written) \in Nat /\ DOMAIN written = 1 .. Len(written)
        BY <4>1, <4>2
      <4>4. \A n \in DOMAIN written' : Len(written'[n]) = Len(schema')
        BY <3>2, <3>5, <4>1, <4>3
      <4>5. written' \in Seq(ToSet(written) \cup {line})
        BY <4>1, <4>2
      <4>6. written' \in Seq(ToSet(written'))
        BY <4>5, SequenceOfItsOwn
      <4> QED BY <4>4, <4>6 DEF WrittenInv
    <3> QED BY <3>6, <3>7
  <2> QED BY <1>2, <2>1, <2>2, <2>3
          DEF Next, vars, file, Review, Analyze, ReadLine, NormalizeRows, ClassifyRows, Offer, Build
<1> QED BY <1>1, <1>2, Invariance, PTL DEF Spec

\* A stage over no rows is the empty sequence, so it never seems not to have run.
LEMMA StagesAreAsLong ==
    ASSUME rows \in Seq(FileRows), StagesAreOfTheRows
    PROVE  Len(normals) \in {0, Len(rows)} /\ Len(proposals) \in {0, Len(normals)}
<1>1. Len(rows) \in Nat /\ DOMAIN rows = 1 .. Len(rows)
  OBVIOUS
<1>2. Len(<< >>) = 0
  OBVIOUS
<1>3. ASSUME NEW f, DOMAIN f = 1 .. Len(rows), f = [n \in 1 .. Len(rows) |-> f[n]]
      PROVE  Len(f) = Len(rows)
  BY <1>1, <1>3
<1>4. normals = << >> \/ Len(normals) = Len(rows)
  <2>1. CASE normals # << >>
    <3> DEFINE f == [n \in DOMAIN rows |-> Normalize(catalog, rows[n])]
    <3>1. normals = f /\ DOMAIN f = 1 .. Len(rows) /\ f = [n \in 1 .. Len(rows) |-> f[n]]
      BY <1>1, <2>1 DEF StagesAreOfTheRows
    <3> QED BY <1>3, <3>1
  <2> QED BY <2>1
<1>5. proposals = << >> \/ (normals # << >> /\ Len(proposals) = Len(rows))
  <2>1. CASE proposals # << >>
    <3> DEFINE f == [n \in DOMAIN rows |-> Classify(Examples, rows[n], normals[n])]
    <3>1. normals # << >>
      BY <2>1 DEF StagesAreOfTheRows
    <3>2. proposals = f /\ DOMAIN f = 1 .. Len(rows) /\ f = [n \in 1 .. Len(rows) |-> f[n]]
      BY <1>1, <2>1 DEF StagesAreOfTheRows
    <3> QED BY <1>3, <3>1, <3>2
  <2> QED BY <2>1
<1> QED BY <1>2, <1>4, <1>5

\* A profile's slots are the labelled ones of its first example.
LEMMA DerivedSlots ==
    ASSUME NEW examples
    PROVE  LET slots == DeriveProfile(examples).slots
               observed == examples[1].slots
           IN  /\ DOMAIN slots = Labelled(examples[1])
               /\ \A n \in DOMAIN slots :
                     /\ slots[n].index = observed[n].index /\ slots[n].key = observed[n].index
                     /\ slots[n].label = observed[n].label
<1> DEFINE observed == examples[1].slots
           labelled == Labelled(examples[1])
           Slot(n) == [index |-> observed[n].index, key |-> observed[n].index,
                       label |-> observed[n].label, kind |-> None,
                       uom |-> ExpectedUom(examples, observed[n].index)]
           classpaths == {examples[n].classpath : n \in DOMAIN examples} \ {None}
           classpath == IF Cardinality(classpaths) = 1
                        THEN CHOOSE c \in classpaths : TRUE ELSE None
           numbers == {examples[n].record : n \in DOMAIN examples}
<1>1. DeriveProfile(examples) =
         [slots |-> [n \in labelled |-> Slot(n)], authority |-> "ORGANIZER_EXAMPLE",
          records |-> numbers, classpath |-> classpath]
  BY Zenon DEF DeriveProfile
<1>2. \A n : /\ Slot(n).index = observed[n].index /\ Slot(n).key = observed[n].index
             /\ Slot(n).label = observed[n].label
  OBVIOUS
<1> HIDE DEF Slot, labelled, numbers, classpath, observed
<1>3. DeriveProfile(examples).slots = [n \in labelled |-> Slot(n)]
  BY <1>1
<1> QED BY <1>2, <1>3 DEF labelled, observed

\* What is derived from examples passes the checks of a profile.
LEMMA DerivedIsAProfile == ASSUME ProfileIsDerived PROVE IsProfile(profile.made)
<1> DEFINE example == profile.of[1]
           slots == profile.made.slots
<1>1. /\ DOMAIN slots = Labelled(example)
      /\ \A n \in Labelled(example) :
            slots[n].index = example.slots[n].index /\ slots[n].key = example.slots[n].index
  BY DerivedSlots DEF ProfileIsDerived
<1>2. example \in ToSet(profile.of)
  <2>1. profile.of \in Seq(ToSet(profile.of)) /\ profile.of # << >>
    BY DeliveryAssumption DEF ProfileIsDerived, IsCatalog
  <2> QED BY <2>1
<1>3. /\ DOMAIN example.slots \subseteq Nat
      /\ \A n \in DOMAIN example.slots : example.slots[n].index \in Nat
      /\ \A m, n \in DOMAIN example.slots :
            m < n => example.slots[m].index < example.slots[n].index
  <2>1. IsDelivered(example)
    BY <1>2, DeliveryAssumption DEF ProfileIsDerived
  <2>2. example.slots \in Seq(ToSet(example.slots))
    BY <2>1 DEF IsDelivered
  <2>3. DOMAIN example.slots \subseteq Nat
    BY <2>2
  <2> QED BY <2>1, <2>3 DEF IsDelivered, Increasing
<1>4. Labelled(example) \subseteq DOMAIN example.slots /\ Labelled(example) # {}
  BY DEF Labelled, ProfileIsDerived
<1> HIDE DEF slots, example
<1>5. DOMAIN slots # {}
  BY <1>1, <1>4
<1>6. Increasing([n \in DOMAIN slots |-> slots[n].index])
  BY <1>1, <1>3, <1>4 DEF Increasing
<1>7. \A m, n \in DOMAIN slots : slots[m].key = slots[n].key => m = n
  <2> SUFFICES ASSUME NEW m \in DOMAIN slots, NEW n \in DOMAIN slots,
                      slots[m].key = slots[n].key
               PROVE  m = n
    OBVIOUS
  <2>1. ~(m < n) /\ ~(n < m) /\ m \in Nat /\ n \in Nat
    BY <1>1, <1>3, <1>4
  <2> QED BY <2>1
<1>8. IsInjective([n \in DOMAIN slots |-> slots[n].key])
  BY <1>7 DEF IsInjective
<1> QED BY <1>5, <1>6, <1>8 DEF IsProfile, slots

\* Every stage has a result for each row or none, profiles and rules are what
\* their constructors accept, and lines are as wide as the header.
THEOREM DeliveryIsTyped == Spec => []TypeOK
<1>1. ASSUME Inv, WrittenInv PROVE TypeOK
  <2>1. \A n \in DOMAIN written : written # None => Len(written[n]) = Len(schema)
    BY <1>1 DEF WrittenInv
  <2>2. CASE schema = None
    <3>1. Unopened
      BY <1>1, <2>2 DEF Inv
    <3>2. Len(normals) = 0 /\ Len(rows) = 0 /\ Len(proposals) = 0 /\ ToSet(records) = {}
      BY <3>1 DEF Unopened, ToSet
    <3> QED BY <2>1, <2>2, <3>1, <3>2 DEF Unopened, TypeOK
  <2>3. CASE schema # None
    <3>1. Opened
      BY <1>1, <2>3 DEF Inv
    <3>2. Len(normals) \in {0, Len(rows)} /\ Len(proposals) \in {0, Len(normals)}
      BY <3>1, StagesAreAsLong DEF Opened
    <3>3. IsDeliveryHeader(schema) /\ IsProfile(profile.made)
      BY <3>1, DerivedIsAProfile DEF Opened
    <3>4. \A n \in DOMAIN catalog : IsRule(catalog[n])
      BY <3>1 DEF Opened, CatalogIsReviewed, IsRule
    <3>5. \A r \in ToSet(records) : DOMAIN r.cells = ToSet(schema)
      BY <3>1 DEF Opened, RecordsAreSound, IsMapped
    <3> QED BY <2>1, <3>2, <3>3, <3>4, <3>5 DEF TypeOK
  <2> QED BY <2>2, <2>3
<1> QED BY <1>1, Invariance, WrittenInvHolds, PTL

------------------------------------------------------------------------------
(* What the API answers. *)

\* Every answer is the cached catalog's.
AnswersInv ==
    /\ served = {} => answers = {}
    /\ \A c, d \in served : c = d
    /\ \A a \in answers : \E rules \in served :
          a = [row |-> a.row, answer |-> Normalize(rules, a.row)]

LEMMA AnswersInvHolds == Spec => []AnswersInv
<1>1. Init => AnswersInv
  BY DEF Init, AnswersInv
<1>2. AnswersInv /\ [Next]_vars => AnswersInv'
  <2> SUFFICES ASSUME AnswersInv, [Next]_vars PROVE AnswersInv'
    OBVIOUS
  <2>1. CASE UNCHANGED api
    BY <2>1 DEF AnswersInv, api
  <2>2. ASSUME NEW row \in AllRows, Analyze(row) PROVE AnswersInv'
    <3>1. PICK rules \in served' :
             answers' = answers \cup {[row |-> row, answer |-> Normalize(rules, row)]}
      BY <2>2, Zenon DEF Analyze
    <3>2. served' = IF served = {} THEN {ReviewedManufacturerCatalog(registry)} ELSE served
      BY <2>2 DEF Analyze
    <3>3. \A c, d \in served' : c = d
      BY <3>2 DEF AnswersInv
    <3>4. served # {} => served' = served
      BY <3>2
    <3> DEFINE new == [row |-> row, answer |-> Normalize(rules, row)]
    <3>5. new.row = row
      OBVIOUS
    <3>6. new = [row |-> new.row, answer |-> Normalize(rules, new.row)]
      BY <3>5
    <3> HIDE DEF new
    <3>7. \A a \in answers' : \E c \in served' : a = [row |-> a.row, answer |-> Normalize(c, a.row)]
      <4> SUFFICES ASSUME NEW a \in answers'
                   PROVE  \E c \in served' : a = [row |-> a.row, answer |-> Normalize(c, a.row)]
        OBVIOUS
      <4>1. a = new \/ a \in answers
        BY <3>1 DEF new
      <4>2. CASE a = new
        BY <3>6, <4>2
      <4>3. CASE a \in answers
        BY <3>4, <4>3 DEF AnswersInv
      <4> QED BY <4>1, <4>2, <4>3
    <3> QED BY <3>1, <3>3, <3>7 DEF AnswersInv
  <2> QED BY <2>1, <2>2
          DEF Next, vars, file, api, Review, Open, ReadLine, NormalizeRows, ClassifyRows, Offer,
              Build, Write
<1> QED BY <1>1, <1>2, PTL DEF Spec

LEMMA AnswersDoAgree == AnswersInv => AnswersAgree
BY DEF AnswersInv, AnswersAgree

------------------------------------------------------------------------------
(* The order of the candidates of a slot. *)

Keyed(t) == DOMAIN t = 1 .. 4 /\ t[1] \in Nat /\ t[2] \in Nat /\ t[3] \in Nat /\ t[4] \in Nat

LEMMA BeforeIsLexicographic ==
    ASSUME NEW a, NEW b, Keyed(a), Keyed(b)
    PROVE  Before(a, b) <=>
              \/ a[1] < b[1]
              \/ a[1] = b[1] /\ a[2] < b[2]
              \/ a[1] = b[1] /\ a[2] = b[2] /\ a[3] < b[3]
              \/ a[1] = b[1] /\ a[2] = b[2] /\ a[3] = b[3] /\ a[4] < b[4]
<1>1. /\ 1 .. 1 - 1 = {} /\ 1 .. 2 - 1 = {1} /\ 1 .. 3 - 1 = {1, 2} /\ 1 .. 4 - 1 = {1, 2, 3}
      /\ 1 .. 4 = {1, 2, 3, 4}
  OBVIOUS
<1>2. Before(a, b) <=> \E n \in {1, 2, 3, 4} : a[n] < b[n] /\ \A m \in 1 .. n - 1 : a[m] = b[m]
  BY <1>1 DEF Before, Keyed
<1>3. /\ (\A m \in 1 .. 1 - 1 : a[m] = b[m])
      /\ (\A m \in 1 .. 2 - 1 : a[m] = b[m]) <=> a[1] = b[1]
      /\ (\A m \in 1 .. 3 - 1 : a[m] = b[m]) <=> a[1] = b[1] /\ a[2] = b[2]
      /\ (\A m \in 1 .. 4 - 1 : a[m] = b[m]) <=> a[1] = b[1] /\ a[2] = b[2] /\ a[3] = b[3]
  BY <1>1
<1> QED BY <1>2, <1>3

\* A strict order in which what comes neither before nor after is the same.
LEMMA OrderOfKeys ==
    ASSUME NEW a, NEW b, NEW c, Keyed(a), Keyed(b), Keyed(c)
    PROVE  /\ ~(Before(a, b) /\ Before(b, a))
           /\ Before(a, b) /\ ~Before(c, b) => Before(a, c)
           /\ ~Before(b, a) /\ Before(b, c) => Before(a, c)
           /\ ~Before(b, a) /\ ~Before(c, b) => ~Before(c, a)
           /\ ~Before(a, b) /\ ~Before(b, a) =>
                  a[1] = b[1] /\ a[2] = b[2] /\ a[3] = b[3] /\ a[4] = b[4]
<1>1. ~(Before(a, b) /\ Before(b, a))
  BY BeforeIsLexicographic DEF Keyed
<1>2. Before(a, b) /\ ~Before(c, b) => Before(a, c)
  BY BeforeIsLexicographic DEF Keyed
<1>3. ~Before(b, a) /\ Before(b, c) => Before(a, c)
  BY BeforeIsLexicographic DEF Keyed
<1>4. ~Before(b, a) /\ ~Before(c, b) => ~Before(c, a)
  BY BeforeIsLexicographic DEF Keyed
<1>5. ~Before(a, b) /\ ~Before(b, a) =>
         a[1] = b[1] /\ a[2] = b[2] /\ a[3] = b[3] /\ a[4] = b[4]
  BY BeforeIsLexicographic DEF Keyed
<1> QED BY <1>1, <1>2, <1>3, <1>4, <1>5

\* There is a first of the candidates at these places, and none comes before it.
LEMMA FirstOfIsFirst ==
    ASSUME NEW cs, NEW N \in Nat, NEW places \in SUBSET (1 .. N), places # {},
           \A n \in places : Keyed(SortKey(cs[n]))
    PROVE  \E m \in places :
              /\ FirstOf(cs, places) = cs[m]
              /\ \A n \in places : ~Before(SortKey(cs[n]), SortKey(cs[m]))
<1> DEFINE Precedes(m, n) == \/ Before(SortKey(cs[m]), SortKey(cs[n]))
                             \/ ~Before(SortKey(cs[n]), SortKey(cs[m])) /\ m < n
           m == CHOOSE x \in places : \A n \in places \ {x} : Precedes(x, n)
<1>1. PICK R \in SUBSET (places \X places) : \A x, y \in places : <<x, y>> \in R <=> Precedes(x, y)
  <2> DEFINE pairs == {pair \in places \X places : Precedes(pair[1], pair[2])}
  <2> HIDE DEF Precedes
  <2>1. \A x, y \in places : <<x, y>> \in pairs <=> Precedes(x, y)
    OBVIOUS
  <2> QED BY <2>1
<1>2. IsFiniteSet(places)
  <2>1. IsFiniteSet(1 .. N)
    BY FS_Interval
  <2> QED BY <2>1, FS_Subset
<1>3. \A x, y \in places : x # y => Precedes(x, y) \/ Precedes(y, x)
  <2>1. \A x, y \in places : x # y => x < y \/ y < x
    OBVIOUS
  <2> QED BY <2>1
<1>4. \A x, y, z \in places : Precedes(x, y) /\ Precedes(y, z) => Precedes(x, z)
  <2> SUFFICES ASSUME NEW x \in places, NEW y \in places, NEW z \in places,
                      Precedes(x, y), Precedes(y, z)
               PROVE  Precedes(x, z)
    OBVIOUS
  <2> DEFINE a == SortKey(cs[x])
             b == SortKey(cs[y])
             c == SortKey(cs[z])
  <2>1. Keyed(a) /\ Keyed(b) /\ Keyed(c)
    OBVIOUS
  <2>2. x < y /\ y < z => x < z
    OBVIOUS
  <2> HIDE DEF a, b, c
  <2>3. ~Before(b, a) /\ ~Before(c, b)
    BY <2>1, OrderOfKeys DEF a, b, c
  <2>4. CASE Before(a, b)
    BY <2>1, <2>3, <2>4, OrderOfKeys DEF a, b, c
  <2>5. CASE Before(b, c)
    BY <2>1, <2>3, <2>5, OrderOfKeys DEF a, b, c
  <2>6. CASE ~Before(a, b) /\ ~Before(b, c)
    <3>1. x < y /\ y < z
      BY <2>6 DEF a, b, c
    <3>2. ~Before(c, a)
      BY <2>1, <2>3, OrderOfKeys
    <3> QED BY <2>2, <3>1, <3>2 DEF a, c
  <2> QED BY <2>4, <2>5, <2>6
<1>5. \E x \in places : \A n \in places \ {x} : <<x, n>> \in R
  <2>1. \A x, y \in places : x # y => <<x, y>> \in R \/ <<y, x>> \in R
    BY <1>1, <1>3
  <2>2. \A x, y, z \in places : <<x, y>> \in R /\ <<y, z>> \in R => <<x, z>> \in R
    BY <1>1, <1>4
  <2> HIDE DEF Precedes
  <2>3. places # {}
    OBVIOUS
  <2> HIDE DEF m
  <2> QED BY <1>2, <2>1, <2>2, <2>3, FirstInOrder
<1>6. m \in places /\ \A n \in places \ {m} : Precedes(m, n)
  <2> HIDE DEF Precedes
  <2>1. \E x \in places : \A n \in places \ {x} : Precedes(x, n)
    BY <1>1, <1>5
  <2> QED BY <2>1
<1>7. FirstOf(cs, places) = cs[m]
  BY DEF FirstOf
<1> HIDE DEF m
<1>8. \A n \in places : ~Before(SortKey(cs[n]), SortKey(cs[m]))
  BY <1>6, OrderOfKeys
<1> QED BY <1>6, <1>7, <1>8

\* A text's place in an order tells it from any other and from none.
LEMMA RankTells ==
    ASSUME NEW order, order \in Seq(ToSet(order)), NEW x, x \in ToSet(order) \cup {None}
    PROVE  /\ Rank(order, x) \in Nat
           /\ x = None => Rank(order, x) = 0
           /\ x # None => Rank(order, x) # 0 /\ order[Rank(order, x)] = x
<1>1. CASE x = None
  BY <1>1 DEF Rank
<1>2. CASE x # None
  <2>1. Rank(order, x) = CHOOSE n \in DOMAIN order : order[n] = x
    BY <1>2 DEF Rank
  <2>2. \E n \in DOMAIN order : order[n] = x
    BY <1>2 DEF ToSet
  <2>3. Rank(order, x) \in DOMAIN order /\ order[Rank(order, x)] = x
    BY <2>1, <2>2
  <2>4. DOMAIN order = 1 .. Len(order) /\ Len(order) \in Nat
    OBVIOUS
  <2>5. \A n \in DOMAIN order : n \in Nat /\ n # 0
    BY <2>4
  <2> QED BY <1>2, <2>3, <2>5
<1> QED BY <1>1, <1>2

\* Two texts in one place are one.
LEMMA OneTextAPlace ==
    ASSUME NEW order, order \in Seq(ToSet(order)),
           NEW x \in ToSet(order) \cup {None}, NEW y \in ToSet(order) \cup {None},
           Rank(order, x) = Rank(order, y)
    PROVE  x = y
<1>1. /\ x = None => Rank(order, x) = 0
      /\ x # None => Rank(order, x) # 0 /\ order[Rank(order, x)] = x
  BY RankTells
<1>2. /\ y = None => Rank(order, y) = 0
      /\ y # None => Rank(order, y) # 0 /\ order[Rank(order, y)] = y
  BY RankTells
<1> QED BY <1>1, <1>2

LEMMA SevenInOrder ==
    \A a, b, c, d, e, f, g : <<a, b, c, d, e, f, g>> \in Seq({a, b, c, d, e, f, g})
OBVIOUS

LEMMA ThreeInOrder == \A a, b, c : <<a, b, c>> \in Seq({a, b, c})
OBVIOUS

LEMMA NamedOrders ==
    /\ Authorities \in Seq(ToSet(Authorities)) /\ Decisions \in Seq(ToSet(Decisions))
<1>1. \E S : Authorities \in Seq(S)
  BY SevenInOrder, Zenon DEF Authorities
<1>2. \E S : Decisions \in Seq(S)
  BY ThreeInOrder, Zenon DEF Decisions
<1> QED BY <1>1, <1>2, SequenceOfItsOwn

LEMMA KeysAreNumbers ==
    ASSUME NEW c, IsCandidate(c)
    PROVE  Keyed(SortKey(c))
<1> DEFINE v == c.value
<1>1. Rank(Authorities, c.authority) \in Nat /\ Rank(Decisions, c.decision) \in Nat
  <2>1. c.authority \in ToSet(Authorities) /\ c.decision \in ToSet(Decisions)
    BY DEF IsCandidate
  <2> QED BY <2>1, NamedOrders, RankTells
<1>2. /\ (IF v = None THEN 0 ELSE Rank(Texts, v.raw)) \in Nat
      /\ (IF v = None THEN 0 ELSE Rank(Units, v.rawUom)) \in Nat
  <2>1. CASE v = None
    BY <2>1
  <2>2. CASE v # None
    <3>1. v.raw \in ToSet(Texts) /\ v.rawUom \in ToSet(Units) \cup {None}
      BY <2>2, Zenon DEF IsCandidate
    <3>2. Rank(Texts, v.raw) \in Nat /\ Rank(Units, v.rawUom) \in Nat
      BY <3>1, CodePointOrder, RankTells
    <3> QED BY <3>2
  <2> QED BY <2>1, <2>2
<1> DEFINE a == Rank(Authorities, c.authority)
           b == Rank(Decisions, c.decision)
           x == IF v = None THEN 0 ELSE Rank(Texts, v.raw)
           y == IF v = None THEN 0 ELSE Rank(Units, v.rawUom)
<1>3. SortKey(c) = <<a, b, x, y>>
  BY DEF SortKey
<1>4. a \in Nat /\ b \in Nat /\ x \in Nat /\ y \in Nat
  BY <1>1, <1>2
<1> HIDE DEF a, b, x, y
<1>5. DOMAIN <<a, b, x, y>> = 1 .. 4
  OBVIOUS
<1> QED BY <1>3, <1>4, <1>5 DEF Keyed

\* Two candidates that tie were read from the same text and unit; of the same
\* kind, they have the same value.
LEMMA TiesAgree ==
    ASSUME NEW c, NEW d, IsCandidate(c), IsCandidate(d), c.value # None, d.value # None,
           SortKey(c)[3] = SortKey(d)[3], SortKey(c)[4] = SortKey(d)[4],
           SemanticKey(c.value) = SemanticKey(d.value)
    PROVE  c.value = d.value
<1> DEFINE v == c.value
           w == d.value
<1>1. /\ v = Value(v.kind, v.raw, Reads[v.kind][v.raw], v.rawUom)
      /\ v.raw \in ToSet(Texts) /\ v.rawUom \in ToSet(Units) \cup {None}
  BY Zenon DEF IsCandidate
<1>2. /\ w = Value(w.kind, w.raw, Reads[w.kind][w.raw], w.rawUom)
      /\ w.raw \in ToSet(Texts) /\ w.rawUom \in ToSet(Units) \cup {None}
  BY Zenon DEF IsCandidate
<1>3. v.kind = w.kind
  BY DEF SemanticKey
<1>4. /\ SortKey(c)[3] = Rank(Texts, v.raw) /\ SortKey(c)[4] = Rank(Units, v.rawUom)
      /\ SortKey(d)[3] = Rank(Texts, w.raw) /\ SortKey(d)[4] = Rank(Units, w.rawUom)
  BY DEF SortKey
<1> HIDE DEF v, w
<1>5. v.raw = w.raw
  <2>1. Rank(Texts, v.raw) = Rank(Texts, w.raw)
    BY <1>4
  <2>2. v.raw \in ToSet(Texts) \cup {None} /\ w.raw \in ToSet(Texts) \cup {None}
    BY <1>1, <1>2
  <2> QED BY <2>1, <2>2, CodePointOrder, OneTextAPlace
<1>6. v.rawUom = w.rawUom
  <2>1. Rank(Units, v.rawUom) = Rank(Units, w.rawUom)
    BY <1>4
  <2>2. v.rawUom \in ToSet(Units) \cup {None} /\ w.rawUom \in ToSet(Units) \cup {None}
    BY <1>1, <1>2
  <2> QED BY <2>1, <2>2, CodePointOrder, OneTextAPlace
<1>7. v = w
  BY <1>1, <1>2, <1>3, <1>5, <1>6
<1> QED BY <1>7 DEF v, w

\* The candidates of a slot are those of its key.
LEMMA GroupOfASlot ==
    ASSUME NEW cs, NEW slot
    PROVE  /\ DOMAIN Grouped(cs, slot) \subseteq DOMAIN cs
           /\ ToSet(Grouped(cs, slot)) = {c \in ToSet(cs) : c.key = slot.key}
BY DEF Grouped, Restrict, ToSet

LEMMA ImageIsFinite ==
    ASSUME NEW f, IsFiniteSet(DOMAIN f), NEW S, S = {f[x] : x \in DOMAIN f}
    PROVE  IsFiniteSet(S)
<1> DEFINE g == [x \in DOMAIN f |-> f[x]]
<1>1. g \in Surjection(DOMAIN f, S)
  BY DEF Surjection
<1> HIDE DEF g
<1> QED BY <1>1, FS_Surjection

LEMMA PlacesAreFinite ==
    ASSUME NEW N \in Nat, NEW T \in SUBSET (1 .. N)
    PROVE  IsFiniteSet(T)
<1>1. IsFiniteSet(1 .. N)
  BY FS_Interval
<1> QED BY <1>1, FS_Subset

LEMMA AtMostOne ==
    ASSUME NEW S, IsFiniteSet(S), ~(Cardinality(S) > 1), NEW x \in S, NEW y \in S
    PROVE  x = y
<1> SUFFICES ASSUME x # y PROVE FALSE
  OBVIOUS
<1>1. IsFiniteSet({x}) /\ Cardinality({x}) = 1
  BY FS_Singleton
<1>2. Cardinality({x} \cup {y}) = 2
  BY <1>1, FS_AddElement
<1>3. {x} \cup {y} \in SUBSET S
  OBVIOUS
<1>4. Cardinality({x} \cup {y}) <= Cardinality(S) /\ Cardinality(S) \in Nat
  BY <1>3, FS_Subset, FS_CardinalityType
<1> QED BY <1>2, <1>4

\* Where nothing is objected, the labels are the slot's and the values are one.
LEMMA NoObjection ==
    ASSUME NEW slot, NEW group, IsFiniteSet(DOMAIN group), Objection(slot, group) = None
    PROVE  /\ \A c \in ToSet(group) : c.label = slot.label
           /\ \A c, d \in ToSet(group) : c.value # None /\ d.value # None =>
                  SemanticKey(c.value) = SemanticKey(d.value)
<1> DEFINE all == ToSet(group)
           values == {c.value : c \in all} \ {None}
           keys == {SemanticKey(v) : v \in values}
<1>1. /\ ~(\E c \in all : c.label # slot.label)
      /\ ~(Cardinality(keys) > 1)
  BY NoneIsNoObjection DEF Objection
<1>2. IsFiniteSet(keys)
  <2>1. IsFiniteSet(all)
    BY ImageIsFinite DEF ToSet
  <2> HIDE DEF all
  <2>2. IsFiniteSet({c.value : c \in all})
    <3> DEFINE f == [c \in all |-> c.value]
    <3>1. {c.value : c \in all} = {f[c] : c \in DOMAIN f} /\ DOMAIN f = all
      OBVIOUS
    <3> HIDE DEF f
    <3> QED BY <2>1, <3>1, ImageIsFinite
  <2>3. IsFiniteSet(values)
    BY <2>2, FS_Subset
  <2> HIDE DEF values
  <2> DEFINE f == [v \in values |-> SemanticKey(v)]
  <2>4. keys = {f[v] : v \in DOMAIN f} /\ DOMAIN f = values
    OBVIOUS
  <2> HIDE DEF f, keys
  <2> QED BY <2>3, <2>4, ImageIsFinite
<1>3. \A v, w \in values : SemanticKey(v) = SemanticKey(w)
  <2> HIDE DEF values
  <2> SUFFICES ASSUME NEW v \in values, NEW w \in values PROVE SemanticKey(v) = SemanticKey(w)
    OBVIOUS
  <2>1. SemanticKey(v) \in keys /\ SemanticKey(w) \in keys
    OBVIOUS
  <2> HIDE DEF keys
  <2> QED BY <1>1, <1>2, <2>1, AtMostOne
<1> QED BY <1>1, <1>3

\* What stands against deciding depends on which candidates there are.
LEMMA ObjectionIsOfTheSet ==
    ASSUME NEW slot, NEW group, NEW other, ToSet(group) = ToSet(other)
    PROVE  Objection(slot, group) = Objection(slot, other)
BY DEF Objection

EligibleOf(group) == {c \in ToSet(group) : IsDeliveryEligible(c)}

\* A slot is filled when nothing is objected and a candidate is eligible, with
\* one that no eligible candidate comes before.
LEMMA ResolvedSlot ==
    ASSUME NEW slot, NEW group, NEW N \in Nat, DOMAIN group \in SUBSET (1 .. N),
           \A c \in ToSet(group) : IsCandidate(c)
    PROVE  LET resolution == ResolveSlot(slot, group)
           IN  /\ resolution.decision = "COMMIT" <=>
                     Objection(slot, group) = None /\ EligibleOf(group) # {}
               /\ resolution.decision = "COMMIT" =>
                     /\ resolution.candidate \in EligibleOf(group)
                     /\ \A c \in EligibleOf(group) :
                           ~Before(SortKey(c), SortKey(resolution.candidate))
               /\ resolution.decision = "REVIEW" <=>
                     /\ ToSet(group) # {}
                     /\ \/ Objection(slot, group) # None
                        \/ /\ EligibleOf(group) = {}
                           /\ \E c \in ToSet(group) : c.decision \in {"REVIEW", "COMMIT"}
<1> DEFINE places == {n \in DOMAIN group : IsDeliveryEligible(group[n])}
           valued == {n \in DOMAIN group : group[n].value # None}
           objection == Objection(slot, group)
           resolution == ResolveSlot(slot, group)
           reason == IF Cardinality(valued) > 1 THEN "DUPLICATE_AGREEMENT" ELSE "ELIGIBLE"
<1>1. resolution =
         IF DOMAIN group = {} THEN Resolution("WITHHOLD", "NO_CANDIDATE", None)
         ELSE IF objection # None THEN Resolution("REVIEW", objection, None)
         ELSE IF places = {} THEN Undecided(group)
         ELSE Resolution("COMMIT", reason, FirstOf(group, places))
  BY Zenon DEF ResolveSlot
<1>2. EligibleOf(group) = {group[n] : n \in places}
  BY DEF EligibleOf, ToSet
<1>3. DOMAIN group = {} <=> ToSet(group) = {}
  BY DEF ToSet
<1>4. \A d, r, c : Resolution(d, r, c).decision = d /\ Resolution(d, r, c).candidate = c
  BY DEF Resolution
<1>5. /\ Undecided(group).decision \in {"REVIEW", "WITHHOLD"}
      /\ Undecided(group).decision = "REVIEW" <=>
            \E c \in ToSet(group) : c.decision \in {"REVIEW", "COMMIT"}
  BY <1>4 DEF Undecided
<1> HIDE DEF resolution, reason, objection
<1>6. ASSUME places # {}
      PROVE  /\ FirstOf(group, places) \in EligibleOf(group)
             /\ \A c \in EligibleOf(group) : ~Before(SortKey(c), SortKey(FirstOf(group, places)))
  <2>1. places \in SUBSET (1 .. N)
    OBVIOUS
  <2>2. \A n \in places : Keyed(SortKey(group[n]))
    BY KeysAreNumbers DEF ToSet
  <2> HIDE DEF places
  <2>3. \E m \in places :
           /\ FirstOf(group, places) = group[m]
           /\ \A n \in places : ~Before(SortKey(group[n]), SortKey(group[m]))
    BY <1>6, <2>1, <2>2, FirstOfIsFirst
  <2> QED BY <1>2, <2>3
<1>7. CASE DOMAIN group = {}
  <2>1. resolution.decision = "WITHHOLD" /\ ToSet(group) = {} /\ EligibleOf(group) = {}
    BY <1>1, <1>2, <1>3, <1>4, <1>7
  <2> QED BY <2>1 DEF resolution
<1>8. CASE DOMAIN group # {} /\ objection # None
  <2>1. resolution.decision = "REVIEW" /\ ToSet(group) # {}
    BY <1>1, <1>3, <1>4, <1>8
  <2> QED BY <1>8, <2>1 DEF resolution, objection
<1>9. CASE DOMAIN group # {} /\ objection = None /\ places = {}
  <2>1. resolution = Undecided(group) /\ ToSet(group) # {} /\ EligibleOf(group) = {}
    BY <1>1, <1>2, <1>3, <1>9
  <2> QED BY <1>5, <1>9, <2>1 DEF resolution, objection
<1>10. CASE DOMAIN group # {} /\ objection = None /\ places # {}
  <2>1. resolution.decision = "COMMIT" /\ resolution.candidate = FirstOf(group, places)
    BY <1>1, <1>4, <1>10
  <2>2. EligibleOf(group) # {}
    BY <1>2, <1>10
  <2> HIDE DEF places
  <2> QED BY <1>6, <1>10, <2>1, <2>2 DEF resolution, objection
<1> QED BY <1>7, <1>8, <1>9, <1>10

\* Two groups of the same candidates fill a slot alike.
LEMMA GroupsFillAlike ==
    ASSUME NEW slot, NEW group, NEW other, NEW N \in Nat,
           DOMAIN group \in SUBSET (1 .. N), DOMAIN other \in SUBSET (1 .. N),
           ToSet(group) = ToSet(other), \A c \in ToSet(group) : IsCandidate(c)
    PROVE  LET one == ResolveSlot(slot, group)
               two == ResolveSlot(slot, other)
           IN  /\ one.decision = "COMMIT" <=> two.decision = "COMMIT"
               /\ one.decision = "COMMIT" =>
                     /\ IsDeliveryEligible(one.candidate) /\ IsDeliveryEligible(two.candidate)
                     /\ one.candidate # None /\ two.candidate # None
                     /\ one.candidate.value = two.candidate.value
<1> DEFINE one == ResolveSlot(slot, group)
           two == ResolveSlot(slot, other)
<1>1. EligibleOf(group) = EligibleOf(other) /\ Objection(slot, group) = Objection(slot, other)
  BY ObjectionIsOfTheSet DEF EligibleOf
<1>2. /\ one.decision = "COMMIT" <=> Objection(slot, group) = None /\ EligibleOf(group) # {}
      /\ one.decision = "COMMIT" =>
            /\ one.candidate \in EligibleOf(group)
            /\ \A c \in EligibleOf(group) : ~Before(SortKey(c), SortKey(one.candidate))
  BY ResolvedSlot
<1>3. /\ two.decision = "COMMIT" <=> Objection(slot, group) = None /\ EligibleOf(group) # {}
      /\ two.decision = "COMMIT" =>
            /\ two.candidate \in EligibleOf(group)
            /\ \A c \in EligibleOf(group) : ~Before(SortKey(c), SortKey(two.candidate))
  BY <1>1, ResolvedSlot
<1> HIDE DEF one, two
<1>4. ASSUME one.decision = "COMMIT"
      PROVE  /\ IsDeliveryEligible(one.candidate) /\ IsDeliveryEligible(two.candidate)
             /\ one.candidate # None /\ two.candidate # None
             /\ one.candidate.value = two.candidate.value
  <2> DEFINE c == one.candidate
             d == two.candidate
  <2>1. /\ c \in ToSet(group) /\ d \in ToSet(group)
        /\ IsDeliveryEligible(c) /\ IsDeliveryEligible(d)
    BY <1>2, <1>3, <1>4 DEF EligibleOf
  <2>2. ~Before(SortKey(c), SortKey(d)) /\ ~Before(SortKey(d), SortKey(c))
    BY <1>2, <1>3, <1>4
  <2>3. IsCandidate(c) /\ IsCandidate(d) /\ c.value # None /\ d.value # None
    BY <2>1 DEF IsDeliveryEligible
  <2>4. SemanticKey(c.value) = SemanticKey(d.value)
    <3>1. IsFiniteSet(DOMAIN group)
      BY PlacesAreFinite
    <3>2. Objection(slot, group) = None
      BY <1>2, <1>4
    <3> QED BY <2>1, <2>3, <3>1, <3>2, NoObjection
  <2> HIDE DEF c, d
  <2>5. SortKey(c)[3] = SortKey(d)[3] /\ SortKey(c)[4] = SortKey(d)[4]
    BY <2>2, <2>3, KeysAreNumbers, OrderOfKeys
  <2>6. c.value = d.value
    BY <2>3, <2>4, <2>5, TiesAgree
  <2>7. c # None /\ d # None
    BY <2>3, Zenon DEF IsCandidate
  <2> QED BY <2>1, <2>6, <2>7 DEF c, d
<1>5. one.decision = "COMMIT" <=> two.decision = "COMMIT"
  BY <1>2, <1>3
<1> QED BY <1>4, <1>5 DEF one, two

------------------------------------------------------------------------------
(* The candidates of a record. *)

LEMMA SetAsSequence ==
    ASSUME NEW S, IsFiniteSet(S)
    PROVE  SetToSeq(S) \in Seq(S) /\ ToSet(SetToSeq(S)) = S
<1> DEFINE N == Cardinality(S)
           f == SetToSeq(S)
<1>1. N \in Nat /\ ExistsBijection(1 .. N, S)
  BY FS_CardinalityType
<1>2. \E g \in [1 .. N -> S] : IsInjective(g)
  BY <1>1 DEF ExistsBijection, Bijection, Injection
<1>3. f \in [1 .. N -> S] /\ IsInjective(f)
  BY <1>2 DEF SetToSeq
<1> HIDE DEF f
<1>4. f \in Seq(S) /\ DOMAIN f = 1 .. N
  BY <1>1, <1>3
<1>5. IsFiniteSet(1 .. N) /\ Cardinality(1 .. N) = N
  BY <1>1, FS_Interval
<1>6. f \in Injection(1 .. N, S)
  BY <1>3 DEF Injection
<1>7. f \in Surjection(1 .. N, S)
  BY <1>5, <1>6, FS_Injection
<1>8. ToSet(f) = S
  BY <1>3, <1>4, <1>7 DEF Surjection, ToSet
<1> QED BY <1>4, <1>8 DEF f

LEMMA ThingsInASequence ==
    ASSUME NEW s, s \in Seq(ToSet(s))
    PROVE  Len(s) \in Nat /\ DOMAIN s = 1 .. Len(s) /\ IsFiniteSet(ToSet(s))
<1>1. Len(s) \in Nat /\ DOMAIN s = 1 .. Len(s)
  OBVIOUS
<1>2. IsFiniteSet(DOMAIN s)
  BY <1>1, PlacesAreFinite
<1> QED BY <1>1, <1>2, ImageIsFinite DEF ToSet

LEMMA ExamplesCandidates ==
    ASSUME NEW e, IsDelivered(e)
    PROVE  IsFiniteSet(CandidatesFor(e)) /\ \A c \in CandidatesFor(e) : IsCandidate(c)
<1> DEFINE said == {t \in ToSet(e.slots) : t.label # None /\ t.value # None}
           For(s) == [key |-> s.index, label |-> s.label,
                      value |-> ParseScalar("TEXT", s.value, s.uom),
                      decision |-> "COMMIT", authority |-> "ORGANIZER_EXAMPLE", evidence |-> {}]
           f == [s \in said |-> For(s)]
<1>1. IsFiniteSet(ToSet(e.slots))
  BY ThingsInASequence DEF IsDelivered
<1>2. IsFiniteSet(said)
  BY <1>1, FS_Subset
<1>3. CandidatesFor(e) = {For(s) : s \in said}
  BY Zenon DEF CandidatesFor
<1> HIDE DEF For, said
<1>4. CandidatesFor(e) = {f[s] : s \in DOMAIN f} /\ DOMAIN f = said
  BY <1>3
<1> HIDE DEF f
<1>5. IsFiniteSet(CandidatesFor(e))
  BY <1>2, <1>4, ImageIsFinite
<1> QED BY <1>5 DEF IsDelivered

\* What the examples with a record's part number say.
Own(key) == UNION {CandidatesFor(e) : e \in {x \in ToSet(profile.of) : x.record = key}}

LEMMA OwnCandidates ==
    ASSUME ProfileIsDerived, NEW key
    PROVE  IsFiniteSet(Own(key)) /\ \A c \in Own(key) : IsCandidate(c)
<1> DEFINE own == {x \in ToSet(profile.of) : x.record = key}
           f == [e \in own |-> CandidatesFor(e)]
           sets == {CandidatesFor(e) : e \in own}
<1>1. /\ profile.of \in Seq(ToSet(profile.of))
      /\ \A e \in ToSet(profile.of) : IsDelivered(e)
  BY DeliveryAssumption DEF ProfileIsDerived
<1>2. IsFiniteSet(ToSet(profile.of))
  BY <1>1, ThingsInASequence
<1>3. IsFiniteSet(own) /\ \A e \in own : IsDelivered(e)
  BY <1>1, <1>2, FS_Subset
<1>4. Own(key) = UNION sets
  BY DEF Own
<1>5. sets = {f[e] : e \in DOMAIN f} /\ DOMAIN f = own
  OBVIOUS
<1> HIDE DEF own, f
<1>6. \A T \in sets : IsFiniteSet(T) /\ \A c \in T : IsCandidate(c)
  BY <1>3, ExamplesCandidates
<1> HIDE DEF sets
<1>7. IsFiniteSet(sets)
  BY <1>3, <1>5, ImageIsFinite
<1>8. IsFiniteSet(UNION sets)
  BY <1>6, <1>7, FS_UNION
<1> QED BY <1>4, <1>6, <1>8

LEMMA CandidatesOfARecord ==
    ASSUME ProfileIsDerived, NEW key, NEW found \in Seq(Offers)
    PROVE  LET cs == Candidates(key, found)
           IN  /\ cs \in Seq(ToSet(cs)) /\ ToSet(cs) = Own(key) \cup ToSet(found)
               /\ \A c \in ToSet(cs) : IsCandidate(c)
<1> DEFINE first == SetToSeq(Own(key))
           cs == first \o found
<1>1. Candidates(key, found) = cs
  BY Zenon DEF Candidates, Own
<1>2. first \in Seq(Own(key)) /\ ToSet(first) = Own(key)
  BY OwnCandidates, SetAsSequence
<1>3. \A c \in Own(key) : IsCandidate(c)
  BY OwnCandidates
<1> HIDE DEF first
<1>4. /\ cs \in Seq(Own(key) \cup Offers)
      /\ DOMAIN cs = 1 .. Len(first) + Len(found)
      /\ Len(first) \in Nat /\ DOMAIN first = 1 .. Len(first)
      /\ Len(found) \in Nat /\ DOMAIN found = 1 .. Len(found)
      /\ \A n \in 1 .. Len(first) : cs[n] = first[n]
      /\ \A n \in 1 .. Len(found) : cs[Len(first) + n] = found[n]
  BY <1>2
<1> HIDE DEF cs
<1>5. \A n \in DOMAIN cs : n \in DOMAIN first \/ \E m \in DOMAIN found : n = Len(first) + m
  <2> SUFFICES ASSUME NEW n \in DOMAIN cs, n \notin 1 .. Len(first)
               PROVE  \E m \in 1 .. Len(found) : n = Len(first) + m
    BY <1>4
  <2>1. n - Len(first) \in 1 .. Len(found) /\ n = Len(first) + (n - Len(first))
    BY <1>4
  <2> QED BY <2>1
<1>6. /\ \A n \in DOMAIN first : n \in DOMAIN cs
      /\ \A m \in DOMAIN found : Len(first) + m \in DOMAIN cs
  BY <1>4
<1>7. ToSet(cs) = ToSet(first) \cup ToSet(found)
  BY <1>4, <1>5, <1>6 DEF ToSet
<1>8. cs \in Seq(ToSet(cs))
  BY <1>4, SequenceOfItsOwn
<1>9. \A c \in ToSet(found) : c \in Offers
  BY DEF ToSet
<1>10. \A c \in ToSet(cs) : IsCandidate(c)
  BY <1>2, <1>3, <1>7, <1>9, DeliveryAssumption
<1> QED BY <1>1, <1>2, <1>7, <1>8, <1>10

------------------------------------------------------------------------------
(* What is delivered does not depend on the order. *)

Delivered(slot, resolution) ==
    LET filled == /\ resolution.decision = "COMMIT" /\ resolution.candidate # None
                  /\ IsDeliveryEligible(resolution.candidate)
    IN  [index |-> slot.index, label |-> slot.label,
         value |-> IF filled THEN DeliveryValue(resolution.candidate.value) ELSE None,
         uom |-> IF filled THEN DeliveryUom(resolution.candidate.value) ELSE None]

LEMMA DeliveredSlots ==
    ASSUME NEW made, NEW cs, NEW key, NEW classpath
    PROVE  DeliverySlots(ResolveAttributeCandidates(made, cs, key, classpath)) =
              IF ~CanPopulateLabels(made, key, classpath) THEN << >>
              ELSE [n \in DOMAIN made.slots |-> Delivered(made.slots[n], Resolutions(made, cs)[n])]
<1> DEFINE mapping == ResolveAttributeCandidates(made, cs, key, classpath)
<1>1. /\ mapping.profile = made /\ mapping.record = key /\ mapping.classpath = classpath
      /\ mapping.resolutions = Resolutions(made, cs)
  BY MappingFields
<1> HIDE DEF mapping
<1>2. DeliverySlots(mapping) =
         IF ~CanPopulateLabels(mapping.profile, mapping.record, mapping.classpath) THEN << >>
         ELSE [n \in DOMAIN mapping.profile.slots |->
                  Delivered(mapping.profile.slots[n], mapping.resolutions[n])]
  BY Zenon DEF DeliverySlots, Delivered
<1>3. DeliverySlots(mapping) =
         IF ~CanPopulateLabels(made, key, classpath) THEN << >>
         ELSE [n \in DOMAIN made.slots |-> Delivered(made.slots[n], Resolutions(made, cs)[n])]
  BY <1>1, <1>2
<1> QED BY <1>3 DEF mapping

\* The same candidates, found in another order, fill every slot alike.
LEMMA SameCandidates ==
    ASSUME ProfileIsDerived, NEW key, NEW found \in Seq(Offers), NEW others \in Seq(Offers),
           ToSet(found) = ToSet(others), key # None
    PROVE  DeliverySlots(MappingOf(key, found)) = DeliverySlots(MappingOf(key, others))
<1> DEFINE cs == Candidates(key, found)
           ds == Candidates(key, others)
           made == profile.made
<1>1. /\ MappingOf(key, found) = ResolveAttributeCandidates(made, cs, key, None)
      /\ MappingOf(key, others) = ResolveAttributeCandidates(made, ds, key, None)
  BY Zenon DEF MappingOf
<1>2. /\ cs \in Seq(ToSet(cs)) /\ ds \in Seq(ToSet(ds))
      /\ ToSet(cs) = ToSet(ds) /\ \A c \in ToSet(cs) : IsCandidate(c)
  BY CandidatesOfARecord
<1> HIDE DEF cs, ds
<1>3. PICK N \in Nat : DOMAIN cs \subseteq 1 .. N /\ DOMAIN ds \subseteq 1 .. N
  <2>1. /\ Len(cs) \in Nat /\ DOMAIN cs = 1 .. Len(cs)
        /\ Len(ds) \in Nat /\ DOMAIN ds = 1 .. Len(ds)
    BY <1>2, ThingsInASequence
  <2>2. Len(cs) + Len(ds) \in Nat
    BY <2>1
  <2>3. 1 .. Len(cs) \subseteq 1 .. Len(cs) + Len(ds) /\ 1 .. Len(ds) \subseteq 1 .. Len(cs) + Len(ds)
    BY <2>1
  <2> QED BY <2>1, <2>2, <2>3
<1>4. ASSUME NEW n \in DOMAIN made.slots
      PROVE  Delivered(made.slots[n], Resolutions(made, cs)[n]) =
                Delivered(made.slots[n], Resolutions(made, ds)[n])
  <2> DEFINE slot == made.slots[n]
             group == Grouped(cs, slot)
             other == Grouped(ds, slot)
             one == ResolveSlot(slot, group)
             two == ResolveSlot(slot, other)
  <2>1. Resolutions(made, cs)[n] = one /\ Resolutions(made, ds)[n] = two
    BY DEF Resolutions
  <2>2. /\ DOMAIN group \in SUBSET (1 .. N) /\ DOMAIN other \in SUBSET (1 .. N)
        /\ ToSet(group) = ToSet(other) /\ \A c \in ToSet(group) : IsCandidate(c)
    <3> HIDE DEF slot
    <3>1. /\ DOMAIN group \subseteq DOMAIN cs /\ DOMAIN other \subseteq DOMAIN ds
          /\ ToSet(group) = {c \in ToSet(cs) : c.key = slot.key}
          /\ ToSet(other) = {c \in ToSet(ds) : c.key = slot.key}
      BY GroupOfASlot
    <3> HIDE DEF group, other
    <3> QED BY <1>2, <1>3, <3>1
  <2> HIDE DEF group, other, slot
  <2>3. /\ one.decision = "COMMIT" <=> two.decision = "COMMIT"
        /\ one.decision = "COMMIT" =>
              /\ IsDeliveryEligible(one.candidate) /\ IsDeliveryEligible(two.candidate)
              /\ one.candidate # None /\ two.candidate # None
              /\ one.candidate.value = two.candidate.value
    BY <2>2, GroupsFillAlike
  <2> HIDE DEF one, two
  <2>4. Delivered(slot, one) = Delivered(slot, two)
    BY <2>3 DEF Delivered
  <2> QED BY <2>1, <2>4 DEF slot
<1> HIDE DEF made
<1>5. /\ DeliverySlots(MappingOf(key, found)) =
            IF ~CanPopulateLabels(made, key, None) THEN << >>
            ELSE [n \in DOMAIN made.slots |-> Delivered(made.slots[n], Resolutions(made, cs)[n])]
      /\ DeliverySlots(MappingOf(key, others)) =
            IF ~CanPopulateLabels(made, key, None) THEN << >>
            ELSE [n \in DOMAIN made.slots |-> Delivered(made.slots[n], Resolutions(made, ds)[n])]
  BY <1>1, DeliveredSlots
<1> QED BY <1>4, <1>5

LEMMA OrderDoesNotMatter == Inv => OrderIsIrrelevant
<1> SUFFICES ASSUME Inv, NEW r \in ToSet(records), r.key # None,
                    NEW p \in Bijection(DOMAIN r.offered, DOMAIN r.offered)
             PROVE  DeliverySlots(MappingOf(r.key, [n \in DOMAIN p |-> r.offered[p[n]]])) =
                        DeliverySlots(MappingOf(r.key, r.offered))
  BY DEF OrderIsIrrelevant
<1> DEFINE found == r.offered
           others == [n \in DOMAIN p |-> found[p[n]]]
<1>1. Opened /\ RecordsAreSound
  <2>1. schema = None => ToSet(records) = {}
    BY DEF Inv, Unopened, ToSet
  <2> QED BY <2>1 DEF Inv, Opened
<1>2. ProfileIsDerived /\ found \in Seq(Offers)
  BY <1>1 DEF Opened, RecordsAreSound, IsMapped
<1>3. DOMAIN p = DOMAIN found /\ \A n \in DOMAIN p : p[n] \in DOMAIN found
  BY DEF Bijection, Injection
<1>4. \A m \in DOMAIN found : \E n \in DOMAIN p : p[n] = m
  BY <1>3 DEF Bijection, Surjection
<1>5. DOMAIN found = 1 .. Len(found) /\ Len(found) \in Nat /\ \A n \in DOMAIN found : found[n] \in Offers
  BY <1>2
<1> HIDE DEF found
<1>6. others \in Seq(Offers)
  BY <1>3, <1>5
<1>7. ToSet(others) = ToSet(found)
  BY <1>3, <1>4 DEF ToSet
<1> HIDE DEF others
<1>8. DeliverySlots(MappingOf(r.key, others)) = DeliverySlots(MappingOf(r.key, found))
  BY <1>2, <1>6, <1>7, SameCandidates
<1> QED BY <1>8 DEF others, found

\* Neither the order in which candidates are found nor what is reviewed while
\* the API runs shows in a cell or in an answer.
THEOREM ResultsDoNotDependOnOrder == Spec => []ResultsAreDeterministic
<1>1. Inv /\ AnswersInv => ResultsAreDeterministic
  BY OrderDoesNotMatter, AnswersDoAgree DEF ResultsAreDeterministic
<1> QED BY <1>1, Invariance, AnswersInvHolds, PTL

------------------------------------------------------------------------------
(* A value that is delivered. *)

\* What tells the values of candidates apart is what they say.
LEMMA CandidatesSay ==
    ASSUME NEW c, IsCandidate(c), c.value # None
    PROVE  Says(c.value) =
              <<c.value.kind, c.value.uom,
                IF c.value.kind = "ENUM" THEN CaseFold[c.value.means] ELSE c.value.means>>
<1> DEFINE v == c.value
<1>1. Parses(v.kind, v.raw) /\ v = Value(v.kind, v.raw, Reads[v.kind][v.raw], v.rawUom)
  BY Zenon DEF IsCandidate
<1> HIDE DEF v
<1>2. v.means = Reads[v.kind][v.raw].means
  <2>1. \A kind, raw, reading, rawUom : Value(kind, raw, reading, rawUom).means = reading.means
    BY DEF Value
  <2> QED BY <1>1, <2>1
<1>3. v.kind = "ENUM" => v.means \in DOMAIN CaseFold
  BY <1>1, <1>2, EveryMeaningFolds DEF Parses
<1>4. Says(v) = <<v.kind, v.uom, IF v.kind = "ENUM" THEN CaseFold[v.means] ELSE v.means>>
  BY <1>3 DEF Says
<1> QED BY <1>4 DEF v

\* An eligible candidate may vouch for its value.
LEMMA EligibleMayVouch ==
    ASSUME NEW c, IsCandidate(c), IsDeliveryEligible(c)
    PROVE  /\ c.decision = "COMMIT" /\ c.value # None
           /\ c.value.rawUom # None => c.value.rawUom \in DOMAIN UomAliases
           /\ \/ c.authority \in {"ORGANIZER_EXAMPLE", "HUMAN_APPROVED"}
              \/ /\ c.authority = "MANUFACTURER_EVIDENCE"
                 /\ \E e \in c.evidence : e.artifact # None /\ e.verified
<1> DEFINE v == c.value
<1>1. c.decision = "COMMIT" /\ v # None /\ UomIsResolved(v) /\ HasValueAuthority(c)
  BY DEF IsDeliveryEligible
<1>2. v = Value(v.kind, v.raw, Reads[v.kind][v.raw], v.rawUom)
  BY <1>1, Zenon DEF IsCandidate
<1> HIDE DEF v
<1>3. v.resolution = NormalizeUom(v.rawUom).resolution
  <2>1. \A kind, raw, reading, rawUom :
           Value(kind, raw, reading, rawUom).resolution = NormalizeUom(rawUom).resolution
    BY DEF Value
  <2> QED BY <1>2, <2>1
<1>4. v.rawUom # None => v.rawUom \in DOMAIN UomAliases
  BY <1>1, <1>3 DEF UomIsResolved, NormalizeUom
<1>5. \/ c.authority \in {"ORGANIZER_EXAMPLE", "HUMAN_APPROVED"}
      \/ /\ c.authority = "MANUFACTURER_EVIDENCE"
         /\ \E e \in c.evidence : e.artifact # None /\ e.verified
  BY <1>1 DEF HasValueAuthority, ValueAuthorities, LicensesManufacturerValue
<1> QED BY <1>1, <1>4, <1>5 DEF v

\* A slot with a value was filled from its own group, where no value contests it.
LEMMA FilledSlot ==
    ASSUME NEW slot, NEW cs, cs \in Seq(ToSet(cs)), \A c \in ToSet(cs) : IsCandidate(c),
           NEW resolution, resolution = ResolveSlot(slot, Grouped(cs, slot)),
           Delivered(slot, resolution).value # None
    PROVE  LET group == {c \in ToSet(cs) : c.key = slot.key}
           IN  /\ \E c \in group :
                     IsDeliveryEligible(c) /\ c.value.shown = Delivered(slot, resolution).value
               /\ \A c, d \in group : c.value # None /\ d.value # None =>
                     SemanticKey(c.value) = SemanticKey(d.value)
<1> DEFINE group == Grouped(cs, slot)
<1>1. /\ resolution.decision = "COMMIT" /\ IsDeliveryEligible(resolution.candidate)
      /\ Delivered(slot, resolution).value = resolution.candidate.value.shown
  BY DEF Delivered, DeliveryValue
<1>2. DOMAIN group \subseteq DOMAIN cs /\ ToSet(group) = {c \in ToSet(cs) : c.key = slot.key}
  BY GroupOfASlot
<1>3. Len(cs) \in Nat /\ DOMAIN cs = 1 .. Len(cs)
  BY ThingsInASequence
<1> HIDE DEF group
<1>4. DOMAIN group \in SUBSET (1 .. Len(cs)) /\ \A c \in ToSet(group) : IsCandidate(c)
  BY <1>2, <1>3
<1>5. IsFiniteSet(DOMAIN group)
  BY <1>3, <1>4, PlacesAreFinite
<1>6. resolution = ResolveSlot(slot, group)
  BY DEF group
<1>7. Objection(slot, group) = None /\ resolution.candidate \in EligibleOf(group)
  BY <1>1, <1>3, <1>4, <1>6, ResolvedSlot
<1>8. \A c, d \in ToSet(group) : c.value # None /\ d.value # None =>
         SemanticKey(c.value) = SemanticKey(d.value)
  BY <1>5, <1>7, NoObjection
<1>9. resolution.candidate \in ToSet(group)
  BY <1>7 DEF EligibleOf
<1> QED BY <1>1, <1>2, <1>8, <1>9

LEMMA ValuesAreUncontested == Inv => DeliveredValuesAreUncontested
<1> SUFFICES ASSUME Inv, NEW r \in ToSet(records), NEW n \in SlotIndices(schema),
                    r.cells[<<"ATTRIBUTE_VALUE", n>>] # None
             PROVE  LET value == r.cells[<<"ATTRIBUTE_VALUE", n>>]
                        valued == {c \in ToSet(Candidates(r.key, r.offered)) :
                                      c.key = n /\ c.value # None}
                    IN  /\ \E c \in valued :
                              /\ c.decision = "COMMIT" /\ c.value.shown = value
                              /\ c.value.rawUom # None => c.value.rawUom \in DOMAIN UomAliases
                              /\ \/ c.authority \in {"ORGANIZER_EXAMPLE", "HUMAN_APPROVED"}
                                 \/ /\ c.authority = "MANUFACTURER_EVIDENCE"
                                    /\ \E e \in c.evidence : e.artifact # None /\ e.verified
                        /\ \A c, d \in valued : Says(c.value) = Says(d.value)
  BY DEF DeliveredValuesAreUncontested
<1> DEFINE value == r.cells[<<"ATTRIBUTE_VALUE", n>>]
           cs == Candidates(r.key, r.offered)
           made == profile.made
           slots == DeliverySlots(MappingOf(r.key, r.offered))
           valued == {c \in ToSet(cs) : c.key = n /\ c.value # None}
<1>1. Opened /\ RecordsAreSound
  <2>1. schema = None => ToSet(records) = {}
    BY DEF Inv, Unopened, ToSet
  <2> QED BY <2>1 DEF Inv, Opened
<1>2. ProfileIsDerived /\ r.offered \in Seq(Offers) /\ r.key # None
  BY <1>1 DEF Opened, RecordsAreSound, IsMapped
<1>3. PICK p \in DOMAIN slots : slots[p].index = n /\ slots[p].value = value
  BY <1>1 DEF RecordsAreSound, IsMapped
<1>4. /\ cs \in Seq(ToSet(cs)) /\ \A c \in ToSet(cs) : IsCandidate(c)
  BY <1>2, CandidatesOfARecord
<1>5. MappingOf(r.key, r.offered) = ResolveAttributeCandidates(made, cs, r.key, None)
  BY <1>2, Zenon DEF MappingOf
<1>6. value # None
  OBVIOUS
<1> HIDE DEF cs, value, slots, made
<1>7. slots = IF ~CanPopulateLabels(made, r.key, None) THEN << >>
              ELSE [m \in DOMAIN made.slots |-> Delivered(made.slots[m], Resolutions(made, cs)[m])]
  BY <1>5, DeliveredSlots DEF slots
<1>8. p \in DOMAIN made.slots /\ slots[p] = Delivered(made.slots[p], Resolutions(made, cs)[p])
  BY <1>3, <1>7
<1> DEFINE slot == made.slots[p]
           resolution == Resolutions(made, cs)[p]
<1>9. resolution = ResolveSlot(slot, Grouped(cs, slot))
  BY <1>8 DEF Resolutions
<1>10. slot.key = n
  <2>1. slot.key = slot.index
    BY <1>2, <1>8, DerivedSlots DEF ProfileIsDerived, made
  <2>2. Delivered(slot, resolution).index = slot.index
    BY DEF Delivered
  <2> QED BY <1>3, <1>8, <2>1, <2>2
<1>11. Delivered(slot, resolution).value = value
  BY <1>3, <1>8
<1> HIDE DEF slot, resolution
<1>12. /\ \E c \in {x \in ToSet(cs) : x.key = n} : IsDeliveryEligible(c) /\ c.value.shown = value
       /\ \A c, d \in {x \in ToSet(cs) : x.key = n} : c.value # None /\ d.value # None =>
              SemanticKey(c.value) = SemanticKey(d.value)
  BY <1>4, <1>6, <1>9, <1>10, <1>11, FilledSlot
<1>13. \A c, d \in valued : Says(c.value) = Says(d.value)
  <2> SUFFICES ASSUME NEW c \in valued, NEW d \in valued PROVE Says(c.value) = Says(d.value)
    OBVIOUS
  <2>1. SemanticKey(c.value) = SemanticKey(d.value)
    BY <1>12
  <2>2. /\ Says(c.value) = <<c.value.kind, c.value.uom,
               IF c.value.kind = "ENUM" THEN CaseFold[c.value.means] ELSE c.value.means>>
        /\ Says(d.value) = <<d.value.kind, d.value.uom,
               IF d.value.kind = "ENUM" THEN CaseFold[d.value.means] ELSE d.value.means>>
    BY <1>4, CandidatesSay
  <2> QED BY <2>1, <2>2 DEF SemanticKey
<1>14. \E c \in valued :
          /\ c.decision = "COMMIT" /\ c.value.shown = value
          /\ c.value.rawUom # None => c.value.rawUom \in DOMAIN UomAliases
          /\ \/ c.authority \in {"ORGANIZER_EXAMPLE", "HUMAN_APPROVED"}
             \/ /\ c.authority = "MANUFACTURER_EVIDENCE"
                /\ \E e \in c.evidence : e.artifact # None /\ e.verified
  BY <1>4, <1>12, EligibleMayVouch
<1> QED BY <1>13, <1>14 DEF cs, value

\* A value is delivered when a committed candidate may vouch for it, and then
\* no other candidate has another value for the slot.
THEOREM ValuesAreVouchedFor == Spec => []DeliveredValuesAreUncontested
BY Invariance, ValuesAreUncontested, PTL

------------------------------------------------------------------------------
(* An example mapped through its own profile. *)

LEMMA CatalogFacts ==
    ASSUME ProfileIsDerived, NEW e \in ToSet(profile.of)
    PROVE  /\ IsExample(e) /\ IsDelivered(e)
           /\ Labels(e) = Labels(profile.of[1])
           /\ profile.made = DeriveProfile(profile.of)
<1>1. \E n \in DOMAIN profile.of : e = profile.of[n]
  BY DEF ToSet
<1>2. IsExample(e) /\ Labels(e) = Labels(profile.of[1])
  BY <1>1 DEF ProfileIsDerived, IsCatalog, SharesLabels
<1> QED BY <1>2, DeliveryAssumption DEF ProfileIsDerived

\* A slot that an example labels is one of the profile's.
LEMMA LabelledSlots ==
    ASSUME ProfileIsDerived, NEW e \in ToSet(profile.of),
           NEW s \in ToSet(e.slots), s.label # None
    PROVE  \E n \in DOMAIN profile.made.slots :
              LET slot == profile.made.slots[n]
              IN  slot.index = s.index /\ slot.key = s.index /\ slot.label = s.label
<1> DEFINE first == profile.of[1]
           slots == profile.made.slots
<1>1. PICK m \in DOMAIN e.slots : s = e.slots[m]
  BY DEF ToSet
<1>2. <<s.index, s.label>> \in Labels(e)
  BY <1>1 DEF Labels, Labelled
<1>3. <<s.index, s.label>> \in Labels(first)
  BY <1>2, CatalogFacts
<1>4. PICK n \in Labelled(first) : <<s.index, s.label>> = <<first.slots[n].index, first.slots[n].label>>
  BY <1>3 DEF Labels
<1>5. s.index = first.slots[n].index /\ s.label = first.slots[n].label
  BY <1>4
<1>6. /\ DOMAIN slots = Labelled(first)
      /\ \A x \in DOMAIN slots :
            /\ slots[x].index = first.slots[x].index /\ slots[x].key = first.slots[x].index
            /\ slots[x].label = first.slots[x].label
  <2>1. slots = DeriveProfile(profile.of).slots
    BY CatalogFacts
  <2> HIDE DEF slots
  <2> QED BY <2>1, DerivedSlots
<1> HIDE DEF first, slots
<1>7. n \in DOMAIN slots /\ slots[n].index = s.index /\ slots[n].key = s.index /\ slots[n].label = s.label
  BY <1>5, <1>6
<1> QED BY <1>7 DEF slots

\* No two slots of an example have one number.
LEMMA SlotsAreNumbered ==
    ASSUME NEW e, IsDelivered(e), NEW s \in ToSet(e.slots), NEW t \in ToSet(e.slots),
           s.index = t.index
    PROVE  s = t
<1>1. PICK m \in DOMAIN e.slots, n \in DOMAIN e.slots : s = e.slots[m] /\ t = e.slots[n]
  BY DEF ToSet
<1>2. DOMAIN e.slots \subseteq Nat
  <2>1. e.slots \in Seq(ToSet(e.slots))
    BY DEF IsDelivered
  <2> QED BY <2>1
<1>3. /\ \A i \in DOMAIN e.slots : e.slots[i].index \in Nat
      /\ \A i, j \in DOMAIN e.slots : i < j => e.slots[i].index < e.slots[j].index
  BY DEF IsDelivered, Increasing
<1>4. m \in Nat /\ n \in Nat /\ e.slots[m].index = e.slots[n].index /\ e.slots[m].index \in Nat
  BY <1>1, <1>2, <1>3
<1>5. ~(m < n) /\ ~(n < m)
  BY <1>3, <1>4
<1>6. m = n
  BY <1>4, <1>5
<1> QED BY <1>1, <1>6

\* What an example says of a slot, as a candidate; no other has its number.
LEMMA OneCandidateASlot ==
    ASSUME NEW e, IsDelivered(e), NEW s \in ToSet(e.slots), s.label # None, s.value # None
    PROVE  \E c :
              /\ {d \in CandidatesFor(e) : d.key = s.index} = {c}
              /\ IsCandidate(c) /\ c.decision = "COMMIT" /\ c.label = s.label
              /\ c.authority = "ORGANIZER_EXAMPLE"
              /\ c.value # None /\ c.value = Value("TEXT", s.value, Reads["TEXT"][s.value], s.uom)
<1> DEFINE said == {t \in ToSet(e.slots) : t.label # None /\ t.value # None}
           For(t) == [key |-> t.index, label |-> t.label,
                      value |-> ParseScalar("TEXT", t.value, t.uom),
                      decision |-> "COMMIT", authority |-> "ORGANIZER_EXAMPLE", evidence |-> {}]
           c == For(s)
<1>1. CandidatesFor(e) = {For(t) : t \in said}
  BY Zenon DEF CandidatesFor
<1>2. \A t : For(t).key = t.index
  OBVIOUS
<1>3. /\ c.decision = "COMMIT" /\ c.value = ParseScalar("TEXT", s.value, s.uom)
      /\ c.label = s.label /\ c.authority = "ORGANIZER_EXAMPLE"
  OBVIOUS
<1>4. s \in said
  OBVIOUS
<1>5. \A t \in said : t \in ToSet(e.slots)
  OBVIOUS
<1> HIDE DEF For, said
<1>6. {d \in CandidatesFor(e) : d.key = s.index} = {c}
  <2>1. c \in CandidatesFor(e) /\ c.key = s.index
    BY <1>1, <1>2, <1>4
  <2>2. \A d \in CandidatesFor(e) : d.key = s.index => d = c
    <3> SUFFICES ASSUME NEW t \in said, For(t).key = s.index PROVE For(t) = c
      BY <1>1
    <3>1. t.index = s.index /\ t \in ToSet(e.slots)
      BY <1>2, <1>5
    <3>2. t = s
      BY <3>1, SlotsAreNumbered
    <3> QED BY <3>2
  <2> HIDE DEF c
  <2> QED BY <2>1, <2>2
<1> HIDE DEF c
<1>7. IsCandidate(c)
  <2>1. c \in CandidatesFor(e)
    BY <1>6
  <2> QED BY <2>1 DEF IsDelivered
<1>8. c.value # None
  BY <1>3, <1>7, Zenon DEF IsCandidate
<1>9. c.value = Value("TEXT", s.value, Reads["TEXT"][s.value], s.uom)
  BY <1>3, <1>8 DEF ParseScalar
<1> QED BY <1>3, <1>6, <1>7, <1>8, <1>9

\* A slot of which the example says nothing has no candidate.
LEMMA NothingSaid ==
    ASSUME NEW e, IsDelivered(e), NEW s \in ToSet(e.slots), s.value = None
    PROVE  {d \in CandidatesFor(e) : d.key = s.index} = {}
<1> DEFINE said == {t \in ToSet(e.slots) : t.label # None /\ t.value # None}
           For(t) == [key |-> t.index, label |-> t.label,
                      value |-> ParseScalar("TEXT", t.value, t.uom),
                      decision |-> "COMMIT", authority |-> "ORGANIZER_EXAMPLE", evidence |-> {}]
<1>1. CandidatesFor(e) = {For(t) : t \in said}
  BY Zenon DEF CandidatesFor
<1>2. \A t : For(t).key = t.index
  OBVIOUS
<1>3. \A t \in said : t \in ToSet(e.slots) /\ t.value # None
  OBVIOUS
<1> HIDE DEF For, said
<1>4. \A t \in said : For(t).key # s.index
  <2> SUFFICES ASSUME NEW t \in said, For(t).key = s.index PROVE FALSE
    OBVIOUS
  <2>1. t.index = s.index /\ t \in ToSet(e.slots) /\ t.value # None
    BY <1>2, <1>3
  <2> QED BY <2>1, SlotsAreNumbered
<1> QED BY <1>1, <1>4

\* The unit a derived slot expects.
LEMMA DerivedUnit ==
    ASSUME NEW examples
    PROVE  LET slots == DeriveProfile(examples).slots
           IN  \A n \in DOMAIN slots :
                  /\ slots[n].kind = None
                  /\ slots[n].uom = ExpectedUom(examples, slots[n].index)
<1> DEFINE observed == examples[1].slots
           labelled == Labelled(examples[1])
           Slot(n) == [index |-> observed[n].index, key |-> observed[n].index,
                       label |-> observed[n].label, kind |-> None,
                       uom |-> ExpectedUom(examples, observed[n].index)]
           classpaths == {examples[n].classpath : n \in DOMAIN examples} \ {None}
           classpath == IF Cardinality(classpaths) = 1
                        THEN CHOOSE c \in classpaths : TRUE ELSE None
           numbers == {examples[n].record : n \in DOMAIN examples}
<1>1. DeriveProfile(examples) =
         [slots |-> [n \in labelled |-> Slot(n)], authority |-> "ORGANIZER_EXAMPLE",
          records |-> numbers, classpath |-> classpath]
  BY Zenon DEF DeriveProfile
<1>2. \A n : /\ Slot(n).index = observed[n].index /\ Slot(n).kind = None
             /\ Slot(n).uom = ExpectedUom(examples, observed[n].index)
  OBVIOUS
<1> HIDE DEF Slot, labelled, numbers, classpath, observed
<1>3. DeriveProfile(examples).slots = [n \in labelled |-> Slot(n)]
  BY <1>1
<1> QED BY <1>2, <1>3

\* All examples have a slot that one of them labels.
LEMMA EveryExampleHasTheSlot ==
    ASSUME ProfileIsDerived, NEW e \in ToSet(profile.of), NEW s \in ToSet(e.slots), s.label # None,
           NEW n \in DOMAIN profile.of
    PROVE  SlotAt(profile.of[n], s.index) \in ToSet(profile.of[n].slots)
           /\ SlotAt(profile.of[n], s.index).index = s.index
<1> DEFINE other == profile.of[n]
<1>1. other \in ToSet(profile.of)
  BY DEF ToSet
<1>2. <<s.index, s.label>> \in Labels(e)
  BY DEF Labels, Labelled, ToSet
<1>3. Labels(e) = Labels(other)
  BY <1>1, CatalogFacts
<1>4. PICK m \in Labelled(other) : <<s.index, s.label>> = <<other.slots[m].index, other.slots[m].label>>
  BY <1>2, <1>3 DEF Labels
<1>5. other.slots[m] \in ToSet(other.slots) /\ other.slots[m].index = s.index
  BY <1>4 DEF Labelled, ToSet
<1>6. \E t \in ToSet(other.slots) : t.index = s.index
  BY <1>5
<1> HIDE DEF other
<1>7. SlotAt(other, s.index) \in ToSet(other.slots) /\ SlotAt(other, s.index).index = s.index
  BY <1>6, Zenon DEF SlotAt
<1> QED BY <1>7 DEF other

\* Every example with a value for the slot spells its unit as this one does.
IsShared(examples, slot) ==
    \A e \in ToSet(examples) : \A s \in ToSet(e.slots) :
        s.index = slot.index /\ s.value # None => s.uom = slot.uom

\* A unit is expected of a slot's values when all that are observed share it.
LEMMA SharedUnit ==
    ASSUME ProfileIsDerived, NEW e \in ToSet(profile.of), NEW s \in ToSet(e.slots),
           s.label # None, s.value # None
    PROVE  ExpectedUom(profile.of, s.index) = IF IsShared(profile.of, s) THEN s.uom ELSE None
<1> DEFINE examples == profile.of
           At(n) == SlotAt(examples[n], s.index)
           observed == {At(n) : n \in DOMAIN examples}
           valued == {o \in observed : o.value # None}
           units == {t.uom : t \in valued}
<1>1. ExpectedUom(examples, s.index) =
         IF Cardinality(units) = 1 THEN CHOOSE u \in units : TRUE ELSE None
  BY Zenon DEF ExpectedUom
<1>2. \A n \in DOMAIN examples : At(n) \in ToSet(examples[n].slots) /\ At(n).index = s.index
  BY EveryExampleHasTheSlot
<1>3. \A n \in DOMAIN examples : \A t \in ToSet(examples[n].slots) : t.index = s.index => t = At(n)
  <2> SUFFICES ASSUME NEW n \in DOMAIN examples, NEW t \in ToSet(examples[n].slots), t.index = s.index
               PROVE  t = At(n)
    OBVIOUS
  <2>1. examples[n] \in ToSet(examples)
    BY DEF ToSet
  <2>2. IsDelivered(examples[n])
    BY <2>1, CatalogFacts
  <2> QED BY <1>2, <2>2, SlotsAreNumbered
<1> HIDE DEF At
<1>4. valued = {t \in UNION {ToSet(x.slots) : x \in ToSet(examples)} :
                   t.index = s.index /\ t.value # None}
  BY <1>2, <1>3 DEF ToSet
<1>5. s \in valued
  BY <1>4
<1>6. s.uom \in units
  BY <1>5
<1>7. IsShared(examples, s) <=> \A t \in valued : t.uom = s.uom
  BY <1>4 DEF IsShared
<1>8. IsFiniteSet(units)
  <2>1. IsFiniteSet(DOMAIN examples)
    <3>1. examples \in Seq(ToSet(examples))
      BY DeliveryAssumption DEF ProfileIsDerived
    <3>2. Len(examples) \in Nat /\ DOMAIN examples = 1 .. Len(examples)
      BY <3>1, ThingsInASequence
    <3> QED BY <3>2, PlacesAreFinite
  <2>2. IsFiniteSet(observed)
    <3> DEFINE f == [n \in DOMAIN examples |-> At(n)]
    <3>1. observed = {f[n] : n \in DOMAIN f} /\ DOMAIN f = DOMAIN examples
      OBVIOUS
    <3> HIDE DEF f, observed, examples
    <3> QED BY <2>1, <3>1, ImageIsFinite
  <2> HIDE DEF observed
  <2>3. IsFiniteSet(valued)
    BY <2>2, FS_Subset
  <2> HIDE DEF valued
  <2> DEFINE f == [t \in valued |-> t.uom]
  <2>4. units = {f[t] : t \in DOMAIN f} /\ DOMAIN f = valued
    OBVIOUS
  <2> HIDE DEF f, units
  <2> QED BY <2>3, <2>4, ImageIsFinite
<1>9. CASE IsShared(examples, s)
  <2>1. units = {s.uom}
    BY <1>5, <1>7, <1>9
  <2> HIDE DEF units
  <2>2. Cardinality(units) = 1
    BY <2>1, FS_Singleton
  <2>3. (CHOOSE u \in units : TRUE) = s.uom
    BY <2>1
  <2> QED BY <1>1, <1>9, <2>2, <2>3
<1>10. CASE ~IsShared(examples, s)
  <2>1. PICK t \in valued : t.uom # s.uom
    BY <1>7, <1>10
  <2>2. t.uom \in units
    OBVIOUS
  <2> HIDE DEF units, valued
  <2>3. Cardinality(units) # 1
    <3> SUFFICES ASSUME Cardinality(units) = 1 PROVE FALSE
      OBVIOUS
    <3>1. ~(Cardinality(units) > 1)
      OBVIOUS
    <3> QED BY <1>6, <1>8, <2>1, <2>2, <3>1, AtMostOne
  <2> QED BY <1>1, <1>10, <2>3
<1> QED BY <1>9, <1>10

\* What of a value's unit stands against delivering it in a slot.
StandsAgainst(slot, value) ==
    \/ slot.uom # None /\ value.uom # slot.uom
    \/ ~UomIsResolved(value)

\* A unit is refused when the slot expects another, or nobody reviewed it.
LEMMA RefusedUnits ==
    ASSUME NEW slot, NEW s, NEW value, NEW examples,
           value = Value("TEXT", s.value, Reads["TEXT"][s.value], s.uom),
           slot.uom = IF IsShared(examples, s) THEN s.uom ELSE None
    PROVE  /\ UnitIsRefused(examples, s) <=> StandsAgainst(slot, value)
           /\ value.shown = Reads["TEXT"][s.value].shown
           /\ ~UnitIsRefused(examples, s) =>
                 value.uom = IF s.uom # None THEN UomAliases[s.uom] ELSE None
<1> DEFINE unit == NormalizeUom(s.uom)
<1>1. value.uom = unit.uom /\ value.resolution = unit.resolution
      /\ value.shown = Reads["TEXT"][s.value].shown
  <2>1. \A kind, raw, reading, rawUom :
           LET v == Value(kind, raw, reading, rawUom)
           IN  /\ v.uom = NormalizeUom(rawUom).uom /\ v.resolution = NormalizeUom(rawUom).resolution
               /\ v.shown = reading.shown
    BY DEF Value
  <2> QED BY <2>1
<1>2. UnitIsRefused(examples, s) <=>
         /\ s.uom # None
         /\ \/ s.uom \notin DOMAIN UomAliases
            \/ UomAliases[s.uom] # s.uom /\ IsShared(examples, s)
  BY Zenon DEF UnitIsRefused, IsShared
<1>3. CASE s.uom = None
  <2>1. unit.uom = None /\ unit.resolution = "NONE"
    BY <1>3 DEF NormalizeUom
  <2> HIDE DEF unit
  <2> QED BY <1>1, <1>2, <1>3, <2>1 DEF UomIsResolved, StandsAgainst
<1>4. CASE s.uom # None /\ s.uom \notin DOMAIN UomAliases
  <2>1. unit.resolution = "UNRESOLVED"
    BY <1>4 DEF NormalizeUom
  <2> HIDE DEF unit
  <2> QED BY <1>1, <1>2, <1>4, <2>1 DEF UomIsResolved, StandsAgainst
<1>5. CASE s.uom # None /\ s.uom \in DOMAIN UomAliases
  <2>1. unit.uom = UomAliases[s.uom] /\ unit.resolution \in {"EXACT", "ALIAS"}
    BY <1>5 DEF NormalizeUom
  <2> HIDE DEF unit
  <2>2. UomIsResolved(value)
    BY <1>1, <2>1 DEF UomIsResolved
  <2> QED BY <1>1, <1>2, <1>5, <2>1, <2>2 DEF StandsAgainst
<1> QED BY <1>3, <1>4, <1>5

\* An example's candidate, alone in its slot, is delivered unless its unit stands
\* against it; then a person is asked.
LEMMA AloneInItsSlot ==
    ASSUME NEW slot, NEW cs, cs \in Seq(ToSet(cs)), NEW c, IsCandidate(c), c.decision = "COMMIT",
           c.label = slot.label, c.authority = "ORGANIZER_EXAMPLE", c.value # None,
           slot.kind = None, {d \in ToSet(cs) : d.key = slot.key} = {c},
           NEW resolution, resolution = ResolveSlot(slot, Grouped(cs, slot))
    PROVE  /\ resolution.decision = "REVIEW" <=> StandsAgainst(slot, c.value)
           /\ Delivered(slot, resolution) =
                 [index |-> slot.index, label |-> slot.label,
                  value |-> IF StandsAgainst(slot, c.value) THEN None ELSE c.value.shown,
                  uom |-> IF StandsAgainst(slot, c.value) THEN None ELSE c.value.uom]
<1> DEFINE group == Grouped(cs, slot)
           objection == Objection(slot, group)
<1>1. DOMAIN group \subseteq DOMAIN cs /\ ToSet(group) = {c}
  BY GroupOfASlot
<1>2. Len(cs) \in Nat /\ DOMAIN cs = 1 .. Len(cs)
  BY ThingsInASequence
<1>3. resolution = ResolveSlot(slot, group)
  OBVIOUS
<1>4. objection = None <=> ~(slot.uom # None /\ c.value.uom # slot.uom)
  <2> DEFINE values == {d.value : d \in ToSet(group)} \ {None}
             keys == {SemanticKey(v) : v \in values}
  <2>1. values = {c.value}
    BY <1>1
  <2>2. objection =
           IF \E d \in ToSet(group) : d.label # slot.label THEN "LABEL_MISMATCH"
           ELSE IF slot.kind # None /\ \E v \in values : v.kind # slot.kind
                THEN "VALUE_KIND_MISMATCH"
           ELSE IF slot.uom # None /\ \E v \in values : v.uom # slot.uom THEN "UOM_MISMATCH"
           ELSE IF Cardinality(keys) > 1 THEN "CONFLICTING_VALUES" ELSE None
    BY Zenon DEF Objection
  <2> HIDE DEF values, objection, group
  <2>3. keys = {SemanticKey(c.value)}
    BY <2>1
  <2> HIDE DEF keys
  <2>4. ~(Cardinality(keys) > 1)
    <3>1. Cardinality(keys) = 1
      BY <2>3, FS_Singleton
    <3> QED BY <3>1
  <2>5. objection = IF slot.uom # None /\ c.value.uom # slot.uom THEN "UOM_MISMATCH" ELSE None
    BY <1>1, <2>1, <2>2, <2>4
  <2> QED BY <2>5, NoneIsNoObjection
<1> HIDE DEF group, objection
<1>5. DOMAIN group \in SUBSET (1 .. Len(cs)) /\ \A d \in ToSet(group) : IsCandidate(d)
  BY <1>1, <1>2
<1>6. IsDeliveryEligible(c) <=> UomIsResolved(c.value)
  <2>1. HasValueAuthority(c)
    BY DEF HasValueAuthority, ValueAuthorities
  <2> QED BY <2>1 DEF IsDeliveryEligible
<1>7. EligibleOf(group) = IF UomIsResolved(c.value) THEN {c} ELSE {}
  BY <1>1, <1>6 DEF EligibleOf
<1>8. /\ resolution.decision = "COMMIT" <=> objection = None /\ EligibleOf(group) # {}
      /\ resolution.decision = "COMMIT" => resolution.candidate \in EligibleOf(group)
      /\ resolution.decision = "REVIEW" <=>
            /\ ToSet(group) # {}
            /\ \/ objection # None
               \/ /\ EligibleOf(group) = {}
                  /\ \E d \in ToSet(group) : d.decision \in {"REVIEW", "COMMIT"}
  BY <1>2, <1>3, <1>5, ResolvedSlot DEF objection
<1>9. c # None
  BY Zenon DEF IsCandidate
<1>10. CASE StandsAgainst(slot, c.value)
  <2>1. resolution.decision = "REVIEW" /\ resolution.decision # "COMMIT"
    BY <1>1, <1>4, <1>7, <1>8, <1>10 DEF StandsAgainst
  <2> QED BY <1>10, <2>1 DEF Delivered
<1>11. CASE ~StandsAgainst(slot, c.value)
  <2>1. resolution.decision = "COMMIT" /\ resolution.candidate = c /\ IsDeliveryEligible(c)
    BY <1>4, <1>6, <1>7, <1>8, <1>11 DEF StandsAgainst
  <2> QED BY <1>9, <1>11, <2>1 DEF Delivered, DeliveryValue, DeliveryUom
<1> QED BY <1>10, <1>11

\* A slot without a candidate keeps its label and asks nobody.
LEMMA EmptySlot ==
    ASSUME NEW slot, NEW cs, {d \in ToSet(cs) : d.key = slot.key} = {},
           NEW resolution, resolution = ResolveSlot(slot, Grouped(cs, slot))
    PROVE  /\ resolution.decision # "REVIEW"
           /\ Delivered(slot, resolution) =
                 [index |-> slot.index, label |-> slot.label, value |-> None, uom |-> None]
<1>1. ToSet(Grouped(cs, slot)) = {}
  BY GroupOfASlot
<1>2. DOMAIN Grouped(cs, slot) = {}
  BY <1>1 DEF ToSet
<1>3. resolution = Resolution("WITHHOLD", "NO_CANDIDATE", None)
  BY <1>2, Zenon DEF ResolveSlot
<1>4. resolution.decision = "WITHHOLD"
  BY <1>3 DEF Resolution
<1> QED BY <1>4 DEF Delivered

\* What a profile's slot receives from one of the examples it was derived from.
LEMMA SlotComesBack ==
    ASSUME ProfileIsDerived, NEW e \in ToSet(profile.of),
           NEW s \in ToSet(e.slots), s.label # None,
           NEW n \in DOMAIN profile.made.slots,
           profile.made.slots[n].index = s.index, profile.made.slots[n].label = s.label,
           NEW cs, cs \in Seq(ToSet(cs)), ToSet(cs) = CandidatesFor(e),
           NEW resolution,
           resolution = ResolveSlot(profile.made.slots[n], Grouped(cs, profile.made.slots[n]))
    PROVE  /\ Delivered(profile.made.slots[n], resolution) = ComesBackAs(profile.of, s)
           /\ resolution.decision = "REVIEW" <=> s.value # None /\ UnitIsRefused(profile.of, s)
<1> DEFINE slot == profile.made.slots[n]
<1>1. IsDelivered(e) /\ profile.made = DeriveProfile(profile.of)
  BY CatalogFacts
<1>2. slot.key = s.index
  BY <1>1, DerivedSlots
<1>3. slot.kind = None /\ slot.uom = ExpectedUom(profile.of, s.index)
  BY <1>1, DerivedUnit
<1>4. slot.index = s.index /\ slot.label = s.label
  OBVIOUS
<1>5. resolution = ResolveSlot(slot, Grouped(cs, slot))
  OBVIOUS
<1> HIDE DEF slot
<1>6. CASE s.value = None
  <2>1. {d \in ToSet(cs) : d.key = slot.key} = {}
    BY <1>1, <1>2, <1>6, NothingSaid
  <2>2. /\ resolution.decision # "REVIEW"
        /\ Delivered(slot, resolution) =
              [index |-> slot.index, label |-> slot.label, value |-> None, uom |-> None]
    BY <1>5, <2>1, EmptySlot
  <2> QED BY <1>4, <1>6, <2>2 DEF ComesBackAs, slot
<1>7. CASE s.value # None
  <2>1. PICK c : /\ {d \in CandidatesFor(e) : d.key = s.index} = {c}
                 /\ IsCandidate(c) /\ c.decision = "COMMIT" /\ c.label = s.label
                 /\ c.authority = "ORGANIZER_EXAMPLE" /\ c.value # None
                 /\ c.value = Value("TEXT", s.value, Reads["TEXT"][s.value], s.uom)
    BY <1>1, <1>7, OneCandidateASlot
  <2> DEFINE refused == StandsAgainst(slot, c.value)
             unit == UnitIsRefused(profile.of, s)
  <2>2. slot.uom = IF IsShared(profile.of, s) THEN s.uom ELSE None
    BY <1>3, <1>7, SharedUnit
  <2>3. /\ unit <=> refused
        /\ c.value.shown = Reads["TEXT"][s.value].shown
        /\ ~unit => c.value.uom = IF s.uom # None THEN UomAliases[s.uom] ELSE None
    BY <2>1, <2>2, RefusedUnits
  <2>4. {d \in ToSet(cs) : d.key = slot.key} = {c}
    BY <1>2, <2>1
  <2>5. c.label = slot.label
    BY <1>4, <2>1
  <2>6. /\ resolution.decision = "REVIEW" <=> refused
        /\ Delivered(slot, resolution) =
              [index |-> slot.index, label |-> slot.label,
               value |-> IF refused THEN None ELSE c.value.shown,
               uom |-> IF refused THEN None ELSE c.value.uom]
    BY <1>3, <1>5, <2>1, <2>4, <2>5, AloneInItsSlot
  <2>8. ComesBackAs(profile.of, s) =
           [index |-> s.index, label |-> s.label,
            value |-> IF ~unit THEN Reads["TEXT"][s.value].shown ELSE None,
            uom |-> IF ~unit /\ s.uom # None THEN UomAliases[s.uom] ELSE None]
    BY <1>7 DEF ComesBackAs
  <2> HIDE DEF unit, refused
  <2>9. Delivered(slot, resolution) = ComesBackAs(profile.of, s)
    <3>1. CASE unit
      BY <1>4, <2>3, <2>6, <2>8, <3>1
    <3>2. CASE ~unit
      BY <1>4, <2>3, <2>6, <2>8, <3>2
    <3> QED BY <3>1, <3>2
  <2>10. resolution.decision = "REVIEW" <=> s.value # None /\ UnitIsRefused(profile.of, s)
    BY <1>7, <2>3, <2>6 DEF unit
  <2> QED BY <2>9, <2>10 DEF slot
<1> QED BY <1>6, <1>7

\* A profile's slot is one that every example labels.
LEMMA SlotsOfAProfile ==
    ASSUME ProfileIsDerived, NEW e \in ToSet(profile.of), NEW n \in DOMAIN profile.made.slots
    PROVE  \E s \in ToSet(e.slots) :
              /\ s.label # None
              /\ profile.made.slots[n].index = s.index /\ profile.made.slots[n].label = s.label
<1> DEFINE first == profile.of[1]
<1>1. /\ n \in Labelled(first) /\ profile.made.slots[n].index = first.slots[n].index
      /\ profile.made.slots[n].label = first.slots[n].label
  <2> DEFINE slots == profile.made.slots
  <2>1. slots = DeriveProfile(profile.of).slots
    BY CatalogFacts
  <2>2. n \in DOMAIN slots
    OBVIOUS
  <2> HIDE DEF slots
  <2>3. /\ n \in Labelled(first) /\ slots[n].index = first.slots[n].index
        /\ slots[n].label = first.slots[n].label
    BY <2>1, <2>2, DerivedSlots
  <2> QED BY <2>3 DEF slots
<1>2. <<first.slots[n].index, first.slots[n].label>> \in Labels(e)
  BY <1>1, CatalogFacts DEF Labels
<1>3. PICK m \in Labelled(e) :
         <<e.slots[m].index, e.slots[m].label>> = <<first.slots[n].index, first.slots[n].label>>
  BY <1>2 DEF Labels
<1>4. e.slots[m] \in ToSet(e.slots) /\ e.slots[m].label # None
  BY <1>3 DEF Labelled, ToSet
<1> QED BY <1>1, <1>3, <1>4

LEMMA ExampleRoundTrips ==
    ASSUME ProfileIsDerived, NEW e \in ToSet(profile.of)
    PROVE  LET mapping == MapOrganizerAttributeExample(e, profile.made)
           IN  /\ MatchesProfile(e, profile.made)
               /\ ToSet(DeliverySlots(mapping)) =
                     {ComesBackAs(profile.of, s) : s \in {t \in ToSet(e.slots) : t.label # None}}
               /\ mapping.decision =
                     IF \E s \in ToSet(e.slots) : s.value # None /\ UnitIsRefused(profile.of, s)
                     THEN "REVIEW" ELSE "COMMIT"
<1> DEFINE made == profile.made
           cs == SetToSeq(CandidatesFor(e))
           mapping == MapOrganizerAttributeExample(e, made)
           resolutions == Resolutions(made, cs)
<1>1. IsExample(e) /\ IsDelivered(e) /\ e.record # None
  BY CatalogFacts DEF IsExample
<1>2. MatchesProfile(e, made)
  <2>1. \A n \in DOMAIN e.slots : e.slots[n] \in ToSet(e.slots)
    BY DEF ToSet
  <2>2. \A n \in DOMAIN e.slots : e.slots[n].label # None =>
           \E m \in DOMAIN made.slots :
               made.slots[m].index = e.slots[n].index /\ made.slots[m].label = e.slots[n].label
    BY <2>1, LabelledSlots
  <2> QED BY <2>2 DEF MatchesProfile, ToSet
<1>3. CanPopulateLabels(made, e.record, e.classpath)
  <2>1. made.authority = "ORGANIZER_EXAMPLE" /\ e.record \in made.records
    BY ProfileIsOfItsExamples
  <2> QED BY <1>1, <2>1 DEF CanPopulateLabels, LabelAuthorities
<1>4. cs \in Seq(ToSet(cs)) /\ ToSet(cs) = CandidatesFor(e)
  BY <1>1, ExamplesCandidates, SetAsSequence
<1>5. mapping = ResolveAttributeCandidates(made, cs, e.record, e.classpath)
  BY Zenon DEF MapOrganizerAttributeExample
<1> HIDE DEF cs, mapping
<1>6. \A n \in DOMAIN made.slots : \A s \in ToSet(e.slots) :
         s.label # None /\ made.slots[n].index = s.index /\ made.slots[n].label = s.label =>
            /\ Delivered(made.slots[n], resolutions[n]) = ComesBackAs(profile.of, s)
            /\ resolutions[n].decision = "REVIEW" <=> s.value # None /\ UnitIsRefused(profile.of, s)
  <2> SUFFICES ASSUME NEW n \in DOMAIN made.slots, NEW s \in ToSet(e.slots), s.label # None,
                      made.slots[n].index = s.index, made.slots[n].label = s.label
               PROVE  /\ Delivered(made.slots[n], resolutions[n]) = ComesBackAs(profile.of, s)
                      /\ resolutions[n].decision = "REVIEW" <=>
                            s.value # None /\ UnitIsRefused(profile.of, s)
    OBVIOUS
  <2>1. PICK resolution : resolution = resolutions[n]
    OBVIOUS
  <2>2. resolution = ResolveSlot(made.slots[n], Grouped(cs, made.slots[n]))
    BY <2>1 DEF Resolutions
  <2>3. /\ Delivered(made.slots[n], resolution) = ComesBackAs(profile.of, s)
        /\ resolution.decision = "REVIEW" <=> s.value # None /\ UnitIsRefused(profile.of, s)
    BY <1>4, <2>2, SlotComesBack
  <2> QED BY <2>1, <2>3
<1>7. \A n \in DOMAIN made.slots : \E s \in ToSet(e.slots) :
         s.label # None /\ made.slots[n].index = s.index /\ made.slots[n].label = s.label
  BY SlotsOfAProfile
<1>8. \A s \in ToSet(e.slots) : s.label # None =>
         \E n \in DOMAIN made.slots : made.slots[n].index = s.index /\ made.slots[n].label = s.label
  BY LabelledSlots
<1>9. \A s \in ToSet(e.slots) : s.value # None => s.label # None
  BY <1>1 DEF IsExample, ToSet
<1>10. /\ mapping.decision = MappingDecision(made, e.record, e.classpath, resolutions)
       /\ DeliverySlots(mapping) =
             [n \in DOMAIN made.slots |-> Delivered(made.slots[n], resolutions[n])]
       /\ DOMAIN resolutions = DOMAIN made.slots
  <2>1. mapping.decision = MappingDecision(made, e.record, e.classpath, resolutions)
    BY <1>5, MappingFields
  <2>2. DeliverySlots(mapping) =
           IF ~CanPopulateLabels(made, e.record, e.classpath) THEN << >>
           ELSE [n \in DOMAIN made.slots |-> Delivered(made.slots[n], resolutions[n])]
    BY <1>5, DeliveredSlots
  <2>3. DOMAIN resolutions = DOMAIN made.slots
    BY DEF Resolutions
  <2> QED BY <1>3, <2>1, <2>2, <2>3
<1> HIDE DEF made, resolutions
<1>11. ToSet(DeliverySlots(mapping)) =
          {ComesBackAs(profile.of, s) : s \in {t \in ToSet(e.slots) : t.label # None}}
  <2>1. ToSet(DeliverySlots(mapping)) =
           {Delivered(made.slots[n], resolutions[n]) : n \in DOMAIN made.slots}
    BY <1>10 DEF ToSet
  <2> QED BY <1>6, <1>7, <1>8, <2>1
<1>12. (\E n \in DOMAIN resolutions : resolutions[n].decision = "REVIEW") <=>
          \E s \in ToSet(e.slots) : s.value # None /\ UnitIsRefused(profile.of, s)
  BY <1>6, <1>7, <1>8, <1>9, <1>10
<1>13. mapping.decision =
          IF \E s \in ToSet(e.slots) : s.value # None /\ UnitIsRefused(profile.of, s)
          THEN "REVIEW" ELSE "COMMIT"
  BY <1>3, <1>10, <1>12 DEF MappingDecision
<1> QED BY <1>2, <1>11, <1>13 DEF made, mapping

\* An example mapped through the profile derived from it and its like comes back
\* slot by slot: its values as the parser strips them, with the canonical spelling
\* of their units, the slots whose units are refused and those without a value as
\* labels alone, and a person is asked exactly when some value's unit is refused.
THEOREM ExamplesComeBack == Spec => []ExamplesRoundTrip
<1>1. Inv => ExamplesRoundTrip
  <2> SUFFICES ASSUME Inv, profile # None PROVE ExamplesRoundTrip
    BY DEF ExamplesRoundTrip
  <2>1. ProfileIsDerived
    BY DEF Inv, Unopened, Opened
  <2> QED BY <2>1, ExampleRoundTrips DEF ExamplesRoundTrip
<1> QED BY <1>1, Invariance, PTL

=================================================================================
