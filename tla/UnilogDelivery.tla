----------------------------- MODULE UnilogDelivery -----------------------------
(* From the organizer's input file and examples to a delivery file            *)
(* (unilog/input.py, schema.py, delivery.py, conformance.py), the way         *)
(* scripts/analyze_classification.py and build_demo_cases.py put the stages   *)
(* together, beside the API's analysis of single rows (api/analyze.py).       *)
(*                                                                            *)
(* A header is a tuple: <<name>>, or <<part, n>> for attribute slot n.  What  *)
(* a person reviews changes the registry while a file is worked on and while  *)
(* the API runs.                                                              *)
EXTENDS UnilogAttributes, UnilogClassification

CONSTANTS
    Inputs,         \* [header, lines] of input files
    Headers,        \* header rows of delivery files
    Examples,       \* the taxonomy examples, in order
    Catalogs,       \* the attribute examples a delivery file may hold, in order
    Offers,         \* the candidates that may be found for a record
    Hints,          \* the names of the entries that may be reviewed
    MaxOffers

\* A candidate's value comes from a parser; what is committed has one.
IsCandidate(c) ==
    /\ c # None
    /\ c.authority \in ToSet(Authorities) /\ c.decision \in ToSet(Decisions)
    /\ c.decision = "COMMIT" => c.value # None
    /\ c.value # None =>
          LET v == c.value
          IN  /\ v.kind \in Kinds /\ Parses(v.kind, v.raw)
              /\ v = Value(v.kind, v.raw, Reads[v.kind][v.raw], v.rawUom)
              /\ v.raw \in ToSet(Texts) /\ v.rawUom \in ToSet(Units) \cup {None}

\* The slots of a delivery row are numbered upwards; its cells are read as texts.
\* A cell of nothing but blanks is an error of the parser, and maps to nothing.
IsDelivered(example) ==
    /\ example.slots \in Seq(ToSet(example.slots))
    /\ \A n \in DOMAIN example.slots : example.slots[n].index \in Nat
    /\ Increasing([n \in DOMAIN example.slots |-> example.slots[n].index])
    /\ \A c \in CandidatesFor(example) : IsCandidate(c)

ASSUME DeliveryAssumption ==
    /\ None \notin Headers /\ \A header \in Headers : header \in Seq(ToSet(header))
    /\ \A i \in Inputs : i.lines \in Seq(ToSet(i.lines))
    /\ \A e \in ToSet(Examples) : e.input = Restrict(e.input, RequiredColumns)
    /\ \A examples \in Catalogs :
          examples \in Seq(ToSet(examples)) /\ \A e \in ToSet(examples) : IsDelivered(e)
    /\ \A c \in Offers : IsCandidate(c)

VARIABLES
    registry,   \* the reviewed entries, in order
    served,     \* the catalog the API cached, if any: an lru_cache keyed by the path
    answers,    \* [row, answer] of the API
    schema,     \* the headers of the delivery, or None
    profile,    \* what its attribute examples license, or None
    catalog,    \* the rules this file is normalized with, or None
    rest,       \* the lines of the input still to read, with the header
    rows, normals, proposals,
    offered,    \* the candidates found for the next record, in order
    records,    \* [row, cells, key, offered]: the offers, and for which part
    written     \* the rows of the delivery file, or None

vars == <<registry, served, answers, schema, profile, catalog, rest, rows, normals, proposals,
          offered, records, written>>

\* --- the delivery schema ------------------------------------------------------

AttributeParts == {"ATTRIBUTE_LABEL", "ATTRIBUTE_VALUE", "ATTRIBUTE_UOM"}

SlotIndices(header) == {h[2] : h \in {g \in ToSet(header) : Len(g) = 2}}

IsDeliveryHeader(header) ==
    /\ header # << >> /\ IsInjective(header)
    /\ \A n \in SlotIndices(header) : {<<part, n>> : part \in AttributeParts} \subseteq ToSet(header)

HasField(field) == field \in ToSet(schema)

\* --- a record -----------------------------------------------------------------

Blank == [f \in ToSet(schema) |-> None]

SetField(cells, field, value) == IF HasField(field) THEN [cells EXCEPT ![field] = value] ELSE cells

SetFields(cells, values) ==
    [f \in DOMAIN cells |-> IF f \in DOMAIN values THEN values[f] ELSE cells[f]]

PassThrough(row) == [f \in {<<c>> : c \in RequiredColumns} |-> row.raw[f[1]]]

\* Names are set only when there is one to publish.
Names(normalization) ==
    LET names == [f \in {<<"MANUFACTURER_NAME">>, <<"BRAND_NAME">>} |->
                     NameForDelivery(IF f = <<"MANUFACTURER_NAME">> THEN normalization.manufacturer
                                     ELSE normalization.brand)]
    IN  Restrict(names, {f \in DOMAIN names : names[f] # None})

Taxonomy(proposal) ==
    [f \in {<<c>> : c \in DOMAIN proposal.values} |-> proposal.values[f[1]]]

\* A profile with a slot the schema has not is an error before a cell is set.
FitsTheSchema(slots) == {slots[n].index : n \in DOMAIN slots} \subseteq SlotIndices(schema)

AttributeCells(slots) ==
    [f \in AttributeParts \X {slots[n].index : n \in DOMAIN slots} |->
        LET slot == CHOOSE s \in ToSet(slots) : s.index = f[2]
        IN  CASE f[1] = "ATTRIBUTE_LABEL" -> slot.label
              [] f[1] = "ATTRIBUTE_VALUE" -> slot.value
              [] f[1] = "ATTRIBUTE_UOM" -> slot.uom]

\* Mutant: the caller is trusted with the stages.
PartsFit(row, normalization, proposal, mapping) ==
    mapping # None => mapping.record = Cleaned(row, "Mfg_Part_Num")

\* Every part must be this row's: the stages by row number, the attributes by the
\* part number.
BelongsTo(row, normalization, proposal, mapping) ==
    /\ normalization.number = row.number /\ proposal.number = row.number
    /\ mapping # None => mapping.record = Cleaned(row, "Mfg_Part_Num")

RecordFromRawRow(row, normalization, proposal, mapping) ==
    LET named == SetFields(SetFields(SetFields(Blank, PassThrough(row)), Names(normalization)),
                           Taxonomy(proposal))
    IN  IF mapping = None THEN named
        ELSE SetFields(named, AttributeCells(DeliverySlots(mapping)))

ToRow(record) == [n \in DOMAIN schema |-> record.cells[schema[n]]]

-------------------------------------------------------------------------------
Init ==
    /\ registry = << >> /\ served = {} /\ answers = {}
    /\ schema = None /\ profile = None /\ catalog = None /\ rest = None
    /\ rows = << >> /\ normals = << >> /\ proposals = << >>
    /\ offered = << >> /\ records = << >> /\ written = None

file == <<schema, profile, catalog, rest, rows, normals, proposals, offered, records, written>>
api == <<served, answers>>

\* A person approves a maker's names.
Review(hints) ==
    /\ registry' = Append(registry, [approved |-> TRUE, hints |-> hints])
    /\ UNCHANGED <<api, file>>

\* The API builds its catalog once, at the first question: it has one path, and
\* no handler awaits while it builds.
Analyze(row) ==
    /\ served' = IF served = {} THEN {ReviewedManufacturerCatalog(registry)} ELSE served
    /\ \E rules \in served' :
          answers' = answers \cup {[row |-> row, answer |-> Normalize(rules, row)]}
    /\ UNCHANGED <<registry, file>>

\* A script opens its files and loads the registry; a bad header stops it, and
\* so do examples that name a slot differently, or none.
Open(input, header, examples) ==
    /\ schema = None
    /\ IsInputHeader(input.header) /\ IsDeliveryHeader(header)
    /\ IsCatalog(examples) /\ SharesLabels(examples) /\ Labelled(examples[1]) # {}
    /\ schema' = header /\ profile' = [made |-> DeriveProfile(examples), of |-> examples]
    /\ catalog' = ReviewedManufacturerCatalog(registry)
    /\ rest' = [header |-> input.header, lines |-> input.lines, read |-> 0]
    /\ UNCHANGED <<registry, api, rows, normals, proposals, offered, records, written>>

\* Lines are read up to the first that has another width than the header.
ReadLine ==
    /\ rest # None /\ rest.lines # << >> /\ ~IsMalformed(rest.header, Head(rest.lines))
    /\ rest' = [rest EXCEPT !.lines = Tail(@), !.read = @ + 1]
    /\ rows' = IF Head(rest.lines) = << >> THEN rows
               ELSE Append(rows, RowAt(rest.header, Head(rest.lines), rest.read + 1))
    /\ UNCHANGED <<registry, api, schema, profile, catalog, normals, proposals, offered, records, written>>

\* Mutant: the file is normalized while it is read.
NormalizeRowsEarly ==
    /\ rest # None /\ rows # << >> /\ normals = << >>
    /\ normals' = [n \in DOMAIN rows |-> Normalize(catalog, rows[n])]
    /\ UNCHANGED <<registry, api, schema, profile, catalog, rest, rows, proposals, offered, records, written>>

\* The stages run one after another, each over all rows.
NormalizeRows ==
    /\ rest # None /\ rest.lines = << >> /\ normals = << >>
    /\ normals' = [n \in DOMAIN rows |-> Normalize(catalog, rows[n])]
    /\ UNCHANGED <<registry, api, schema, profile, catalog, rest, rows, proposals, offered, records, written>>

ClassifyRows ==
    /\ normals # << >> /\ proposals = << >>
    /\ \A n \in DOMAIN rows : IsClassifiable(Examples, rows[n])
    /\ proposals' = [n \in DOMAIN rows |-> Classify(Examples, rows[n], normals[n])]
    /\ UNCHANGED <<registry, api, schema, profile, catalog, rest, rows, normals, offered, records, written>>

\* A candidate for the record that is next is found.
Offer(candidate) ==
    /\ proposals # << >> /\ Len(records) < Len(rows) /\ Len(offered) < MaxOffers
    /\ offered' = Append(offered, candidate)
    /\ UNCHANGED <<registry, api, schema, profile, catalog, rest, rows, normals, proposals, records, written>>

\* The example of a part is offered before anything else that is found.
Candidates(key, found) ==
    LET own == {e \in ToSet(profile.of) : e.record = key}
    IN  SetToSeq(UNION {CandidatesFor(e) : e \in own}) \o found

MappingOf(key, found) ==
    IF key = None THEN None
    ELSE ResolveAttributeCandidates(profile.made, Candidates(key, found), key, None)

\* The caller hands over the parts of a record, and may hand over another row's.
Build(k, key) ==
    LET row == rows[Len(records) + 1]
        mapping == MappingOf(key, offered)
    IN  /\ proposals # << >> /\ Len(records) < Len(rows)
        /\ BelongsTo(row, normals[k], proposals[k], mapping)
        /\ mapping # None => FitsTheSchema(DeliverySlots(mapping))
        /\ records' = Append(records,
              [row |-> row, key |-> key, offered |-> offered,
               cells |-> RecordFromRawRow(row, normals[k], proposals[k], mapping)])
        /\ offered' = << >>
        /\ UNCHANGED <<registry, api, schema, profile, catalog, rest, rows, normals, proposals,
                       written>>

\* The header, then a line for each record.
Write ==
    /\ records # << >> /\ Len(records) = Len(rows)
    /\ written # None => Len(written) <= Len(records)
    /\ written' = IF written = None THEN <<schema>>
                  ELSE Append(written, ToRow(records[Len(written)]))
    /\ UNCHANGED <<registry, api, schema, profile, catalog, rest, rows, normals, proposals, offered, records>>

AllRows ==
    UNION {{RowAt(i.header, i.lines[n], n) :
              n \in {m \in DOMAIN i.lines : Len(i.lines[m]) = Len(i.header)}} :
              i \in {j \in Inputs : IsInputHeader(j.header)}}

Keys == {None} \cup {Cleaned(row, "Mfg_Part_Num") : row \in AllRows}

Next ==
    \/ \E hints \in Hints : Review(hints)
    \/ \E row \in AllRows : Analyze(row)
    \/ \E input \in Inputs, header \in Headers, examples \in Catalogs :
          Open(input, header, examples)
    \/ ReadLine \/ NormalizeRows \/ ClassifyRows
    \/ \E candidate \in Offers : Offer(candidate)
    \/ \E k \in DOMAIN rows, key \in Keys : Build(k, key)
    \/ Write

Spec == Init /\ [][Next]_vars
-------------------------------------------------------------------------------
TypeOK ==
    /\ Len(normals) \in {0, Len(rows)} /\ Len(proposals) \in {0, Len(normals)}
    /\ schema # None => IsDeliveryHeader(schema) /\ IsProfile(profile.made)
    /\ catalog # None => \A n \in DOMAIN catalog : IsRule(catalog[n])
    /\ \A r \in ToSet(records) : DOMAIN r.cells = ToSet(schema)
    /\ written # None => \A n \in DOMAIN written : Len(written[n]) = Len(schema)

\* How far a spelling must be folded before it is one of a rule's names.
Distance(rule, name) ==
    LET stages == ManufacturerStages
        hits == {n \in DOMAIN stages : NamesMatching(rule, stages[n], name) # {}}
    IN  IF hits = {} THEN Len(stages) + 1 ELSE CHOOSE n \in hits : \A m \in hits : n <= m

Cell(record, field) == IF field \in DOMAIN record.cells THEN record.cells[field] ELSE None

\* A maker is published only when a person approved it under a name that the
\* row's folds to, and no other maker was approved under one as near
\* (unilog/normalization.py match, normalize_manufacturer).
PublishedNamesAreReviewed ==
    \A r \in ToSet(records) :
        LET name == Cell(r, <<"MANUFACTURER_NAME">>)
            own == ParsePartManuf(r.row.raw["Part_Manuf"]).name
        IN  name # None =>
              \E n \in DOMAIN catalog :
                  /\ \E e \in ToSet(registry) : e.approved /\ e.hints = catalog[n].names
                  /\ catalog[n].names[1] = name /\ Distance(catalog[n], own) <= 5
                  /\ \A m \in DOMAIN catalog :
                        catalog[m].names[1] # name =>
                            Distance(catalog[n], own) < Distance(catalog[m], own)

\* Whatever parts it was built from, a record repeats its own row, the taxonomy
\* of an example spelt as the row, and attributes of an example with the row's
\* part number (unilog/delivery.py record_from_raw_row).
CellsAreOfTheRow ==
    \A r \in ToSet(records) :
        /\ \A c \in RequiredColumns : HasField(<<c>>) => r.cells[<<c>>] = r.row.raw[c]
        /\ \A c \in ClassificationFields :
              Cell(r, <<c>>) # None =>
                  \E e \in ToSet(Examples) : e.input = Restrict(r.row.raw, RequiredColumns) /\ e.values[c] = Cell(r, <<c>>)
        /\ \A n \in SlotIndices(schema) :
              r.cells[<<"ATTRIBUTE_LABEL", n>>] # None =>
                  \E e \in ToSet(profile.of) : e.record = Cleaned(r.row, "Mfg_Part_Num")

\* In whatever order candidates are found, the cells are the same
\* (unilog/attributes.py sort_key, _resolve_slot).
OrderIsIrrelevant ==
    \A r \in {x \in ToSet(records) : x.key # None} :
        \A p \in Bijection(DOMAIN r.offered, DOMAIN r.offered) :
            DeliverySlots(MappingOf(r.key, [n \in DOMAIN p |-> r.offered[p[n]]])) =
                DeliverySlots(MappingOf(r.key, r.offered))

\* Letter case means nothing where values are one of a list.
Says(value) ==
    <<value.kind, value.uom,
      IF value.means \in DOMAIN CaseFold /\ value.kind = "ENUM" THEN CaseFold[value.means] ELSE value.means>>

\* A value is delivered when a committed candidate may vouch for it, and then no
\* other candidate, committed or not, has another value for the slot
\* (unilog/attributes.py is_delivery_eligible, semantic_key).
DeliveredValuesAreUncontested ==
    \A r \in ToSet(records) : \A n \in SlotIndices(schema) :
        LET value == r.cells[<<"ATTRIBUTE_VALUE", n>>]
            valued == {c \in ToSet(Candidates(r.key, r.offered)) : c.key = n /\ c.value # None}
        IN  value # None =>
              /\ \E c \in valued :
                    /\ c.decision = "COMMIT" /\ c.value.shown = value
                    /\ c.value.rawUom # None => c.value.rawUom \in DOMAIN UomAliases
                    /\ \/ c.authority \in {"ORGANIZER_EXAMPLE", "HUMAN_APPROVED"}
                       \/ /\ c.authority = "MANUFACTURER_EVIDENCE"
                          /\ \E e \in c.evidence : e.artifact # None /\ e.verified
              /\ \A c, d \in valued : Says(c.value) = Says(d.value)

\* A unit an example gives is refused when nobody reviewed its spelling, or when
\* it is an alias and every example with a value for the slot spells it alike.
UnitIsRefused(examples, slot) ==
    /\ slot.uom # None
    /\ \/ slot.uom \notin DOMAIN UomAliases
       \/ /\ UomAliases[slot.uom] # slot.uom
          /\ \A e \in ToSet(examples) : \A s \in ToSet(e.slots) :
                s.index = slot.index /\ s.value # None => s.uom = slot.uom

\* A value comes back stripped and with the canonical spelling of its unit; a slot
\* without one, or with a unit that is refused, comes back as its label alone.
ComesBackAs(examples, slot) ==
    LET kept == slot.value # None /\ ~UnitIsRefused(examples, slot)
    IN  [index |-> slot.index, label |-> slot.label,
         value |-> IF kept THEN Reads["TEXT"][slot.value].shown ELSE None,
         uom |-> IF kept /\ slot.uom # None THEN UomAliases[slot.uom] ELSE None]

\* An example mapped through the profile derived from it and its like comes back
\* slot by slot, value with unit, and a person is asked exactly when the unit of
\* some value is refused (unilog/attributes.py derive_profile, candidates_for,
\* delivery_slots; scripts/analyze_attributes.py round_trips).
ExamplesRoundTrip ==
    profile # None =>
        \A e \in ToSet(profile.of) :
            LET mapping == MapOrganizerAttributeExample(e, profile.made)
            IN  /\ MatchesProfile(e, profile.made)
                /\ ToSet(DeliverySlots(mapping)) =
                      {ComesBackAs(profile.of, s) : s \in {t \in ToSet(e.slots) : t.label # None}}
                /\ mapping.decision =
                      IF \E s \in ToSet(e.slots) : s.value # None /\ UnitIsRefused(profile.of, s)
                      THEN "REVIEW" ELSE "COMMIT"

\* While the API runs, a row is always analysed the same way, whatever is
\* reviewed meanwhile (api/analyze.py _normalizer).
AnswersAgree ==
    \A a, b \in answers : a.row = b.row => a = b

\* The same material gives the same result: neither the order in which
\* candidates are found, nor what people review while the API runs, shows in a
\* cell or in an answer (unilog/attributes.py, api/analyze.py).
ResultsAreDeterministic == OrderIsIrrelevant /\ AnswersAgree

\* unilog/README.md: "That profile is exact-record scoped: its internal
\* `DISHWASHER` family and observed classpath are context, not authority for
\* another product", where an example is its six passed-through columns.
AttributesStayWithTheirRecord ==
    \A r \in ToSet(records) : \A n \in SlotIndices(schema) :
        r.cells[<<"ATTRIBUTE_LABEL", n>>] # None =>
            \E e \in ToSet(profile.of) :
                e.record = Cleaned(r.row, "Mfg_Part_Num")
                /\ \E t \in ToSet(Examples) : t.input = Restrict(r.row.raw, RequiredColumns)
=================================================================================
