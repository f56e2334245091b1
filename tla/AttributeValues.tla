---------------------------- MODULE AttributeValues ----------------------------
(* Attribute values and what makes two of them the same (the value half of    *)
(* unilog/attributes.py).                                                     *)
(*                                                                            *)
(* A text is a sequence of words.  What a parser makes of a text is data: for *)
(* each kind, Reads gives every text that parses its meaning, the form it is  *)
(* delivered in and, for a range, the unit it names.                          *)
EXTENDS Common, Integers, Sequences, FiniteSets

CONSTANTS
    UomAliases,     \* the canonical spelling of every unit spelling reviewed
    Reads,          \* kind -> text -> [means, shown, uom]
    CaseFold        \* the letter-case-free form of every enumerated meaning

Kinds == {"TEXT", "NUMBER", "RANGE", "ENUM", "BOOLEAN"}

ASSUME ReadsEveryKind == DOMAIN Reads = Kinds

\* Every text can be folded.
ASSUME EveryMeaningFolds ==
    \A raw \in DOMAIN Reads["ENUM"] : Reads["ENUM"][raw].means \in DOMAIN CaseFold

\* An exact known spelling, or nothing: a unit is never guessed or converted.
NormalizeUom(raw) ==
    CASE raw = None -> [uom |-> None, resolution |-> "NONE"]
      [] raw # None /\ raw \notin DOMAIN UomAliases ->
            [uom |-> None, resolution |-> "UNRESOLVED"]
      [] OTHER -> [uom |-> UomAliases[raw],
                   resolution |-> IF UomAliases[raw] = raw THEN "EXACT" ELSE "ALIAS"]

Value(kind, raw, reading, rawUom) ==
    LET unit == NormalizeUom(rawUom)
    IN  [kind |-> kind, raw |-> raw, means |-> reading.means, shown |-> reading.shown,
         rawUom |-> rawUom, uom |-> unit.uom, resolution |-> unit.resolution]

Parses(kind, raw) == raw \in DOMAIN Reads[kind]

\* A range may name its own unit, which the caller may repeat but not contradict.
RangeUom(raw, rawUom) == IF rawUom # None THEN rawUom ELSE Reads["RANGE"][raw].uom

ParseRange(raw, rawUom) ==
    IF Parses("RANGE", raw) /\ Reads["RANGE"][raw].uom \in {None, RangeUom(raw, rawUom)}
    THEN Value("RANGE", raw, Reads["RANGE"][raw], RangeUom(raw, rawUom))
    ELSE None

ParseScalar(kind, raw, rawUom) ==
    IF Parses(kind, raw) THEN Value(kind, raw, Reads[kind][raw], rawUom) ELSE None

\* Yes and no have no unit.
ParseValue(kind, raw, rawUom) ==
    CASE kind = "RANGE" -> ParseRange(raw, rawUom)
      [] kind = "BOOLEAN" -> IF rawUom = None THEN ParseScalar(kind, raw, None) ELSE None
      [] OTHER -> ParseScalar(kind, raw, rawUom)

UomIsResolved(value) == value.resolution # "UNRESOLVED"

\* The raw unit is not part of it: a unit nobody knows counts as no unit.
SemanticKey(value) ==
    <<value.kind,
      IF value.kind = "ENUM" THEN CaseFold[value.means] ELSE value.means,
      value.uom>>

DeliveryValue(value) == value.shown
DeliveryUom(value) == value.uom
================================================================================
