---------------------------- MODULE WorkbenchProofs ----------------------------
(***************************************************************************)
(* Proofs about the catalog workbench, for every number of imports and     *)
(* analysis loops, and all catalogs, mappings and rows that satisfy the    *)
(* assumptions.                                                            *)
(***************************************************************************)
EXTENDS Workbench, TLAPS

\* The rows of a catalog under a mapping, and their ids.
LEMMA CatalogRows ==
    ASSUME NEW c \in Catalogs, NEW m \in Mappings
    PROVE  /\ RowsOf[c][m] \in Seq(Rows) /\ RowsOf[c][m] # << >>
           /\ DOMAIN RowsOf[c][m] \subseteq Ids
           /\ 1 \in DOMAIN RowsOf[c][m]
<1>1. RowsOf[c][m] \in Seq(Rows) /\ RowsOf[c][m] # << >>
  BY WorkbenchAssumption
<1>2. DOMAIN RowsOf[c][m] \subseteq Ids
  BY DEF Ids
<1>3. 1 \in DOMAIN RowsOf[c][m]
  BY <1>1
<1> QED BY <1>1, <1>2, <1>3

Inv == TypeOK /\ PageIsConsistent

LEMMA InitialPage == Init => Inv
<1> SUFFICES ASSUME Init PROVE Inv
  OBVIOUS
<1>1. TypeOK
  BY WorkbenchAssumption DEF Init, TypeOK, States, NoResults
<1>2. PageIsConsistent
  BY DEF Init, PageIsConsistent, SelectionIsInCatalog, OnlyValidRowsAreSent,
         BusyRowsHaveARequest, LabelsAreBacked
<1> QED BY <1>1, <1>2 DEF Inv

\* What a step that leaves the analysis loops alone has to keep.
LEMMA LoopsAlone ==
    ASSUME Inv, UNCHANGED loops, analyzing' \subseteq analyzing,
           state' = "ANALYZING" => state = "ANALYZING"
    PROVE  /\ OnlyValidRowsAreSent' /\ BusyRowsHaveARequest'
           /\ state' = "ANALYZING" => \E k \in Loops : loops'[k] # None
BY DEF Inv, PageIsConsistent, OnlyValidRowsAreSent, BusyRowsHaveARequest, LabelsAreBacked

\* An import keeps the page: it says "Reading catalog" while one is under way.
LEMMA ImportStep ==
    ASSUME Inv, NEW k \in Imports, Import(k) \/ ImportGoesOn(k)
    PROVE  Inv'
<1> DEFINE Waits == [file : Files, waitsFor : {"download", "text"}]
<1> USE DEF Inv
<1>1. /\ UNCHANGED <<rows, selected, results, analyzing, active, loops>>
      /\ imports' \in [Imports -> Waits \cup {None}]
      /\ \/ /\ state' = "PARSING" /\ imports'[k] \in Waits /\ UNCHANGED <<parsed, mapping>>
         \/ /\ state' = "ERROR" /\ UNCHANGED <<parsed, mapping>>
         \/ state' = "SCHEMA_REVIEW" /\ parsed' \in Files /\ mapping' = Detected[parsed']
  <2>0. imports \in [Imports -> Waits \cup {None}]
    BY DEF TypeOK
  <2>1. CASE Import(k)
    BY <2>0, <2>1, WorkbenchAssumption DEF Import, ImportFile, TrySample, StartImport
  <2>2. CASE SampleArrives(k)
    BY <2>0, <2>2 DEF SampleArrives
  <2>3. CASE FileRead(k)
    BY <2>0, <2>3 DEF FileRead
  <2>4. CASE ImportFails(k)
    BY <2>0, <2>4 DEF ImportFails
  <2> QED BY <2>1, <2>2, <2>3, <2>4 DEF ImportGoesOn
<1>2. TypeOK'
  <2>1. /\ parsed' \in Catalogs \cup {None} /\ mapping' \in Mappings \cup {None}
        /\ (mapping' = None) = (parsed' = None)
    <3>1. CASE UNCHANGED <<parsed, mapping>>
      BY <3>1 DEF TypeOK
    <3>2. CASE parsed' \in Files /\ mapping' = Detected[parsed']
      <4>1. parsed' \in Catalogs
        BY <3>2 DEF Catalogs
      <4>2. mapping' \in Mappings
        BY <3>2, <4>1, WorkbenchAssumption
      <4> QED BY <4>1, <4>2, WorkbenchAssumption
    <3> QED BY <1>1, <3>1, <3>2
  <2>2. state' \in States
    BY <1>1 DEF States
  <2> QED BY <1>1, <2>1, <2>2 DEF TypeOK
<1>3. SelectionIsInCatalog'
  BY <1>1 DEF PageIsConsistent, SelectionIsInCatalog
<1>4. OnlyValidRowsAreSent' /\ BusyRowsHaveARequest'
  BY <1>1, LoopsAlone
<1>5. LabelsAreBacked'
  BY <1>1, NoneIsNoRecord DEF LabelsAreBacked
<1> QED BY <1>2, <1>3, <1>4, <1>5 DEF PageIsConsistent

\* So do the handlers that change what catalog the page has, how it is
\* mapped, and what is selected or open in it.
LEMMA CatalogStep ==
    ASSUME Inv,
           \/ \E m \in Mappings : MapColumns(m)
           \/ PrepareRows
           \/ \E c \in Products : PrepareManual(c)
           \/ Reset
           \/ \E i \in Ids : Toggle(i) \/ OpenResult(i)
           \/ \E ids \in SUBSET Ids : ToggleAll(ids)
    PROVE  Inv'
<1> USE DEF Inv
<1>1. /\ UNCHANGED <<imports, loops>>
      /\ analyzing' = analyzing \/ analyzing' = {}
      /\ state' = state \/ state' \in {"READY", "EMPTY"}
  BY DEF MapColumns, PrepareRows, PrepareManual, Reset, Toggle, OpenResult, ToggleAll
<1>2. /\ parsed' \in Catalogs \cup {None} /\ mapping' \in Mappings \cup {None}
      /\ (mapping' = None) = (parsed' = None)
  BY WorkbenchAssumption DEF TypeOK, Catalogs, ShowsSchema,
     MapColumns, PrepareRows, PrepareManual, Reset, Toggle, OpenResult, ToggleAll
<1>3. /\ rows' \in Seq(Rows) /\ DOMAIN rows' \subseteq Ids
      /\ selected' \subseteq DOMAIN rows'
  <2>1. CASE PrepareRows
    <3>1. parsed \in Catalogs /\ mapping \in Mappings
      BY <2>1, WorkbenchAssumption DEF PrepareRows, ShowsSchema, TypeOK
    <3> QED BY <2>1, <3>1, CatalogRows DEF PrepareRows
  <2>2. CASE \E c \in Products : PrepareManual(c)
    <3>1. PICK c \in Products : PrepareManual(c)
      BY <2>2
    <3>2. c \in Catalogs /\ Detected[c] \in Mappings
      BY WorkbenchAssumption DEF Catalogs
    <3> QED BY <3>1, <3>2, CatalogRows DEF PrepareManual
  <2>3. CASE Reset
    BY <2>3 DEF Reset
  <2>4. CASE \E i \in Ids : Toggle(i)
    BY <2>4 DEF Toggle, Flip, TypeOK, PageIsConsistent, SelectionIsInCatalog
  <2>5. CASE \E ids \in SUBSET Ids : ToggleAll(ids)
    BY <2>5 DEF ToggleAll, TypeOK, PageIsConsistent, SelectionIsInCatalog
  <2>6. CASE UNCHANGED <<rows, selected>>
    BY <2>6 DEF TypeOK, PageIsConsistent, SelectionIsInCatalog
  <2> QED BY <2>1, <2>2, <2>3, <2>4, <2>5, <2>6 DEF MapColumns, OpenResult
<1>4. results' \in [Ids -> Rows \cup {None}] /\ active' \in Ids \cup {None}
  BY DEF TypeOK, NoResults,
     MapColumns, PrepareRows, PrepareManual, Reset, Toggle, OpenResult, ToggleAll
<1>5. TypeOK'
  BY <1>1, <1>2, <1>3, <1>4 DEF TypeOK, States
<1>6. OnlyValidRowsAreSent' /\ BusyRowsHaveARequest' /\ LabelsAreBacked'
  BY <1>1, LoopsAlone DEF PageIsConsistent, LabelsAreBacked
<1> QED BY <1>3, <1>5, <1>6 DEF PageIsConsistent, SelectionIsInCatalog

\* A loop that starts is sent analysable rows only, and has a request to come
\* for every row it marks as busy.
LEMMA AnalyzeStep ==
    ASSUME Inv, NEW k \in Loops, NEW ids, \A i \in ids : Analyzable(rows, i), Analyze(k, ids)
    PROVE  Inv'
<1> USE DEF Inv
<1>1. PICK queue \in SUBSET ids, first \in ids :
         /\ first \in queue
         /\ state' = "ANALYZING" /\ analyzing' = queue /\ active' = first
         /\ loops' = [loops EXCEPT ![k] = [rows |-> rows, current |-> first,
                                           left |-> queue \ {first}, partial |-> FALSE]]
         /\ UNCHANGED <<parsed, mapping, rows, selected, results, imports>>
  BY DEF Analyze
<1>2. /\ first \in queue /\ queue \subseteq Ids
      /\ \A i \in queue : i \in DOMAIN rows /\ rows[i] \notin Invalid
  BY <1>1 DEF Analyzable, TypeOK
<1>3. loops'[k] = [rows |-> rows, current |-> first, left |-> queue \ {first}, partial |-> FALSE]
  BY <1>1 DEF TypeOK
<1>4. loops'[k] \in LoopStates
  BY <1>2, <1>3 DEF LoopStates, TypeOK
<1>5. TypeOK'
  <2>1. loops' \in [Loops -> LoopStates \cup {None}]
    BY <1>1, <1>3, <1>4 DEF TypeOK
  <2> QED BY <1>1, <1>2, <2>1 DEF TypeOK, States
<1>6. OnlyValidRowsAreSent'
  <2>1. \A j \in Loops \ {k} : loops'[j] = loops[j]
    BY <1>1 DEF TypeOK
  <2> QED BY <1>2, <1>3, <2>1 DEF PageIsConsistent, OnlyValidRowsAreSent
<1>7. BusyRowsHaveARequest' /\ LabelsAreBacked'
  <2>1. loops'[k] # None
    BY <1>4, NoneIsNoRecord
  <2>2. queue = loops'[k].left \cup {loops'[k].current}
    BY <1>2, <1>3
  <2> QED BY <1>1, <2>1, <2>2 DEF BusyRowsHaveARequest, LabelsAreBacked
<1>8. SelectionIsInCatalog'
  BY <1>1 DEF PageIsConsistent, SelectionIsInCatalog
<1> QED BY <1>5, <1>6, <1>7, <1>8 DEF PageIsConsistent

\* A row that is answered is freed, and what its loop still has to send stays.
LEMMA AnswerStep ==
    ASSUME Inv, NEW k \in Loops, NEW complete \in BOOLEAN, Answer(k, complete)
    PROVE  Inv'
<1> USE DEF Inv
<1> DEFINE l == loops[k]
<1>1. /\ l \in LoopStates /\ l # None
      /\ results' = [results EXCEPT ![l.current] = l.rows[l.current]]
      /\ analyzing' = analyzing \ {l.current}
      /\ UNCHANGED <<parsed, mapping, rows, selected, active, imports>>
  BY DEF Answer, TypeOK
<1>2. l.current \in Ids /\ l.rows[l.current] \in Rows
  <2>1. l.current \in DOMAIN l.rows
    BY <1>1 DEF PageIsConsistent, OnlyValidRowsAreSent
  <2> QED BY <1>1, <2>1 DEF LoopStates
<1>3. \/ /\ loops'[k] = None /\ l.left = {} /\ state' \in {"PARTIAL", "RESULTS"}
      \/ /\ loops'[k] \in LoopStates /\ loops'[k] # None /\ UNCHANGED state
         /\ loops'[k].rows = l.rows
         /\ loops'[k].left \cup {loops'[k].current} = l.left
  <2>1. CASE \E next \in l.left :
               /\ loops' = [loops EXCEPT ![k] = [l EXCEPT !.current = next,
                                                 !.left = @ \ {next},
                                                 !.partial = l.partial \/ ~complete]]
               /\ UNCHANGED state
    <3>1. PICK next \in l.left :
               /\ loops' = [loops EXCEPT ![k] = [l EXCEPT !.current = next,
                                                 !.left = @ \ {next},
                                                 !.partial = l.partial \/ ~complete]]
               /\ UNCHANGED state
      BY <2>1
    <3>2. loops'[k] = [l EXCEPT !.current = next, !.left = @ \ {next},
                                !.partial = l.partial \/ ~complete]
      BY <3>1 DEF TypeOK
    <3>3. loops'[k] \in LoopStates /\ loops'[k].rows = l.rows
      BY <1>1, <3>2 DEF LoopStates
    <3>4. loops'[k].left \cup {loops'[k].current} = l.left
      BY <1>1, <3>2 DEF LoopStates
    <3> QED BY <3>1, <3>3, <3>4, NoneIsNoRecord
  <2>2. CASE /\ l.left = {} /\ loops' = [loops EXCEPT ![k] = None]
             /\ state' = IF l.partial \/ ~complete THEN "PARTIAL" ELSE "RESULTS"
    BY <2>2 DEF TypeOK
  <2> QED BY <2>1, <2>2 DEF Answer
<1>4. \A j \in Loops \ {k} : loops'[j] = loops[j]
  BY DEF Answer, TypeOK
<1>5. loops' \in [Loops -> LoopStates \cup {None}]
  <2>1. loops' = [j \in Loops |-> loops'[j]]
    BY DEF Answer, TypeOK
  <2> QED BY <1>3, <1>4, <2>1 DEF TypeOK
<1>6. TypeOK'
  BY <1>1, <1>2, <1>3, <1>5 DEF TypeOK, States
<1>7. OnlyValidRowsAreSent'
  BY <1>1, <1>3, <1>4 DEF PageIsConsistent, OnlyValidRowsAreSent
<1>8. BusyRowsHaveARequest'
  <2> SUFFICES ASSUME NEW i \in analyzing, i # l.current
               PROVE  \E j \in Loops : loops'[j] # None /\ i \in loops'[j].left \cup {loops'[j].current}
    BY <1>1 DEF BusyRowsHaveARequest
  <2>1. PICK j \in Loops : loops[j] # None /\ i \in loops[j].left \cup {loops[j].current}
    BY DEF PageIsConsistent, BusyRowsHaveARequest
  <2> QED BY <1>3, <1>4, <2>1
<1>9. LabelsAreBacked' /\ SelectionIsInCatalog'
  BY <1>1, <1>3 DEF PageIsConsistent, LabelsAreBacked, SelectionIsInCatalog
<1> QED BY <1>6, <1>7, <1>8, <1>9 DEF PageIsConsistent

LEMMA Invariance == Spec => []Inv
<1>1. ASSUME Inv, [Next]_vars PROVE Inv'
  <2>1. CASE \E k \in Imports : Import(k) \/ ImportGoesOn(k)
    BY <1>1, <2>1, ImportStep
  <2>2. CASE \E k \in Loops : AnalyzeSelected(k)
    <3>1. PICK k \in Loops : Analyze(k, {i \in selected : Analyzable(rows, i)})
      BY <2>2 DEF AnalyzeSelected
    <3> QED BY <1>1, <3>1, AnalyzeStep
  <2>3. CASE \E k \in Loops : \E i \in Ids : AnalyzeRow(k, i)
    <3>1. PICK k \in Loops, i \in Ids : Analyzable(rows, i) /\ Analyze(k, {i})
      BY <2>3 DEF AnalyzeRow
    <3>2. \A j \in {i} : Analyzable(rows, j)
      BY <3>1
    <3> QED BY <1>1, <3>1, <3>2, AnalyzeStep
  <2>4. CASE \E k \in Loops : LoopGoesOn(k)
    BY <1>1, <2>4, AnswerStep DEF LoopGoesOn
  <2>5. CASE UNCHANGED vars
    BY <1>1, <2>5 DEF Inv, TypeOK, PageIsConsistent, SelectionIsInCatalog,
       OnlyValidRowsAreSent, BusyRowsHaveARequest, LabelsAreBacked, vars, page
  <2>6. CASE \/ \E m \in Mappings : MapColumns(m)
             \/ PrepareRows
             \/ \E c \in Products : PrepareManual(c)
             \/ Reset
             \/ \E i \in Ids : Toggle(i) \/ OpenResult(i)
             \/ \E ids \in SUBSET Ids : ToggleAll(ids)
    BY <1>1, <2>6, CatalogStep
  <2> QED BY <1>1, <2>1, <2>2, <2>3, <2>4, <2>5, <2>6 DEF Next
<1> QED BY <1>1, InitialPage, PTL DEF Spec

\* Every variable of the page keeps its type.
THEOREM PageTypes == Spec => []TypeOK
BY Invariance, PTL DEF Inv

\* However many imports and loops overlap, the page selects only its own rows,
\* sends only valid ones, and neither a row nor a label stays busy with nothing
\* under way.
THEOREM ThePageIsConsistent == Spec => []PageIsConsistent
BY Invariance, PTL DEF Inv

\* A result comes to stand under another row only by an answer to a loop that
\* was started on other rows than the page now has.
THEOREM LateAnswers == Spec => OnlyLateAnswersMislead
<1> DEFINE Late ==
      \A i \in Ids : IsCurrent(i) /\ ~IsCurrent(i)' =>
          \E k \in Loops : /\ loops[k] # None /\ loops'[k] # loops[k]
                           /\ loops[k].current = i /\ loops[k].rows # rows
<1>1. ASSUME Inv, [Next]_vars PROVE [Late]_vars
  <2> SUFFICES ASSUME Next PROVE Late
    BY <1>1
  <2>1. CASE UNCHANGED <<rows, results>>
    BY <2>1 DEF IsCurrent
  <2>2. CASE results' = NoResults
    BY <2>2 DEF IsCurrent, NoResults
  <2>3. CASE \E k \in Loops : LoopGoesOn(k)
    <3>1. PICK k \in Loops, complete \in BOOLEAN : Answer(k, complete)
      BY <2>3 DEF LoopGoesOn
    <3>2. /\ loops[k] # None /\ loops[k] \in LoopStates /\ UNCHANGED rows
          /\ results' = [results EXCEPT ![loops[k].current] = loops[k].rows[loops[k].current]]
      BY <1>1, <3>1 DEF Answer, Inv, TypeOK
    <3>3. loops[k].current \in DOMAIN loops[k].rows
      BY <1>1, <3>2 DEF Inv, PageIsConsistent, OnlyValidRowsAreSent
    <3>4. loops'[k] # loops[k]
      <4>1. CASE loops[k].left = {}
        BY <1>1, <3>1, <3>2, <4>1 DEF Answer, Inv, TypeOK
      <4>2. CASE \E next \in loops[k].left :
                   loops' = [loops EXCEPT ![k] = [loops[k] EXCEPT !.current = next,
                                !.left = @ \ {next},
                                !.partial = loops[k].partial \/ ~complete]]
        <5>1. PICK next \in loops[k].left :
                   loops' = [loops EXCEPT ![k] = [loops[k] EXCEPT !.current = next,
                                !.left = @ \ {next},
                                !.partial = loops[k].partial \/ ~complete]]
          BY <4>2
        <5>2. loops'[k].left = loops[k].left \ {next}
          BY <1>1, <3>2, <5>1 DEF Inv, TypeOK, LoopStates
        <5> QED BY <5>2
      <4> QED BY <3>1, <4>1, <4>2 DEF Answer
    <3> SUFFICES ASSUME NEW i \in Ids, IsCurrent(i), ~IsCurrent(i)'
                 PROVE  loops[k].current = i /\ loops[k].rows # rows
      BY <3>2, <3>4
    <3>5. loops[k].current = i
      BY <1>1, <3>2 DEF IsCurrent, Inv, TypeOK, LoopStates
    <3>6. results'[i] = loops[k].rows[i]
      BY <1>1, <3>2, <3>5 DEF Inv, TypeOK
    <3> QED BY <3>2, <3>3, <3>5, <3>6 DEF IsCurrent
  <2> QED BY <2>1, <2>2, <2>3
      DEF Next, Import, ImportFile, TrySample, StartImport, ImportGoesOn, SampleArrives,
          FileRead, ImportFails, MapColumns, PrepareRows, PrepareManual, Reset, Toggle,
          OpenResult, ToggleAll, AnalyzeSelected, AnalyzeRow, Analyze
<1> QED BY <1>1, Invariance, PTL DEF Spec, OnlyLateAnswersMislead
=================================================================================
