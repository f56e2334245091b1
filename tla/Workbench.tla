------------------------------ MODULE Workbench ------------------------------
(***************************************************************************)
(* components/workbench: the Catalog Workbench, one browser page.          *)
(*                                                                         *)
(* A catalog is imported, its columns are mapped, its rows are selected    *)
(* and sent one by one to the analysis API, and the answers are shown and  *)
(* exported.  The page runs one handler at a time; between a handler's     *)
(* awaits the user may do anything the page shows a control for.  An       *)
(* import waits for the file (and the sample for its download first), an   *)
(* analysis loop waits for the answer of one row after another.  A loop    *)
(* keeps the rows of the render it was started from.                       *)
(*                                                                         *)
(* A row is what column mapping makes of a record: its six values and its  *)
(* READY, REVIEW or INVALID status.  Its id is its position, "row-1" and   *)
(* on, in every catalog.  Search, sort, pages and texts are left out.      *)
(***************************************************************************)
EXTENDS Naturals, Sequences, FiniteSets

CONSTANTS
    Files,      \* catalog files
    Sample,     \* the sample catalog among them
    Products,   \* what the manual form is filled with: one-row catalogs
    Mappings,   \* column mappings
    Named,      \* the mappings that map the manufacturer part number
    Detected,   \* Detected[c]: the mapping autoDetectMapping finds for c
    Rows,       \* catalog rows
    RowsOf,     \* RowsOf[c][m]: the rows of catalog c under mapping m
    Invalid,    \* the rows whose status is INVALID
    Limit,      \* BATCH_ANALYSIS_LIMIT
    Imports,    \* bound: imports under way at once
    Loops,      \* bound: analysis loops under way at once
    None

Catalogs == Files \cup Products

ASSUME WorkbenchAssumption ==
    /\ Sample \in Files /\ Named \subseteq Mappings /\ Invalid \subseteq Rows
    /\ Detected \in [Catalogs -> Mappings]
    /\ RowsOf \in [Catalogs -> [Mappings -> Seq(Rows)]]
    /\ \A c \in Catalogs, m \in Mappings : RowsOf[c][m] # << >>
    /\ Limit \in Nat \ {0}
    /\ None \notin Catalogs \cup Mappings \cup Rows \cup Nat

\* Row ids.
Ids == UNION {DOMAIN RowsOf[c][m] : c \in Catalogs, m \in Mappings}

VARIABLES
    state,      \* WorkspaceState
    parsed,     \* the catalog under schema review, or None
    mapping,    \* its column mapping, or None for emptyMapping()
    rows,       \* the catalog's rows
    selected,   \* ids of the selected rows
    results,    \* results[i]: the row whose answer (detail or error) is shown
                \*   and exported as row i's, or None
    analyzing,  \* ids of the rows shown as being analysed
    active,     \* activeRowId: the row whose result is open, or None
    imports,    \* imports[k]: the file import k waits for, and how
    loops       \* loops[k]: the analysis loop k, or None

page == <<state, parsed, mapping, rows, selected, results, analyzing, active>>
vars == <<page, imports, loops>>

States == {"EMPTY", "PARSING", "SCHEMA_REVIEW", "READY", "ANALYZING", "RESULTS",
           "PARTIAL", "ERROR"}

LoopStates == [rows : Seq(Rows), current : Ids, left : SUBSET Ids, partial : BOOLEAN]

ASSUME NoneIsNoRecord ==
    /\ None \notin [file : Files, waitsFor : {"download", "text"}]
    /\ None \notin LoopStates

TypeOK ==
    /\ state \in States
    /\ parsed \in Catalogs \cup {None}
    /\ mapping \in Mappings \cup {None}
    /\ (mapping = None) = (parsed = None)
    /\ rows \in Seq(Rows) /\ DOMAIN rows \subseteq Ids
    /\ selected \subseteq Ids
    /\ results \in [Ids -> Rows \cup {None}]
    /\ analyzing \subseteq Ids
    /\ active \in Ids \cup {None}
    /\ imports \in [Imports -> [file : Files, waitsFor : {"download", "text"}] \cup {None}]
    /\ loops \in [Loops -> LoopStates \cup {None}]

NoResults == [i \in Ids |-> None]

Init ==
    /\ state = "EMPTY" /\ parsed = None /\ mapping = None
    /\ rows = << >> /\ selected = {} /\ results = NoResults
    /\ analyzing = {} /\ active = None
    /\ imports = [k \in Imports |-> None]
    /\ loops = [k \in Loops |-> None]

\* What the page shows.
ShowsUpload == state \in {"EMPTY", "PARSING", "ERROR"}
ShowsSchema == state = "SCHEMA_REVIEW" /\ parsed # None
ShowsCatalog == state \notin {"EMPTY", "PARSING", "ERROR", "SCHEMA_REVIEW"}

------------------------------------------------------------------------------
(* Importing a catalog *)

StartImport(k, f, waitsFor) ==
    /\ imports[k] = None
    /\ imports' = [imports EXCEPT ![k] = [file |-> f, waitsFor |-> waitsFor]]
    /\ state' = "PARSING"
    /\ UNCHANGED <<parsed, mapping, rows, selected, results, analyzing, active, loops>>

\* A file is dropped: accepted while another import is under way, unlike a
\* file browsed for.
ImportFile(k, f) == ShowsUpload /\ StartImport(k, f, "text")

TrySample(k) == ShowsUpload /\ state # "PARSING" /\ StartImport(k, Sample, "download")

SampleArrives(k) ==
    /\ imports[k] # None /\ imports[k].waitsFor = "download"
    /\ imports' = [imports EXCEPT ![k].waitsFor = "text"]
    /\ state' = "PARSING"
    /\ UNCHANGED <<parsed, mapping, rows, selected, results, analyzing, active, loops>>

FileRead(k) ==
    /\ imports[k] # None /\ imports[k].waitsFor = "text"
    /\ parsed' = imports[k].file
    /\ mapping' = Detected[imports[k].file]
    /\ state' = "SCHEMA_REVIEW"
    /\ imports' = [imports EXCEPT ![k] = None]
    /\ UNCHANGED <<rows, selected, results, analyzing, active, loops>>

\* Mutant: an import that fails does not tell the page.
ImportFailsSilently(k) ==
    /\ imports[k] # None
    /\ imports' = [imports EXCEPT ![k] = None]
    /\ UNCHANGED <<page, loops>>

ImportFails(k) ==
    /\ imports[k] # None
    /\ state' = "ERROR"
    /\ imports' = [imports EXCEPT ![k] = None]
    /\ UNCHANGED <<parsed, mapping, rows, selected, results, analyzing, active, loops>>

\* A field is mapped by hand, or detection is run again.
MapColumns(m) ==
    /\ ShowsSchema
    /\ mapping' = m
    /\ UNCHANGED <<state, parsed, rows, selected, results, analyzing, active, imports, loops>>

\* Mutant: the new rows take over the old rows' results.
PrepareRowsKeepingResults ==
    /\ ShowsSchema /\ mapping \in Named
    /\ rows' = RowsOf[parsed][mapping]
    /\ selected' = {} /\ active' = None
    /\ state' = "READY"
    /\ UNCHANGED <<parsed, mapping, results, analyzing, imports, loops>>

PrepareRows ==
    /\ ShowsSchema /\ mapping \in Named
    /\ rows' = RowsOf[parsed][mapping]
    /\ selected' = {} /\ results' = NoResults /\ active' = None
    /\ state' = "READY"
    /\ UNCHANGED <<parsed, mapping, analyzing, imports, loops>>

\* The manual form, open beside an import that is under way.
PrepareManual(c) ==
    /\ ShowsUpload
    /\ parsed' = c /\ mapping' = Detected[c]
    /\ rows' = RowsOf[c][Detected[c]]
    /\ selected' = {1} /\ results' = NoResults /\ active' = None
    /\ state' = "READY"
    /\ UNCHANGED <<analyzing, imports, loops>>

\* Mutant: the column mapping outlives the catalog.
ResetKeepingMapping ==
    /\ ShowsCatalog \/ ShowsSchema
    /\ state' = "EMPTY" /\ parsed' = None
    /\ rows' = << >> /\ selected' = {} /\ results' = NoResults
    /\ analyzing' = {} /\ active' = None
    /\ UNCHANGED <<mapping, imports, loops>>

\* "New catalog" and "Choose another file".  The user may also decline.
Reset ==
    /\ ShowsCatalog \/ ShowsSchema
    /\ state' = "EMPTY" /\ parsed' = None /\ mapping' = None
    /\ rows' = << >> /\ selected' = {} /\ results' = NoResults
    /\ analyzing' = {} /\ active' = None
    /\ UNCHANGED <<imports, loops>>

------------------------------------------------------------------------------
(* The catalog grid *)

Flip(i) == IF i \in selected THEN selected \ {i} ELSE selected \cup {i}

\* The checkbox of an INVALID row is disabled.
Toggle(i) ==
    /\ ShowsCatalog /\ i \in DOMAIN rows /\ rows[i] \notin Invalid
    /\ selected' = Flip(i)
    /\ UNCHANGED <<state, parsed, mapping, rows, results, analyzing, active, imports, loops>>

\* The rows the search, the filters and the page leave visible, INVALID rows
\* among them.
ToggleAll(ids) ==
    /\ ShowsCatalog /\ ids \subseteq DOMAIN rows
    /\ selected' = IF ids \subseteq selected THEN selected \ ids ELSE selected \cup ids
    /\ UNCHANGED <<state, parsed, mapping, rows, results, analyzing, active, imports, loops>>

OpenResult(i) ==
    /\ ShowsCatalog /\ results[i] # None
    /\ active' = i
    /\ UNCHANGED <<state, parsed, mapping, rows, selected, results, analyzing, imports, loops>>

(* Analysis *)

Analyzable(rs, i) == i \in DOMAIN rs /\ rs[i] \notin Invalid

\* Loop k is started on the first Limit of the ids, in the order the user
\* selected them, and sends the first one.  A row that is not analysable
\* would be skipped by the loop too: it is never asked for.
Analyze(k, ids) ==
    \E queue \in SUBSET ids, first \in ids :
        /\ loops[k] = None
        /\ first \in queue
        /\ Cardinality(queue) = IF Cardinality(ids) > Limit THEN Limit ELSE Cardinality(ids)
        /\ state' = "ANALYZING"
        /\ analyzing' = queue
        /\ active' = first
        /\ loops' = [loops EXCEPT ![k] = [rows |-> rows, current |-> first,
                                          left |-> queue \ {first}, partial |-> FALSE]]
        /\ UNCHANGED <<parsed, mapping, rows, selected, results, imports>>

AnalyzeSelected(k) ==
    /\ ShowsCatalog /\ analyzing = {}
    /\ Analyze(k, {i \in selected : Analyzable(rows, i)})

\* The button of one row: disabled while that row is shown as analysed, and
\* replaced once it has a result.
AnalyzeRow(k, i) ==
    /\ ShowsCatalog /\ Analyzable(rows, i)
    /\ i \notin analyzing /\ results[i] = None
    /\ Analyze(k, {i})

\* Mutant: a row is freed only after an answer that is no error.
AnswerFreesOnSuccess(k, complete) ==
    LET l == loops[k]
        partial == l.partial \/ ~complete
    IN  /\ l # None
        /\ results' = [results EXCEPT ![l.current] = l.rows[l.current]]
        /\ analyzing' = IF complete THEN analyzing \ {l.current} ELSE analyzing
        /\ \/ \E next \in l.left :
                 /\ loops' = [loops EXCEPT ![k] = [l EXCEPT !.current = next,
                                                            !.left = @ \ {next},
                                                            !.partial = partial]]
                 /\ UNCHANGED state
           \/ /\ l.left = {}
              /\ loops' = [loops EXCEPT ![k] = None]
              /\ state' = IF partial THEN "PARTIAL" ELSE "RESULTS"
        /\ UNCHANGED <<parsed, mapping, rows, selected, active, imports>>

\* The answer for the current row arrives: a detail whose stages all
\* succeeded (complete), a detail with a stage that did not, or an error.
\* The loop sends the next row, or reports that it is done.
Answer(k, complete) ==
    LET l == loops[k]
        partial == l.partial \/ ~complete
    IN  /\ l # None
        /\ results' = [results EXCEPT ![l.current] = l.rows[l.current]]
        /\ analyzing' = analyzing \ {l.current}
        /\ \/ \E next \in l.left :
                 /\ loops' = [loops EXCEPT ![k] = [l EXCEPT !.current = next,
                                                            !.left = @ \ {next},
                                                            !.partial = partial]]
                 /\ UNCHANGED state
           \/ /\ l.left = {}
              /\ loops' = [loops EXCEPT ![k] = None]
              /\ state' = IF partial THEN "PARTIAL" ELSE "RESULTS"
        /\ UNCHANGED <<parsed, mapping, rows, selected, active, imports>>

------------------------------------------------------------------------------
Import(k) ==
    \/ \E f \in Files : ImportFile(k, f)
    \/ TrySample(k)

ImportGoesOn(k) == SampleArrives(k) \/ FileRead(k) \/ ImportFails(k)

LoopGoesOn(k) == \E complete \in BOOLEAN : Answer(k, complete)

Next ==
    \/ \E k \in Imports : Import(k) \/ ImportGoesOn(k)
    \/ \E m \in Mappings : MapColumns(m)
    \/ PrepareRows
    \/ \E c \in Products : PrepareManual(c)
    \/ Reset
    \/ \E i \in Ids : Toggle(i) \/ OpenResult(i)
    \/ \E ids \in SUBSET Ids : ToggleAll(ids)
    \/ \E k \in Loops : AnalyzeSelected(k) \/ LoopGoesOn(k) \/ \E i \in Ids : AnalyzeRow(k, i)

\* Every download, every read of a file and every request ends, with an
\* answer or an error, and the browser runs what waits for it.
Fairness ==
    /\ \A k \in Imports : WF_vars(ImportGoesOn(k))
    /\ \A k \in Loops : WF_vars(LoopGoesOn(k))

Spec == Init /\ [][Next]_vars /\ Fairness

------------------------------------------------------------------------------
(* Properties *)

\* What is selected are rows of the catalog on the page, whatever import,
\* manual entry or reset replaced it (WorkbenchShell.tsx:83, 89, 118).
SelectionIsInCatalog == selected \subseteq DOMAIN rows

\* No INVALID row is ever sent for analysis, although "select visible" and
\* the manual form do select INVALID rows (CatalogGrid.tsx:82,
\* WorkbenchShell.tsx:89, 122).
OnlyValidRowsAreSent ==
    \A k \in Loops : loops[k] # None =>
        \A i \in loops[k].left \cup {loops[k].current} :
            i \in DOMAIN loops[k].rows /\ loops[k].rows[i] \notin Invalid

\* A row shown as being analysed is one a loop still has to finish: however
\* loops overlap, no row stays busy with nothing under way for it
\* (WorkbenchShell.tsx:95, 110).
BusyRowsHaveARequest ==
    analyzing \subseteq UNION {loops[k].left \cup {loops[k].current} :
                                  k \in {j \in Loops : loops[j] # None}}

\* "Reading catalog" and "Analyzing" are shown only while something is.
LabelsAreBacked ==
    /\ state = "PARSING" => \E k \in Imports : imports[k] # None
    /\ state = "ANALYZING" => \E k \in Loops : loops[k] # None

\* Each result shown and exported is the answer for the row it is shown
\* under: "Exports include only current API results"
\* (ResultsWorkspace.tsx:73).
IsCurrent(i) == results[i] # None => i \in DOMAIN rows /\ results[i] = rows[i]

ResultsAreCurrent == \A i \in Ids : IsCurrent(i)

\* A result comes to stand under a row it was not computed for in one way
\* only: as the late answer of a loop that started from another catalog than
\* the page now has.  No import, edit, preparation or other click does it.
OnlyLateAnswersMislead ==
    [][\A i \in Ids : IsCurrent(i) /\ ~IsCurrent(i)' =>
        \E k \in Loops : /\ loops[k] # None /\ loops'[k] # loops[k]
                         /\ loops[k].current = i /\ loops[k].rows # rows]_vars

\* The page never stays at "Reading catalog" or "Analyzing", and no row
\* stays busy for good.
Settles ==
    /\ state = "PARSING" ~> state # "PARSING"
    /\ state = "ANALYZING" ~> state # "ANALYZING"
    /\ \A i \in Ids : i \in analyzing ~> i \notin analyzing

\* Whatever is clicked, imported, answered or reset, and however imports and
\* loops overlap: the page selects only its own rows, sends only valid ones,
\* marks as busy only rows with a request to come, and says that it reads or
\* analyses only while it does (WorkbenchShell.tsx:54-119).
PageIsConsistent ==
    /\ SelectionIsInCatalog
    /\ OnlyValidRowsAreSent
    /\ BusyRowsHaveARequest
    /\ LabelsAreBacked
==============================================================================
