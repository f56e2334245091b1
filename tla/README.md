# Formal models of SKUTruth

TLA+ modules for the parts of SKUTruth whose correctness depends on the order in
which things happen, TLC configurations that check them on small instances, and
TLAPS proofs. Paths below are relative to the repository root;
`skutruth/` stands for `backend/skutruth/`.

## How to run

    tlc -config ArtifactStoreReparse.cfg MCArtifactStore      # and the other .cfg files
    tlapm ArtifactStoreProofs.tla
    tlapm WorkbenchProofs.tla
    tlapm DiscoveryPilotProofs.tla
    tlapm SourceDiscoveryProofs.tla
    tlapm FactPipelineProofs.tla
    tlapm HtmlEvidenceProofs.tla
    tlapm UnilogDeliveryProofs.tla
    tlapm EvaluationProofs.tla

`PROJECT.json` lists each run with the properties it checks, for every definition
the source lines it models, for every property a mutation of the code that violates
it, and the hazards of the code with the properties that cover them.

## The system

SKUTruth turns manufacturer part numbers into delivery rows whose every value cites a
stored source. An offline pipeline discovers sources, stores them, reads attributes
from them with a language model, and keeps only what deterministic code can verify
against the stored text. A stateless API replays recorded stages; a browser workbench
analyses catalogs through it.

| Component | State it keeps | Operations | Talks to | Correct when |
| --- | --- | --- | --- | --- |
| Artifact store, `skutruth/ingest/storage.py` | one directory per SHA-256: original, page files + page map or HTML content, `metadata.json` | save, load, exists, delete | ingestion writes it; acquisition, verification, evaluation read it | a load returns the text of one ingestion of those bytes; a save that returned can be loaded; a stop at any point leaves an artifact whole or unseen |
| Catalog workbench, `frontend/src/components/workbench` | catalog, mapping, selection, results, busy rows, page state | import, map columns, select, analyse, open, reset | the analysis API, one request per row | what is shown and exported belongs to the rows on the page; only valid rows are sent; nothing stays busy for good |
| Record and replay, `skutruth/replay` | cassettes by request key, a writable and a read-only store | `run_interaction` LIVE or REPLAY | wraps every provider and model call | a response answers its request; REPLAY calls nobody; fixtures are never written |
| Discovery pilot, `scripts/discover_sources.py`, `discovery/agent_search.py`, `discovery/provider.py` | the selected rows, the report, a call budget | search each row on its manufacturer's domains | replay, source discovery | each report entry is its row's; all rows are reported; the call budget holds; it ends |
| Source discovery, `skutruth/discovery` (`service`, `acquire`, `fetch`, `policy`, `ranking`, `manual`) | candidates and their status, fetch count | classify, rank, fetch with redirects, acquire | the pilot calls it; it fetches and fills the artifact store | only authorised bytes are stored, at most three fetches a product, every candidate ends with a reason |
| Domain registry and review, `discovery/domains.py`, `review.py`, `scripts/review_manufacturer_domains.py` | bindings of hosts to makers with their reviews, one TOML file | prepare a packet, confirm, write | source discovery asks it for authority | no review is lost; only a binding a person confirmed gives authority |
| Query building, diagnosis | - | - | the pilot | - |
| PDF and HTML ingestion, `skutruth/ingest` | the parser's stack and counters while one page is read | bytes to page texts or read model | fills the artifact store | hidden text is never kept; what is kept lies in the page's text end to end |
| Identity resolution, `skutruth/identity` | reviewed evidence | resolve a reference and a selection; tell which product a page is about | gates extraction, verification, adjudication | an exact answer is confirmed by a fact of its own; more evidence never turns it into another product; a page is of the part asked for, and of no other |
| Attribute extraction, `skutruth/extraction` | - | model call through replay, validation | claims for verification | claims are about the resolved product; nothing else is trusted |
| Verification, `skutruth/verification` | - | locate, match, judge a claim | reads the artifact store; precedes adjudication | value and operating point stand together in one line that speaks for the product |
| Adjudication, `skutruth/adjudication` | decided facts | map, resolve conflicts, assemble, write | writes delivery cells | independent of order; no silent overwrite; no fact dropped; conflicts surface |
| ETIM schema, `skutruth/etim` | one archive, reviewed qualifier rules | load, build a response schema, validate and convert values | extraction | what the schema lets a model say, the validators take; a conversion keeps the quantity |
| Contracts, `skutruth/contracts` | - | refuse a value, evidence, group, attribute or record | extraction, evaluation | an accepted value is witnessed for the record's product and operating point |
| Unilog input, normalization, delivery, `skutruth/unilog` | rows, reviewed makers, profiles, records | read, normalize, classify, resolve attribute slots, build and write records | registry, delivery files | only reviewed names are published; a record is of its row; contested values stay out |
| Evaluation, `skutruth/eval` | a manifest, predictions, tallies | load, predict, score, report | contracts | every case and truth is in exactly the counts it belongs to |
| API, `skutruth/api` | caches of immutable files, a normalizer for each registry | analyse a row, list cases | workbench, demo site | one row has one answer |
| Demo site, `useApi.ts` | data, error, loading of one fetch | fetch, reload | API | what is shown is the current fetch's answer |

### What is hard here

* **Crash and interleaving on disk.** Files are replaced atomically one by one;
  directories are not. Any number of scripts may save, load or delete the same digest.
* **Re-ingestion.** The same bytes read by a new parser version are saved over the old
  files, with readers in between.
* **Late answers.** The workbench awaits files and HTTP answers; a user can reset,
  import again or start a second analysis meanwhile.
* **Record, then answer.** Between a provider's (billed) answer and its recording a
  process may stop or the write may fail; another may overwrite the recording; people
  promote and edit cassettes by hand.
* **Partial failure and budgets.** One of several calls of a row fails; a budget runs out.
* **Stages that do not trust each other.** Identity, claims, stored text and mapping
  rules each can change between two stages, and a fact must not outlive what it rests on.
* **A page is not a document.** It can hide text, list other products, state a property
  twice or in two units, and be another page when it is fetched again; a model points
  into it, and only deterministic code decides what it states.
* **Parts made one by one.** A record is put together from a row, its names, its taxonomy
  and its attributes by a caller, and evidence of several products meets in one record.
* **Exceptions of the wrong family.** `FetchError`, `SearchProviderError`, replay and
  corruption errors are caught in different places, and some nowhere.

## Modules

| Module | Models | Role |
| --- | --- | --- |
| `ArtifactArchive` | what the store promises | abstract specification |
| `ArtifactStore` | `ingest/storage.py` | one action per file operation; implements `ArtifactArchive` |
| `ArtifactStoreProofs` | - | inductive invariants, theorems, the refinement of `ArtifactArchive` |
| `Workbench` | `components/workbench`, `lib/catalog.ts` | one action per handler and per continuation of an await |
| `WorkbenchProofs` | - | inductive invariant, theorems |
| `CassetteReplay` | `replay/runner.py`, `replay/store.py` | actions of one caller of `run_interaction`, and of people |
| `DiscoveryPilot` | `run_live`, `AgentSearchProvider` | extends `CassetteReplay`: the pilot and its callable over the replay layer, beside other callers |
| `DiscoveryPilotProofs` | - | inductive invariants of both, theorems |
| `DomainRegistry` | `discovery/domains.py`, `review.py`, `classify_authority`, `scripts/review_manufacturer_domains.py` | the registry file and the operators who write it |
| `SourceDiscovery` | `discovery/service.py`, `acquire.py`, `fetch.py`, `policy.py`, `ranking.py`, `manual.py` | extends `DomainRegistry`: jobs over one registry and one artifact store |
| `SourceDiscoveryProofs` | - | inductive invariant of both, theorems |
| `IdentityResolver` | `identity/resolver.py`, `evidence.py` | the resolver as a function of the evidence |
| `ClaimVerifier` | `verification/verifier.py`, `text.py`, `table.py`, `quantities.py` | `verify_claim` as a function of claim and parse |
| `FactAdjudication` | `adjudication/policy.py`, `conflicts.py`, `assembly.py` | adjudication as functions of sets of facts; extends `ClaimVerifier` |
| `FactPipeline` | `extraction/service.py`, `scripts/verify_extraction_run.py`, `scripts/assemble_delivery_record.py` | extends the three above: the stages as actions, beside reviewers and re-ingestions |
| `FactPipelineProofs` | - | lemmas on the functions, inductive invariants, theorems |
| `HtmlSnapshot` | `ingest/html.py` | the page parser as a function of tokens |
| `HtmlIdentity` | `identity/html.py` | what product a page is about; extends `HtmlSnapshot` |
| `AttributeValues` | value half of `unilog/attributes.py` | when two values are the same |
| `HtmlAttributes` | `extraction/html_attribute_service.py`, `verification/html_attributes.py` | binding and verifying proposals; extends both |
| `HtmlEvidence` | `ingest/html.py`, `build_kichler` of `scripts/build_demo_cases.py` | the stages as actions over a store that is written meanwhile |
| `HtmlEvidenceProofs` | - | lemmas on parser, identity and verification, inductive invariants, theorems |
| `UnilogNormalization` | `unilog/placeholders.py`, `manufacturer.py`, `input.py`, `normalization.py` | names and brands against reviewed makers |
| `UnilogClassification` | `unilog/classification.py` | families and example taxonomy |
| `UnilogAttributes` | mapping half of `unilog/attributes.py` | profiles, candidates and slots; extends `AttributeValues` |
| `UnilogDelivery` | `unilog/input.py`, `schema.py`, `delivery.py`, `api/analyze.py` | extends the three above: a file's stages as actions, beside reviewers and the API |
| `UnilogDeliveryProofs` | - | lemmas on matching, slots and a record's cells, inductive invariants, theorems |
| `EtimSchema` | `etim/`, the typed half of `extraction/service.py` | archive, response schema, validators, conversion |
| `ProductRecord` | `contracts/` | every validator as a conjunct |
| `Evaluation` | `eval/`, `identity/eval_adapter.py` | extends both: extraction, record, prediction, scoring, report |
| `EvaluationProofs` | - | lemmas on units, payloads, licensing evidence and tallies, inductive invariants, theorems |
| `Common` | - | `None`, and helpers several modules share |
| `MC...` | - | constants for TLC |

A definition preceded by a comment `Mutant:` or `A plausible slip:` is no part of a specification: it is a
plausible bug, in place of the definition after it, that the named property must catch.

### ArtifactStore

State: the five kinds of files of each digest, and for each process its program
counter, the artifact and page map in hand and the text it has written or read.
A save is `BeginSave` (the check for an artifact of the other kind), `SaveOriginal`,
one `SavePage` per page, `SavePageMap` or for HTML `SaveContent`, and `SaveMetadata`.
A load is `BeginLoad`, `LoadOriginal`, then `LoadPageMap` and one `LoadPage` per page,
or `LoadContent`. `Crash` stops a process between any two of these; `_atomic_write_*`
is what makes each of them one step. `DeleteFile` is one removal of `rmtree`;
`AlterFile` is a file changed behind the store's back (external). An artifact is one
ingestion (bytes, parser, source); two artifacts may share a digest. A text stands for
its own hash. The page map is read and written whole; its JSON is data.

`Spec` has everything. `KeepSpec` leaves out deletions and alterations, as the
pipeline, which only saves and loads, does.

* `LoadedTextWasIngested`, `LoadedHtmlIsOneArtifact`: run `store_reparse`, and proved.
* `SavedIsIntact`, `ImplementsArchive`: run `store_archive`, and proved. Every process saves the one
  artifact of a digest, so that these are the concurrent and repeated saves of equal
  files that `storage.py:138-140` allows. With two artifacts of one digest neither
  holds; what then still holds is in `store_reparse`.
* `LoadedMetadataDescribesText`: violated, run `store_torn` (Findings).

Bounds: two processes, one digest, two PDF parses that agree on a page and differ on
another, and an HTML reading: enough for old/new mixtures of pages, maps and metadata
under a concurrent reader. The PDF and HTML readings of one digest cannot both come
out of ingestion; having both makes the kind check live. Left-over pages of a longer
ingestion need different lengths and are covered by the proof only, which is for all
lengths.

### Workbench

State: the component's `useState` variables, the imports waiting for a download or a
file, and the analysis loops, each with the rows of the render it started from
(the closure), the row it awaits and the rows left. `analyze` sets state and sends the
first row (`Analyze`), and each `Answer` is everything between two awaits: the result,
the `finally`, and either the next row or the end of the loop. `ImportFile`,
`TrySample`, `SampleArrives`, `FileRead` and `ImportFails` split the two import
handlers at their awaits. A control that is disabled or not rendered is a guard.

Abstractions: a row is its six values with its status; ids are positions, as `row-N`
is; search, sort and paging appear as the set of ids `ToggleAll` receives.

* Run `workbench`, any clicks: `PageIsConsistent` (its parts are `SelectionIsInCatalog`,
  `OnlyValidRowsAreSent`, `BusyRowsHaveARequest` and `LabelsAreBacked`),
  `OnlyLateAnswersMislead` (both also proved), `Settles`.
* `ResultsAreCurrent` (every result stands under the row it was computed for) is
  violated, `WorkbenchReplaced.cfg` (Further configurations). `OnlyLateAnswersMislead` says that this
  is the one way it is lost: an answer to a loop that outlived its catalog.

Bounds: two files of three and one rows, one row INVALID, two mappings, two manual
products, two overlapping imports, two overlapping loops (a third adds no new pair) with
one import beside them, but not two imports and a loop (`MCNext`), and a batch limit of two so that a selection of three
exceeds it.

Fairness: weak fairness on each import's and each loop's continuation. The browser
runs a settled promise's continuation, and every `fetch` and file read settles: the
API answers or the connection ends (`api.ts` sets no timeout of its own, so it is the
browser's and the server's that this rests on). No fairness on users.

### CassetteReplay and DiscoveryPilot

State: the two stores' files, the interaction each process has under way and its step
(`load`, `call`, `save`), its last answer. `RunInteraction` is the mode check,
`Replay` is `load_for` and the outcome's return or raise, `CallReturns` and
`CallRaises` are the callable's end, `Save` and `SaveFails` the recording and the
answer. `Crash` may come between any of them. `Promote` and `Tamper` are what people
do to the files (external, at most `Edits` times); a file renamed to another key's
name, a damaged and a removed file are all among it. A key is the request it is
derived from: hashing is taken to be injective.

The pilot adds the rows, the report, and the search's calls. `SearchRow` starts the
row's interaction; `SearchDomain`, `SearchFails`, `BudgetSpent` and `SearchEnds` are
the live callable, one step per provider call; `RowDone`, `RowFails`, `RowAborts`
and `AcquisitionAborts` are what `run_live` does with the answer or the exception;
`StopPilot` stops the script. The `Driver` runs one pilot after another, LIVE or
REPLAY, so a replay meets what earlier runs, other callers and people left.

* Run `pilot`: `AnswersAreToTheRequest`, `PilotIsAccountable` (its parts are
  `ReportAnswersItsRows`, `FinishedReportIsComplete`, `SpendIsBounded` and
  `ReplayCallsNobody`; both also proved), `PilotEnds`.
* `DiscoveryPilotBudget.cfg` and `DiscoveryPilotReplay.cfg`: two statements of the
  script's docstring that do not hold (Further configurations).

Bounds: a selection of three rows (two domains; none; the first of the two domains
for the same part number, so that the keys differ in the filters only) and one of a
row with more domains than the budget of two calls; one other caller, of one of these
keys; one hit, one failure; one hand edit. One edit is enough to damage, move, remove
or promote a file at any point; the properties compare one file with one request.

Fairness: weak fairness on the pilot's own steps together. A search call ends, by its
HTTP timeout if nothing else, and the script is sequential. Nothing is assumed of the
other callers or of people.

### DomainRegistry and SourceDiscovery

State of the registry: the file (its entries with their reviews, and whether its
`[hosts]` table is there), the write each operator has under way, the confirmations
people have made, and the reviews the tool reported as written. `Confirm` is
everything `cmd_confirm` does before it writes: read, `check_review_applies`, prepare.
`write_text` truncates and then writes, so a write is `WriteBegins`, after which a
reader finds any of `Parts` of the new file, and `WriteEnds`; `WriteStops` leaves it
there. A cut inside a table does not parse or lacks a required key; the parts that
parse end between two tables. `[hosts]` is the last table and is taken as there or
not; a cut between two of its lists is not distinguished.

State of discovery: each job's record (the local variables of `discover_sources` with
the registry object it was given) and the artifact stored under each digest. `Discover` and
`SupplySource` begin a job; `SearchEnds` is classification and ranking;
`PassOver`, `BudgetExhausted` and `Fetch` are the three branches of the loop;
`FetchFails`, `Redirected` and `Downloaded` are what one hop of `fetch_url` comes to;
`Acquire` is the second authority decision with everything up to the save, and `Save`
the save. The step between the two is where other jobs come in between `exists` and
`save`. `Stop` is an exception nothing catches, or a stopped process; `Damage` is an
artifact that no longer loads (both external). The artifact store is taken as one step here, as its
abstract specification allows; what its files do is in `ArtifactStore`.

Abstractions: a URL is its host, how its text relates to each part number, and its
place among equals (kind, provider's rank, text). Every answer of a server without a
usable body is one reason, `NO_DOCUMENT`.

* Run `discovery`: `ReviewsWereConfirmed`, `StoredBytesAreLicensed` and
  `OutcomesAreEarned` (its parts are `AcquiredIsStored`, `BudgetGoesToTheBest` and
  `HopsAreBounded`), all also proved.
* Run `registry_race`: `AuditRecordsAreKept`, violated (Findings).

Bounds of `discovery`: two jobs (interchangeable), one operator who may confirm, stop
and confirm again, one maker with two hosts, a shop and a private host, four URLs, one
document, one fetch and one redirect. Two eligible URLs and one fetch exhaust the
budget; one redirect leads from an approved host to an approved, a foreign or a
private one; one document is enough for two jobs to store the same digest. The name
of the product's maker is one of the binding's authority hints; the locator hints and
other makers' hosts only refuse, and are left to the proof. `registry_race` has two
operators and two makers; that two operators never put an unconfirmed review on file
is proved for any number. No deadlock check: with the file unreadable and all jobs
ended, nothing more need happen. Safety only, no fairness.

### Fact pipeline: IdentityResolver, ClaimVerifier, FactAdjudication, FactPipeline

Each stage is a function of what it is given: `ResolveIdentity` of the reviewed
evidence, `VerifyClaim` of a claim and a parse of the document, `Adjudicate` and
`BuildAttributes` of the outcomes and the mapping rules. They are operators, with the
checks and refusals in the code's order. `FactPipeline` runs them for one caller with
the world changing in between. State: the evidence, the caller's last resolution, the
store's parse, the caller's way of calling, the artifact handed to the verifier, the
claims, the outcomes so far, what was decided of them, the row (`Unwritten` until it is
assembled). `Gather` is a reviewer's
fact (external), `Resolve` a resolution, also of another reference and at any time,
`Reingest` a replaced, lost or damaged parse, as `ArtifactStore` allows; `Extract` is
the identity gate and the validation of any proposal the model may make, `Load` the one
load the scripts make, `Verify` one claim, `Assemble` all of
`assemble_verified_attributes` including the write.

The scripts load the artifact once, and hand in neither an identity nor tables. The
functions allow a caller to hand in both and to let each claim load for itself; `caller`
has both ways, since these gates are part of what the functions promise.

Abstractions: a line is what parsing makes of it (the fragments it contains as written
and folded, its quantities, its whole phrases); brands and references are canonical;
operating points are sets of qualifiers (completeness decides nothing here). A
quantity has its magnitude in the base unit, so a conversion changes the unit only: the
reviewed units of a dimension differ by powers of ten except inches, minutes and hours,
for which `{:g}` would round differently than `SixDigits` says. Units are spelled as the
registry spells them (`KW` is `kW` already). Source keys and labels are numbers in
alphabetical order. There is one artifact, so
`ARTIFACT_MISMATCH` cannot occur, and one claim per key, as `validate_raw_extraction`
makes them. `read` in an outcome is history: the parse the claim was decided on.

* Run `facts`: `ClaimsNameAConfirmedProduct`, `ExactIsStable`,
  `GatedRowsAreOfTheProduct`, `CellsAreWitnessed`, `NoOccurrenceDisagrees`,
  `RowIsFaithful` (its parts are `ContestsAreSettled` and `NoFactIsLost`), all also proved.
* Run `cell_rounding`: `CellsReadBack`, violated (Findings).

Bounds of `facts`: a base reference with one completion, two mappings and two
confirmations, added in any order; three features with two proposals each (another
value, a dropped qualifier, a page that does not exist); a datasheet with two
occurrences of a fragment that disagree, a range catalogue whose table has rows of
the product and of a sibling, and a datasheet read so poorly that words and relations are
lost; a rating in kW and one in W that are mapped to one label or to two, or not at all;
two slots. Every decision of the adjudicator and every failure of the verifier occurs,
except `UNIT_NOT_SUPPORTED`, refused value kinds, a page the artifact lacks, and what
affine and compound qualifiers and unknown units lead to; the theorems speak of these too.
The search ends when the row is assembled (`UntilTheRow`): nothing reads the world then.
One feature precedes another in the schema and follows it in the alphabet, so that order
can matter. No deadlock check: a run whose row is written is over. Safety only: the
caller may stop anywhere.

### HTML evidence: HtmlSnapshot, HtmlIdentity, HtmlAttributes, HtmlEvidence

State: the page being parsed with the parser's stack, counters, fragments and blocks; the
artifacts on the shelf, one for each hash; and one run at a time: the artifact it loaded,
the identity found, the candidates bound; the facts made so far, each with the page and
identity it was made with (history). `Fetch` starts a page that passes the refusals before
parsing, `Read` hands the parser one token, `Refuse` is a limit reached, `Store` puts the
finished page on the shelf in the place of what had its hash. `Load`, `Resolve`, `Extract`
and `Verify` are the four calls `build_kichler` makes in this order; between any two of
them the shelf may change. A candidate is what a model answered, now or in a recording.

Abstractions: a token is a start tag, an end tag or a run of words, with the attributes
that decide whether it hides what is in it; what Python's `HTMLParser` hands over when is
external (`Tokens`, `Verbatim`). A JSON-LD text is the tree it parses to, of which a node's
type, part numbers, `@id` and properties matter; canonical part numbers are model values.
What a value's text means, how it is delivered and which unit it names is a table for each
kind. Prompts and fingerprints are left out; an answer is any sequence of proposals.

* Run `html_evidence`, everything also proved: `SnapshotIsSound`, the invariant that keeps
  hidden text out;
  `FactsAreStated`, every fact is what the page states where it is cited, through
  entries of other names, units, torn entries and text with two labels;
  `FactsAreOfTheTarget`, on a page of its maker about that product, among variants, lists
  and graphs, whatever was stored under the same hash meanwhile.

Bounds: every page of up to four of nine tokens (hidden and self-closing elements, ends
out of order, a script), which is every way two open elements can end in each other, is
parsed up to its identity; eight handmade pages, among them two parses of one hash, an
accessory beside the product, a list of variants, a graph with a main entity and a
marketplace's copy, go all the way with seven answers, one of them copied from the middle
of longer words, and three requests; two artifacts shelved and facts of two pages; while a
run has made no facts, its page may be fetched again, in either parse. Three elements, two blocks and eight words are the limits,
so that each is exceeded. No deadlock check, since a search ends; safety only.

### Unilog delivery: UnilogNormalization, UnilogClassification, UnilogAttributes, UnilogDelivery

State: the reviewed makers; the API's normalizer, built at its first question, with the
answers given; and one file: its header, the profile derived from its examples, the
catalog loaded, the lines left, rows, normalizations, proposals, the candidates found for
the next record, the records and what is written. `Review` is a person's approval,
`Analyze` one question to the API. `Open`, `ReadLine`, `NormalizeRows` and `ClassifyRows`
are the scripts' stages, each over all rows; `Offer` finds a candidate in any order,
`Build` is `record_from_raw_row` with the parts of any row the caller may hand over, and
`Write` the header and the rows.

Abstractions: a spelling is its core with suffix, punctuation, case and spacing, since
the stages of `CanonicalCatalog.match` differ in which of these they fold; descriptions
are tokens and family rules sets of phrases; a value's meaning is a table for each kind.
Where the code sorts and then takes groups or the first, the model takes the group, or
what no other precedes in the sort's key (`FirstOf`), so that it can be reasoned about;
the sorts are by a total key, up to candidates that say the same.

* Run `delivery`: `PublishedNamesAreReviewed`, against makers whose names fold to one
  spelling; `CellsAreOfTheRow`, with foreign parts offered; `ResultsAreDeterministic`
  (candidate order, and the API's answers); `DeliveredValuesAreUncontested`;
  `ExamplesRoundTrip`, which says slot by slot what an example becomes under the profile
  derived from it and its like. All are proved too.

Bounds: all sixteen spellings of one name against every two approvals out of four;
files of one and two rows with a blank line, a ragged line and a doubled column; three
headers, one without slots for what a profile has; three example catalogs (a unit spelt
by an alias, alone and beside another spelling, an unknown unit, a value without one, a
padded value, a slot without a value and one without a label); up to three of eight candidates, of
every decision. Two candidates decide whether a slot is contested; a third can be
neutral. `MCNext` keeps the questions apart: approvals come before a file is opened,
candidates are offered in files without approvals, and the API is asked about one row.
No deadlock check: a written file is the end. Safety only.

### Records: EtimSchema, ProductRecord, Evaluation

State: what a run was set up with (reviewed rules, response schemas), the payload and its
answers; the record under construction; the manifest, its split, predictions; the case and
the truth to be scored next, the tallies and the report. `SetUp` and `Extract` are `validate_raw_extraction` and what it stands on.
Nothing in the repository but tests constructs a record, so `BeginRecord`,
`AcceptAttribute`, `WithholdAttribute` and `FinishRecord` let a caller propose any
attribute over any observations, and the contract, a conjunct for each validator, decides.
`LoadManifest` makes the checks of a manifest, `PredictAny` gives a case the record's
prediction, an identity's, another system's or a failure. `score_case` is taken in steps,
so that the counts are looked at after each: `BeginCase` counts a case and its identity,
`ScoreTruth` one expected attribute, `EndCase` goes on to the next case; `BuildReport`
reports. What failed, by whatever name, is scored alike; one name is used.

Abstractions: numbers are whole thousandths and so are unit factors; what a text folds
to is a table; an operating point is a function from kinds to values. The evidence that
licenses a value, in the code a filtered list, is the set of its places in the groups; a
citation is of the first of them, in the order of the groups and of their members.

* Run `records`: `SchemaAndValidatorAgree`, which names the exceptions;
  `CandidatesSayWhatWasRead`; `AcceptedIsWitnessed`, an end-to-end reading of the
  contract's validators from evidence to record; `RecordsAreSupported`;
  `ScoresFollowTheTruth`, the counts against their definition as sets of cases and
  truths.

Bounds: one class of seven features of all types, five units of three dimensions, two with an
offset, beside one outside the registry and one that dangles; every pair of seventeen and seven
proposals for two features, and each kind of malformed or unasked answer; a record of one
attribute over seven observations (a sibling's, a family proof, an
unlocated, a dissenting, a rewritten one) under five identities; manifests of up to three cases,
six of the eight refused; three baseline predictions and failures in any combination.
One attribute suffices because no validator relates two of them. No deadlock check: a
refused proposal or a report ends it. Safety only.

## Findings

1. `store_torn`. `metadata.json` carries the page *count*, not the page hashes. When a
   re-ingestion by another parser version stops after the page map and before the
   metadata, `load` returns the new pages under the old `parser_version` without an
   error, although `storage.py:242-243` says any disagreement raises
   `CorruptArtifactError` and `ingest/models.py:25-27` wants a parser upgrade to be
   observable. HTML metadata does carry the content's hash and is not affected.
2. `registry_race`. `confirm --write` writes back a file it read before, with no lock:
   of two operators at work the last one removes the other's review, which had been
   reported as written. `review.py:368-369` says overwriting someone else's audit record is
   not something this tool does. A write that breaks off does worse: it may leave a
   registry that parses without its `blocked` list.

3. `cell_rounding`. `render_value` writes numbers with `{:g}`: 1234567 W is delivered as
   `1.23457e+06`. `policy.py:58` says "Presentation only — never a conversion."

### Further configurations

Six configurations check one statement each that the code does not keep. They are not
among the runs of `PROJECT.json`; TLC finds each violated within seconds.

* `WorkbenchReplaced.cfg` (`MCWorkbench`, `ResultsAreCurrent`). A late answer is stored under
  `row-N` of whatever catalog is on the page (`WorkbenchShell.tsx:104`).
  `ResultsWorkspace.tsx:73` says exports include only current results.
* `DiscoveryPilotBudget.cfg` (`MCDiscoveryPilot`, `RunCallsBounded`). Every row gets a new
  provider with its call counter at zero (`discover_sources.py:193`); line 164 says the
  budgets accumulate, and `discovery/errors.py:98-104` that the budget bounds a whole run.
* `DiscoveryPilotReplay.cfg` (`MCDiscoveryPilot`, `KeepsItsPlace`). Replaying a row whose
  provider call failed raises `RecordedProviderError`, which `run_live` does not catch: the
  run ends without a report, though `discover_sources.py:166-168` promises that the row
  keeps its place.
* `HtmlEvidenceConflicts.cfg` (`MCHtmlEvidence`, `StructuredConflictsAreReviewed`).
  `verification/README.md:221` says "Structured conflicts become `REVIEW`"; entries are
  compared inside the cited node only, so another node for the same part may disagree.
* `UnilogDeliveryScope.cfg` (`MCUnilogDelivery`, `AttributesStayWithTheirRecord`).
  `unilog/README.md:148` says a profile is exact-record scoped; the record is known by its
  part number alone, so another maker's row of that number receives its attributes.
* `EvaluationFalseExact.cfg` (`MCEvaluation`, `FalseExactIsOverEveryCase`).
  `eval/scoring.py:158-159` says false exact answers are measured over every case whose
  truth is not EXACT; a failed or missing case is not counted.

### Noticed while reading

With no run of their own: "select all visible" selects INVALID
rows, which `README.md:304` excludes (sending skips them, `OnlyValidRowsAreSent`); and
`request_options` leaves the page size out of the replay key
(`agent_search.py:456-468, 534`), so recordings of different page sizes share a key. `README.md:673` says authority must
survive each hop of a redirect: only the first and the last host are asked
(`service.py:193`). `models.py:197` says an accepted candidate has no reasons:
`FETCH_BUDGET_EXHAUSTED` is put on one. Bytes that are stored already keep the
publisher and URL they were first stored with, whoever fetches them next.
A completed candidate is taken as exact when a fact confirms it, also if the evidence says
that the candidate itself needs completion (`resolver.py:263`; asked for directly it is
`CONTRADICTORY`). A fact is committed although another verified fact for its label waits
in review for its conditions or unit: contests are between committed facts only
(`conflicts.py:74`; `ContestsAreSettled` speaks of these). Two claims of one key, which
extraction never makes, would leave the keeper of a merge to the input order
(`conflicts.py:121`). An outcome does not say which parser's text it was decided on.
`assemble_delivery_record.py` hands in no identity, so a row is assembled for a reference
that the evidence has since made contradictory.

In `etim/` and `extraction/`: a `ConditionSet` with one kind twice raises outside the
handler of one proposal, so that the whole payload is lost (`service.py:311`; named in
`SchemaAndValidatorAgree`). A unit that is not in the registry, and a second affine one,
are offered to the model and always refused. An ETIM unit that does not exist makes its
feature unitless. `validate_conditions` has no caller.
In `contracts/`: a group's extra members can raise its grade, which its docstring denies; a
group's representative text need not be a member's; nothing keeps a feature from
appearing twice in a record.
In `eval/`: runs in MIXED mode are not refused; of two truths for one feature both are
scored against the first prediction; accepted values for features no truth lists are in no
rate; truths of unknown applicability count against cases that failed only.
In HTML verification: a JSON-LD property with `unitText` cannot be verified with that unit
left out, and extraction's own test of what a product is is narrower than identity's.
In `unilog/`: the unit a profile derives is an example's raw one and is compared with
normalized units, so an example with an alias goes to review under its own profile; a unit
without a value is dropped without a word; row numbers of two files can agree, and are all
that ties a normalization to its row. The API goes on with the registry it first read.

## Proofs

`ArtifactStoreProofs` proves, for all processes, digests, artifacts, page counts and
kinds that satisfy `StoreAssumption` (the constants' types; every artifact has a text;
`None` and `Garbage` are no texts):

* `TypeCorrect`: `Spec => []TypeOK`
* `LoadsIngestedText`: `Spec => []LoadedTextWasIngested`
* `LoadsOneHtmlArtifact`: `Spec => []LoadedHtmlIsOneArtifact`

`LoadedTextWasIngested` is not inductive: it says nothing of a load half way through
its pages. `Inv` adds that (`Reading`): what has been read is a proper prefix of the
page map in hand, and that map is some ingestion's whole text. It also needs `Stored`
(a stored page map is always some ingestion's of that digest and kind, because it is written in
one step and nothing else writes it) and `Busy` (program counter against kind,
artifact and outcome). Page *files* need no invariant at all, which is the point of
the page map: they may be old, new, missing or garbage. The steps are grouped by what
they change. `LocalStep` covers every step that leaves the files alone; a step of a
save or of the environment is shown to keep `Stored`; `LocalState` does the rest.

For the refinement it is assumed besides that no two artifacts have one digest
(`OneIngestion`), and these are proved of `KeepSpec`, in which nothing is deleted or altered:

* `SavesAreIntact`: `KeepSpec => []SavedIsIntact`
* `StoreImplementsArchive`: `KeepSpec => ImplementsArchive`

`KeepInv` adds to `Inv` what a save has put on the disk so far (`KeptIn`), and that an
artifact with metadata has its original and all derived files (`Shelved`): a load then
never finds anything missing or foreign. It rests on `Grows`: no step undoes a file of
any artifact, since what another save writes over it is equal. In the refinement
`SaveMetadata` is the archive's one publishing step, the end of a load its answer, the
beginning of the next operation the answer's forgetting, and all else stutters.

`WorkbenchProofs` proves, for all files, mappings, manual products, imports, loops and
batch limits, when a row is not the absence of one (`NoneIsNoRecord`):

* `PageTypes`: `Spec => []TypeOK`
* `ThePageIsConsistent`: `Spec => []PageIsConsistent`
* `LateAnswers`: `Spec => OnlyLateAnswersMislead`

With `TypeOK`, the four parts of `PageIsConsistent` are an inductive invariant: a loop
awaits and has left only valid rows of the render it started from, a row is busy on some
loop's account, and a label is backed by an import or a loop, also when two of them end
in either order. `LateAnswers` takes from it that the row a loop awaits is one of its own.

`DiscoveryPilotProofs` proves, for all keys, rows, domains, budgets, hits, failures,
callers and hand edits that satisfy `ReplayAssumption` and `PilotAssumption`:

* `PilotTypes`: `Spec => []TypeOK`
* `OnlyItsOwnAnswer`: `Spec => []AnswersAreToTheRequest`
* `ThePilotIsAccountable`: `Spec => []PilotIsAccountable`

`CassetteInv` says that a recording's result answers the key inside the file, wherever
people copied that file, and that a replay never leaves its `load` step: an answer is
checked against the key inside, not against the file's name. `PilotInv` ties the driver to
the row it is at (`DriverInv`), the hits so far to the domains called (`SearchInv`), the
spend to `MaxCalls` for each row begun (`SpendInv`), and each entry to its row
(`ReportInv`). The other callers and people leave all of it alone but the files.

`SourceDiscoveryProofs` proves, for all operators, jobs, registry files, hosts, URLs,
products and documents that satisfy `RegistryAssumption` and `DiscoveryAssumption`
(types; a name is not both an authority and a locator hint; no key twice; a search finds
finitely many URLs, no two of which have the same place among equals, as their text is
the last key of the sort; a digest or an artifact is not the absence of one):

* `ReviewsAreConfirmed`: `Spec => []ReviewsWereConfirmed`
* `StoreIsLicensed`: `Spec => []StoredBytesAreLicensed`
* `DiscoveryIsTyped`: `Spec => []TypeOK`
* `ReportsAreEarned`: `Spec => []OutcomesAreEarned`

The first two are not inductive. A file that an operator is about to write, and the registry a
job took with it, are files nobody reads now and somebody relies on later:
`RegistryInv` says that they too are confirmed (every part of a confirmed file is, by
`PartsOfConfirmed`), `JobInv` that a job about to save has a licence for the host its
bytes came from. The licence follows from a confirmed registry and the second
authority decision (`ApprovedIsLicensed`); the first one, on the locator, is not used.
Confirmations are never withdrawn, so a licence is never lost.

The other two come from `ReportInv`: what the step a job is at says of its fields
(`StepKept`), that as many candidates are marked fetched as attempts were paid for and
that a candidate passed over without a fetch met an empty budget after all fetched ones
(`BudgetKept`), that a status goes with its reason or its artifact (`FatesKept`), that
the trail of a download starts at the candidate and never leaves the safe hosts
(`TrailKept`); and the store never forgets a digest. That the ranking holds every
candidate once is a matter of counting: a candidate's place is one more than the number
of those before it (`Place`), and places are a bijection because the order is total.

`FactPipelineProofs` proves, for all references, evidence, documents, proposals, mapping
rules and ways of calling that satisfy `PipelineAssumption` (the facts and features are
finite sets; an identity is not the absence of one; a missing unit is no unit, a missing
parse no parse, a missing reference no reference; lines, features, labels and slots are
numbered, priorities are integers):

* `ClaimsAreConfirmed`: `Spec => []ClaimsNameAConfirmedProduct`
* `ExactAnswersAreStable`: `Spec => ExactIsStable`
* `GatedRows`: `Spec => GatedRowsAreOfTheProduct`
* `WrittenCellsAreWitnessed`: `Spec => []CellsAreWitnessed`
* `OccurrencesAgree`: `Spec => []NoOccurrenceDisagrees`
* `RowsAreFaithful`: `Spec => []RowIsFaithful`
* `PipelineIsTyped`: `Spec => []TypeOK`

The functions come first: what an exact answer says (`ExactAnswers`), that two of them to
one question on growing evidence are one product (`ExactAnswersAgree`), that a span the
verifier calls exact is in a line that speaks for the product (`VerifiedIsWitnessed`),
that a conversion keeps support (`ConversionKeepsSupport`), and what a committed fact and
those merged into it have in common (`CommittedFacts`). `ClaimsNameAConfirmedProduct`
becomes inductive with `PipelineInv`: the last resolution is what the resolver made of
some part of the evidence there is now (`ResolvedFromEvidence`). `CellsAreWitnessed`
needs `OutcomesInv`: all claims are of one product, each outcome is its claim's, and each
exact span is witnessed by the parse it was decided on, which may be stored no longer;
and every other occurrence of a fragment found as written says the same, which gives
`OccurrencesAgree`.

`RowsAreFaithful` rests on `RowInv`: a row is what adjudication makes of all outcomes
under some identity, and nothing it was made of changes afterwards. The facts that want
a label are one group; if they agree, its `Keeper` (least priority, then key) holds the
cell and the others back it, and if not, all go to review (`SettledFacts`). A cell's slot
is one more than the number of keepers that precede it, so two cells never share one
(`SlotsAreDistinct`), and no slot exceeds the number of cells, which a written row
has room for. `PipelineIsTyped` needs that every refusal of the verifier names a reason
(`ReasonsAreNamed`, `Verdicts`) and that only an `EXACT` answer names a reference
(`ExactNamesOne`).

`HtmlEvidenceProofs` proves, for pages of any tokens, any limits, answers and requests that
satisfy `HtmlLimits`, `SourceAssumption` (tokens are start tags, end tags and texts),
`HtmlProfileAssumption`, `StructureAssumption` (a JSON-LD block has finitely many nodes,
its properties and their units are lists), `AnswerAssumption` (a locator points at text or
into JSON-LD, the two classes there are) and `NoneIsNoReason` (no failure is the absence
of one):

* `SnapshotsAreSound`: `Spec => []SnapshotIsSound`
* `EvidenceIsTyped`: `Spec => []TypeOK`
* `FactsAreOfTheirTarget`: `Spec => []FactsAreOfTheTarget`
* `FactsAreWhatPagesState`: `Spec => []FactsAreStated`

The two halves of the first are inductive together with the shape of the parser (`ParserInv`); a step
that fails keeps them too. Each of the three handlers first gets a lemma that says what it does to the stack, the count, the fragments
and their length, and then: a frame pushed is counted (`OneMoreFrame`), a frame closed
takes the count of all above it along (`FewerFrames`, a bijection between what is cut and
what was above), and a fragment appended starts where the last one ended (`NextTile`).

The others rest on `EveryInv`. What is left to read is an end of the page (`ReadInv`); what
is on the shelf, or was loaded from it, is what some page was parsed into, one artifact
for each hash (`ShelfInv`); an identity was resolved from the page at hand and the
candidates bound to it (`RunInv`); and a fact is a candidate that was verified against a
page with what that page was found to be about (`FactsInv`). So facts can be judged by the
page they carry, whatever the shelf holds by now. From there on it is functions:
`ExactlyTheTarget`, an exact identity means that all main products carry the one part
number; `EntriesAgree`, the entries of a node that could give the value all mean one
thing; `NoOtherLabel`, between label and value no label of another feature stands.

`UnilogDeliveryProofs` proves, for all makers, spellings, files, examples, schemas and
offers that satisfy `DeliveryAssumption` (a header is not the absence of one; lines are
sequences; an example gives the required columns only and is well formed, and so is a
candidate), `CodePointOrder` (texts and units are compared by their place in one order),
`EveryMeaningFolds` (a meaning of an enumerated value can be compared without its case),
`ReadsEveryKind` and `NoneIsNoObjection`:

* `NamesAreReviewed`: `Spec => []PublishedNamesAreReviewed`
* `RecordsAreTheirRows`: `Spec => []CellsAreOfTheRow`
* `DeliveryIsTyped`: `Spec => []TypeOK`
* `ResultsDoNotDependOnOrder`: `Spec => []ResultsAreDeterministic`
* `ValuesAreVouchedFor`: `Spec => []DeliveredValuesAreUncontested`
* `ExamplesComeBack`: `Spec => []ExamplesRoundTrip`

The functions again come first. `DecidingRule`: the rule `match` decides on has a name that
folds to the row's at the first stage at which any rule's does, so no reviewed name is nearer.
`CellsOfARecord`: the row, its names, its taxonomy and its attributes set different columns
of a record, so that a cell is what one of them put there. No property is inductive: `Inv` adds that
rows are numbered upwards, since numbers are all that ties the stages' results to
their row (`RowsAreNumbered`, `StagesAreOfTheRows`), that a catalog's rules are approved
entries of the registry (`CatalogIsReviewed`), which never shrinks, that a profile is
the one derived from its examples (`ProfileIsDerived`), and that a record's values are
slots of the mapping of what was offered for it (`IsMapped`). `WrittenInv` and
`AnswersInv` do the same for what is written and what the API has answered.

That the order of candidates decides nothing goes in three steps: the least key exists and
what is taken for it is least (`FirstOfIsFirst`); two candidates with the same key are
delivered alike (`TiesAgree`); and what is left of a mapping is a function of the set of
candidates of each slot (`GroupsFillAlike`). A value that reaches a slot is a committed
candidate's, and had there been a different meaning or form among the others they would
have been an objection (`NoObjection`, `ResolvedSlot`, `FilledSlot`). 
`ExamplesComeBack` says what each slot of an example is delivered as, and when a person is
asked. A value is delivered stripped (`parse_text`; loading does not strip it) and with the
canonical spelling of its unit, or with none if it has none. It is not delivered, and the
mapping is a `REVIEW`, when nobody reviewed its unit, or when the unit is an alias that
every example with a value for the slot spells alike: the derived profile then expects the
raw spelling and compares it with the canonical one (`attributes.py:797-801`, `:608-614`).
The other slots of such an example are filled all the same. A slot without a value comes
back as its label, and loses its unit if it has one, so that `round_trips` of
`scripts/analyze_attributes.py`, which compares raw triplets, holds of an example whose
cells are trimmed, whose units are spelt canonically and stand beside values only. A cell
of nothing but blanks makes `parse_text` raise and maps to nothing; `DeliveryAssumption`
leaves it out. The proof: an example has one candidate for each of its slots
(`OneCandidateASlot`, `NothingSaid`); the unit its profile expects is the one all examples
share (`SharedUnit`); and only that unit or an unknown one stands against the candidate
(`RefusedUnits`, `AloneInItsSlot`, `SlotComesBack`).

`EvaluationProofs` proves, for all archives, units, payloads, observations, identities,
manifests, splits and predictions of other systems that satisfy `UnitsAreReviewed` (a
reviewed unit has a positive factor) and `EvaluationAssumption`:

* `EvaluationIsTyped`: `Spec => []TypeOK`
* `SchemaAndValidatorAgreeAlways`: `Spec => []SchemaAndValidatorAgree`
* `CandidatesSayWhatWasReadAlways`: `Spec => []CandidatesSayWhatWasRead`
* `AcceptedIsWitnessedAlways`: `Spec => []AcceptedIsWitnessed`
* `RecordsAreSupportedAlways`: `Spec => []RecordsAreSupported`
* `ScoresFollowTheTruthAlways`: `Spec => []ScoresFollowTheTruth`

`EvaluationAssumption` says of the constants what `load_etim`, pydantic and the manifest's
types see to: pages and sort keys are numbers, a proposal has one of three shapes, truths
and predicted attributes are lists, a truth has an applicability and a prediction an
outcome and a grade or none, and a prediction of another system does not name itself
ours. `ConvertsExactly` is the one restriction beyond that: a payload's numbers are such
that conversion leaves no remainder in thousandths. The code divides decimals and returns a
float (`units.py:178-179`), the model divides integers: how either rounds is outside the
theorem.

The extraction: `ExtractionIsValid` adds to what is checked that schemas are those built
from the class and the reviewed rules and that answers are those of one payload. That the
response schema and the validators agree goes type by type (`UnitIsAccepted`,
`NumbersAreAccepted` and those beside it). The proof found an exception that the run's
archive did not hold: an archive may give a unit to a logical or a text feature, the
schema then asks for that unit, and the validators refuse it. It is now
named in the property, and the run's archive has such a feature; the exception for
offsets had likewise covered one direction only.

The record: `RecordIsValid` says only that a record passed its contract. All of
`AcceptedIsWitnessed` follows from the conjuncts of `IsAttribute` and `IsRecord`: the
anchor ties eligible evidence to the record's product, and a grade is the one the rule
derives from the witnesses (`BestGradeIsEarned`).

The report: `RunIsTyped` says that attributes are built by their contract, that the record
is of them, that every accepted attribute of a prediction of ours is cited (`IsCited`), and
where in the split the run is; it needs that the places of a split can be put in order,
which goes by counting (`PlacesAreOrdered`). `ScoresAreCounted` is the inductive form of
`ScoresFollowTheTruth`: the identities between tallies (`IsBalanced`) and the tallies as
cardinalities of sets of cases and truths. Each step adds one element to those sets and one
to those counts (`BegunCaseIsCounted`, `ScoredTruthIsCounted`, `EndedCaseIsCounted`, over
`CaseIsScored`, `AnsweredIsScored` and `AbsentIsScored`). `ReportIsOfTheScores` does the
same for the report: what it counts as failed is what did not succeed.

That a least place, a first stage, a topmost frame or a keeper exists is proved in each
module that needs it, from the well-foundedness of the numbers or by counting.

Only model-checked: the liveness properties `Settles` and `PilotEnds`, which are beyond
the prover. Every other property of a passing run is stated by a theorem. The sums of
tokens and of costs in a report are folds over any set, about which the prover has no
theorems; no property states them, only whether tokens were reported at all.

## Not modelled

See `components` in `PROJECT.json`, each with its reason. In short: reading PDF and XLSX
bytes, prompting, and formatting of reports are data and left out, and so are query
building with its diagnosis, string building that unit tests reach well; the demo site,
whose one hook keeps the answer of one fetch; the conformance report of a delivery file;
ETIM's search by synonym and import report; latency percentiles and fingerprints of an
evaluation; and the listing of recorded cases, which reads immutable files.
In modelled components, `request`/`response` payloads, redaction, key hashing,
candidate merging and report text are left out; `load_original_bytes`, `hashes()` and
the read-only refusal of the artifact store too.

## Plan

In this order, most important first:

1. *done* `ArtifactArchive`, `ArtifactStore`: runs `store_*`; type correctness, the
   text a load returns and the refinement proved.
2. *done* `Workbench`: run `workbench`; its safety properties proved.
3. *done* `CassetteReplay`, `DiscoveryPilot`: run `pilot`; its safety properties proved.
4. *done* `DomainRegistry`, `SourceDiscovery`: runs `discovery`, `registry_race`;
   all safety properties proved.
5. *done* `IdentityResolver`, `ClaimVerifier`, `FactAdjudication`, `FactPipeline`: runs
   `facts`, `cell_rounding`; all properties of `facts` proved.
6. *done* `HtmlSnapshot`, `HtmlIdentity`, `HtmlAttributes`, `HtmlEvidence`: run
   `html_evidence`; its properties proved.
7. *done* `UnilogNormalization`, `UnilogClassification`, `UnilogAttributes`,
   `UnilogDelivery`: run `delivery`; its properties proved.
8. *done* `EtimSchema`, `ProductRecord`, `Evaluation`: run `records`; its properties
   proved.
