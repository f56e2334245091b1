---------------------------- MODULE DiscoveryPilot ----------------------------
(***************************************************************************)
(* scripts/discover_sources.py run_live, over discovery/agent_search.py    *)
(* and the replay layer: a discovery pilot.                                *)
(*                                                                         *)
(* A pilot goes through the selected rows.  A row whose manufacturer has   *)
(* no reviewed domain is reported without a call; for the others one       *)
(* interaction searches the part number on each reviewed domain in turn,   *)
(* under a call budget, LIVE or in REPLAY.  The Driver runs one pilot      *)
(* after another; the other processes are the other callers of the replay  *)
(* layer: another pilot, an extraction, an evaluation.                     *)
(*                                                                         *)
(* What one domain answers is one hit, tagged with the part number and the *)
(* domain it was asked for.  Merging, classification and acquisition of    *)
(* what was found are left out, but for acquisition's uncaught error.      *)
(***************************************************************************)
EXTENDS CassetteReplay

CONSTANTS
    Driver,     \* the process that runs pilots
    Pilots,     \* the row selections a pilot is started on: sequences of rows
    MPNs, Domains,
    Hits,       \* what a provider may have found
    Failures,   \* the SearchProviderErrors of a failed call
    Budget,     \* SearchBudgetExceededError, not one of them
    MaxCalls,   \* AgentSearchLimits.max_calls
    OtherKeys   \* bound: the requests the other callers make

Rows == [mpn : MPNs, domains : Seq(Domains)]
PilotRows == UNION {{rows[i] : i \in DOMAIN rows} : rows \in Pilots}

\* The replay key: request_options folds every domain's filter into it.
KeyOf(row) == [query |-> row.mpn, filters |-> row.domains]

\* What the provider may answer to a row: a hit of each domain, in order.
Found(row) ==
    {[i \in DOMAIN row.domains |-> [mpn |-> row.mpn, domain |-> row.domains[i], hit |-> h[i]]] :
        h \in [DOMAIN row.domains -> Hits]}

ASSUME PilotAssumption ==
    /\ Driver \in Procs
    /\ Pilots \subseteq Seq(Rows)
    /\ \A row \in PilotRows : row.domains # << >> =>
          KeyOf(row) \in Keys /\ Replies[KeyOf(row)] = Found(row)
    /\ Failures \cup {Budget} \subseteq Errors /\ Budget \notin Failures
    /\ MaxCalls \in Nat \ {0}
    /\ OtherKeys \subseteq Keys
    /\ None \notin Procs \cup Keys \cup Errors \cup {Opaque}

VARIABLES
    status,     \* of the Driver's pilot: "none", "running", "finished", "aborted"
    rows,       \* its rows
    mode,       \* LIVE or REPLAY
    at,         \* the row it is at
    report,     \* what it has for the rows before
    found,      \* the hits of the search under way
    calls,      \* calls_made of that search's provider
    spent,      \* calls the pilot has made altogether
    cause       \* the answer that aborted it, or None

pilot == <<status, rows, mode, at, report, found, calls, spent, cause>>
vars == <<replay, pilot>>

Entries == [kind : {"review required", "failed"}] \cup [kind : {"result"}, value : Responses]

TypeOK ==
    /\ CassetteTypeOK
    /\ status \in {"none", "running", "finished", "aborted"}
    /\ rows \in Pilots \cup {<< >>} /\ mode \in {"LIVE", "REPLAY"}
    /\ at \in 1 .. Len(rows) + 1
    /\ report \in Seq(Entries)
    /\ found \in Seq([mpn : MPNs, domain : Domains, hit : Hits])
    /\ calls \in Nat /\ spent \in Nat
    /\ cause = None \/ cause \in Errors \cup Kinds

Row == rows[at]

Init ==
    /\ CassetteInit
    /\ status = "none" /\ rows = << >> /\ mode = "REPLAY"
    /\ at = 1 /\ report = << >> /\ found = << >> /\ calls = 0 /\ spent = 0 /\ cause = None

------------------------------------------------------------------------------
(* run_live *)

StartPilot(selection, m) ==
    /\ status # "running" /\ run[Driver] = None
    /\ status' = "running" /\ rows' = selection /\ mode' = m
    /\ at' = 1 /\ report' = << >> /\ found' = << >> /\ calls' = 0 /\ spent' = 0 /\ cause' = None
    /\ answer' = [answer EXCEPT ![Driver] = None]
    /\ UNCHANGED <<cassette, run, edits>>

\* The pilot is at a row, with nothing under way for it.
AtRow == status = "running" /\ run[Driver] = None /\ answer[Driver] = None /\ at <= Len(rows)

Report(entry) ==
    /\ report' = Append(report, entry)
    /\ at' = at + 1

SkipRow ==
    /\ AtRow /\ Row.domains = << >>
    /\ Report([kind |-> "review required"])
    /\ UNCHANGED <<replay, status, rows, mode, found, calls, spent, cause>>

\* for_manufacturer and for_pdfs make a provider of the row's own: calls is 0.
SearchRow ==
    /\ AtRow /\ Row.domains # << >>
    /\ RunInteraction(Driver, "runtime", KeyOf(Row), mode, TRUE)
    /\ UNCHANGED pilot

(* AgentSearchProvider.search, the Driver's live callable *)

Searching == status = "running" /\ run[Driver] # None /\ run[Driver].step = "call"

NextDomain == Row.domains[Len(found) + 1]

BudgetLeft == calls < MaxCalls

SearchDomain(hit) ==
    /\ Searching /\ Len(found) < Len(Row.domains) /\ BudgetLeft
    /\ calls' = calls + 1 /\ spent' = spent + 1
    /\ found' = Append(found, [mpn |-> Row.mpn, domain |-> NextDomain, hit |-> hit])
    /\ UNCHANGED <<replay, status, rows, mode, at, report, cause>>

\* The search is over, and its provider is dropped with it.
Drop == found' = << >> /\ calls' = 0

\* Mutant: what the other domains gave is returned.
SearchFailsPartly(error) ==
    /\ Searching /\ Len(found) < Len(Row.domains) /\ BudgetLeft
    /\ CallReturns(Driver, found)
    /\ Drop /\ spent' = spent + 1
    /\ UNCHANGED <<status, rows, mode, at, report, cause>>

\* One failed call loses the hits of the domains before it.
SearchFails(error) ==
    /\ Searching /\ Len(found) < Len(Row.domains) /\ BudgetLeft
    /\ CallRaises(Driver, error)
    /\ Drop /\ spent' = spent + 1
    /\ UNCHANGED <<status, rows, mode, at, report, cause>>

\* Mutant: the search waits for budget instead of raising.
BudgetAwaited ==
    /\ Searching /\ Len(found) < Len(Row.domains) /\ ~BudgetLeft
    /\ UNCHANGED vars

BudgetSpent ==
    /\ Searching /\ Len(found) < Len(Row.domains) /\ ~BudgetLeft
    /\ CallRaises(Driver, Budget)
    /\ Drop
    /\ UNCHANGED <<status, rows, mode, at, report, spent, cause>>

SearchEnds ==
    /\ Searching /\ Len(found) = Len(Row.domains)
    /\ CallReturns(Driver, found)
    /\ Drop
    /\ UNCHANGED <<status, rows, mode, at, report, spent, cause>>

(* What run_live does with the interaction's answer *)

Answered == status = "running" /\ answer[Driver] # None

Take ==
    /\ Answered
    /\ answer' = [answer EXCEPT ![Driver] = None]
    /\ UNCHANGED <<cassette, run, edits>>

Abort(why) ==
    /\ Take
    /\ status' = "aborted" /\ cause' = why
    /\ UNCHANGED <<rows, mode, at, report, found, calls, spent>>

RowDone ==
    /\ Take /\ answer[Driver].kind = "response"
    /\ Report([kind |-> "result", value |-> answer[Driver].value])
    /\ UNCHANGED <<status, rows, mode, found, calls, spent, cause>>

\* A SearchProviderError is the row's result.
RowFailed == answer[Driver].kind = "provider error" /\ answer[Driver].value \in Failures

RowFails ==
    /\ Take /\ RowFailed
    /\ Report([kind |-> "failed"])
    /\ UNCHANGED <<status, rows, mode, found, calls, spent, cause>>

\* Every other exception leaves run_live, and nothing is printed.
RowAborts ==
    /\ Answered /\ answer[Driver].kind # "response" /\ ~RowFailed
    /\ Abort(IF answer[Driver].value \in Errors THEN answer[Driver].value
             ELSE answer[Driver].kind)

\* Acquiring what was found met a stored artifact that does not load.
AcquisitionAborts ==
    /\ Answered /\ answer[Driver].kind = "response"
    /\ Abort("invalid")

Finish ==
    /\ status = "running" /\ at > Len(rows)
    /\ status' = "finished"
    /\ UNCHANGED <<replay, rows, mode, at, report, found, calls, spent, cause>>

\* The pilot's process is stopped, and what it had is gone.
StopPilot ==
    /\ status = "running"
    /\ status' = "none" /\ rows' = << >> /\ mode' = "REPLAY"
    /\ at' = 1 /\ report' = << >> /\ spent' = 0 /\ cause' = None
    /\ Drop
    /\ run' = [run EXCEPT ![Driver] = None]
    /\ answer' = [answer EXCEPT ![Driver] = None]
    /\ UNCHANGED <<cassette, edits>>

------------------------------------------------------------------------------
Search == (\E hit \in Hits : SearchDomain(hit)) \/ (\E e \in Failures : SearchFails(e))
          \/ BudgetSpent \/ SearchEnds

DriverReplays == (Replay(Driver) \/ Save(Driver) \/ SaveFails(Driver)) /\ UNCHANGED pilot

PilotGoesOn ==
    \/ SkipRow \/ SearchRow \/ Search \/ DriverReplays
    \/ RowDone \/ RowFails \/ RowAborts \/ AcquisitionAborts
    \/ Finish

\* The other callers, and the people who handle the files.
Others ==
    /\ \/ \E p \in Procs \ {Driver} :
            \/ \E s \in Stores, k \in OtherKeys, m \in Modes, callable \in BOOLEAN :
                  RunInteraction(p, s, k, m, callable)
            \/ Replay(p) \/ CallEnds(p) \/ Save(p) \/ SaveFails(p) \/ Crash(p)
       \/ People
    /\ UNCHANGED pilot

Next ==
    \/ \E selection \in Pilots, m \in {"LIVE", "REPLAY"} : StartPilot(selection, m)
    \/ PilotGoesOn
    \/ StopPilot
    \/ Others

\* A search call ends, by its timeout if nothing else, and the script runs on.
Spec == Init /\ [][Next]_vars /\ WF_vars(PilotGoesOn)

------------------------------------------------------------------------------
(* Properties *)

EntryFits(entry, row) ==
    CASE entry.kind = "result" -> entry.value \in Found(row)
      [] entry.kind = "review required" -> row.domains = << >>
      [] OTHER -> row.domains # << >>

\* What the report has for row i is what the provider answered to that row's
\* part number on every one of its manufacturer's reviewed domains, in order:
\* never part of the domains, nor a recording of another row, whatever was
\* recorded, overwritten or moved meanwhile; and only a row with no reviewed
\* domain is reported as needing review (agent_search.py:456-468, 523-528).
ReportAnswersItsRows ==
    \A i \in DOMAIN report : EntryFits(report[i], rows[i])

\* "The report shows every selected row rather than only the ones that
\* worked" (discover_sources.py:166-168), once there is a report.
FinishedReportIsComplete == status = "finished" => Len(report) = Len(rows)

\* No row is billed for more than the budget of its provider, and a REPLAY
\* pilot is not billed at all (agent_search.py:174-177).
SpendIsBounded == spent <= (IF mode = "LIVE" THEN at * MaxCalls ELSE 0)

\* "One provider, so budgets accumulate" (discover_sources.py:164): one run
\* makes no more calls than the budget.  It does not hold.
RunCallsBounded == spent <= MaxCalls

\* "A row whose provider call failed keeps its place with result=None"
\* (discover_sources.py:166-167), replayed or live.  It does not hold.
KeepsItsPlace == cause \notin Failures

\* Every pilot ends: finished, aborted or stopped.
PilotEnds == status = "running" ~> status # "running"

\* Whatever failed, stopped, was recorded over or edited: each entry of the
\* report answers the row in its place, a pilot that finished reports every
\* row, what was paid for is what the rows begun may cost, and no replay, the
\* pilot's or another caller's, reaches for a provider
\* (discover_sources.py:155-209, runner.py:129-179).
PilotIsAccountable ==
    /\ ReportAnswersItsRows
    /\ FinishedReportIsComplete
    /\ SpendIsBounded
    /\ ReplayCallsNobody
==============================================================================
