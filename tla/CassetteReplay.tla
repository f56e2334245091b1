---------------------------- MODULE CassetteReplay ----------------------------
(***************************************************************************)
(* replay/runner.py and replay/store.py: the wrapper around every call to  *)
(* a search provider or a model, and the cassettes it records.             *)
(*                                                                         *)
(* LIVE runs the caller's callable, records what it returned or raised as  *)
(* the cassette of the request's key, and only then answers.  REPLAY       *)
(* answers from the cassette and never runs the callable.  Several         *)
(* processes share the two stores; between the provider's answer and the   *)
(* recording a process may stop.  A cassette is replaced atomically.       *)
(*                                                                         *)
(* A key stands for the digest of the request it is derived from.  What    *)
(* people do to the files by hand is modelled as well: promotion of a      *)
(* recording into the fixtures, and edits the loader must notice.          *)
(***************************************************************************)
EXTENDS Naturals, Sequences

CONSTANTS
    Procs,      \* processes calling run_interaction
    Keys,       \* cassette keys
    Replies,    \* Replies[k]: the responses a provider may give to request k
    Errors,     \* exceptions a callable may raise
    Opaque,     \* a response JSON cannot hold
    Edits,      \* bound: how often people touch the files
    None

Stores == {"runtime", "fixtures"}
Modes == {"LIVE", "REPLAY", "MIXED"}
Responses == UNION {Replies[k] : k \in Keys}
Outcomes == [outcome : {"success"}, value : Responses] \cup [outcome : {"error"}, value : Errors]

VARIABLES
    cassette,   \* cassette[s][k]: the file named after key k in store s
    run,        \* run[p]: the interaction process p has under way, or None
    answer,     \* answer[p]: what its last run_interaction returned or raised
    edits       \* how often people touched the files

replay == <<cassette, run, answer, edits>>

\* A file holds the key it was recorded under, beside its outcome.  "damaged"
\* is any file that does not parse, names another format or does not validate.
Recordings == [key : Keys, result : Outcomes]
Files == [kind : {"cassette"}, recording : Recordings] \cup [kind : {"damaged", "absent"}]

Absent == [kind |-> "absent"]

Runs == [store : Stores, key : Keys, mode : Modes, step : {"load", "call", "save"},
         result : Outcomes \cup {None}]

\* "response" is an InteractionResult; the others are raised.  "refused"
\* stands for the errors of a request that cannot be run or recorded.
Kinds == {"response", "provider error", "recorded error", "miss", "invalid", "refused"}

Answers == [key : Keys, kind : Kinds, value : Responses \cup Errors \cup {None}]

ASSUME ReplayAssumption == Edits \in Nat /\ None \notin Runs \cup Answers

CassetteTypeOK ==
    /\ cassette \in [Stores -> [Keys -> Files]]
    /\ run \in [Procs -> Runs \cup {None}]
    /\ answer \in [Procs -> Answers \cup {None}]
    /\ edits \in 0 .. Edits

CassetteInit ==
    /\ cassette = [s \in Stores |-> [k \in Keys |-> Absent]]
    /\ run = [p \in Procs |-> None]
    /\ answer = [p \in Procs |-> None]
    /\ edits = 0

------------------------------------------------------------------------------
(* run_interaction *)

Answer(p, k, kind, value) ==
    /\ run' = [run EXCEPT ![p] = None]
    /\ answer' = [answer EXCEPT ![p] = [key |-> k, kind |-> kind, value |-> value]]

\* MIXED cannot be asked for, and LIVE needs something to call.
RunInteraction(p, s, k, mode, callable) ==
    /\ run[p] = None
    /\ IF mode = "MIXED" \/ (mode = "LIVE" /\ ~callable)
       THEN Answer(p, k, "refused", None)
       ELSE /\ run' = [run EXCEPT ![p] =
                        [store |-> s, key |-> k, mode |-> mode, result |-> None,
                         step |-> IF mode = "REPLAY" THEN "load" ELSE "call"]]
            /\ answer' = [answer EXCEPT ![p] = None]
    /\ UNCHANGED <<cassette, edits>>

\* _read: the stored key, derived again from the stored request, has to be
\* the one the file is named after.
\* Mutant: the file's key is not compared.
Parses(file, k) == file.kind = "cassette"

Valid(file, k) == file.kind = "cassette" /\ file.recording.key = k

\* A recorded failure is raised again, as RecordedProviderError.
Replay(p) ==
    /\ run[p] # None /\ run[p].step = "load"
    /\ LET r == run[p]
           file == cassette[r.store][r.key]
           recorded == file.recording.result
       IN  \/ file.kind = "absent" /\ Answer(p, r.key, "miss", None)
           \/ /\ file.kind # "absent" /\ ~Valid(file, r.key)
              /\ Answer(p, r.key, "invalid", None)
           \/ /\ Valid(file, r.key)
              /\ Answer(p, r.key,
                        IF recorded.outcome = "error" THEN "recorded error" ELSE "response",
                        recorded.value)
    /\ UNCHANGED <<cassette, edits>>

\* Mutant: any response is recorded, JSON or not.
CallReturnsUnchecked(p, value) ==
    /\ run[p] # None /\ run[p].step = "call"
    /\ run' = [run EXCEPT ![p].step = "save",
                          ![p].result = [outcome |-> "success", value |-> value]]
    /\ UNCHANGED <<cassette, answer, edits>>

\* The callable returned.  A response JSON cannot hold fails the cassette's
\* validation: nothing is recorded of it.
CallReturns(p, value) ==
    /\ run[p] # None /\ run[p].step = "call"
    /\ IF value = Opaque
       THEN Answer(p, run[p].key, "refused", None)
       ELSE /\ run' = [run EXCEPT ![p].step = "save",
                                  ![p].result = [outcome |-> "success", value |-> value]]
            /\ UNCHANGED answer
    /\ UNCHANGED <<cassette, edits>>

\* It raised, which is recorded too before it is raised again.
CallRaises(p, error) ==
    /\ run[p] # None /\ run[p].step = "call"
    /\ run' = [run EXCEPT ![p].step = "save",
                          ![p].result = [outcome |-> "error", value |-> error]]
    /\ UNCHANGED <<cassette, answer, edits>>

\* The cassette replaces whatever was recorded under the key.  The fixtures
\* refuse it, and the provider's answer is lost with the refusal.
Save(p) ==
    /\ run[p] # None /\ run[p].step = "save"
    /\ LET r == run[p]
       IN  IF r.store = "fixtures"
           THEN Answer(p, r.key, "invalid", None) /\ UNCHANGED cassette
           ELSE /\ cassette' = [cassette EXCEPT ![r.store][r.key] =
                    [kind |-> "cassette", recording |-> [key |-> r.key, result |-> r.result]]]
                /\ Answer(p, r.key,
                          IF r.result.outcome = "error" THEN "provider error" ELSE "response",
                          r.result.value)
    /\ UNCHANGED edits

\* The temporary file cannot be written or renamed: the old cassette stays.
SaveFails(p) ==
    /\ run[p] # None /\ run[p].step = "save"
    /\ Answer(p, run[p].key, "refused", None)
    /\ UNCHANGED <<cassette, edits>>

\* The process stops.
Crash(p) ==
    /\ run[p] # None
    /\ run' = [run EXCEPT ![p] = None]
    /\ answer' = [answer EXCEPT ![p] = None]
    /\ UNCHANGED <<cassette, edits>>

------------------------------------------------------------------------------
(* People *)

Edit(s, k, file) ==
    /\ edits < Edits
    /\ edits' = edits + 1
    /\ cassette' = [cassette EXCEPT ![s][k] = file]
    /\ UNCHANGED <<run, answer>>

\* A reviewed recording is copied into the fixtures.
Promote(k) == /\ cassette["runtime"][k].kind = "cassette"
              /\ Edit("fixtures", k, cassette["runtime"][k])

\* A file is edited by hand, copied to another key's name, or removed.
Tamper(s, k) ==
    \/ /\ cassette[s][k].kind = "cassette"
       /\ \/ Edit(s, k, [kind |-> "damaged"])
          \/ \E other \in Keys \ {k} : Edit(s, other, cassette[s][k])
    \/ cassette[s][k] # Absent /\ Edit(s, k, Absent)

CallEnds(p) ==
    /\ run[p] # None
    /\ \/ \E value \in Replies[run[p].key] \cup {Opaque} : CallReturns(p, value)
       \/ \E error \in Errors : CallRaises(p, error)

People == \E k \in Keys : Promote(k) \/ \E s \in Stores : Tamper(s, k)

------------------------------------------------------------------------------
(* Properties *)

\* A response somebody holds, live or replayed, is one the provider gave to
\* that very request: no damaged file and no recording of another request is
\* ever served, whoever wrote, replaced, promoted or renamed the files
\* (store.py:98-134).
AnswersAreToTheRequest ==
    \A p \in Procs : answer[p] # None /\ answer[p].kind = "response" =>
        answer[p].value \in Replies[answer[p].key]

\* "In REPLAY the live_callable is never touched - not on a miss, not on a
\* malformed cassette, not on a recorded failure" (runner.py:149-152).
ReplayCallsNobody ==
    \A p \in Procs : run[p] # None /\ run[p].mode = "REPLAY" => run[p].step = "load"
==============================================================================
