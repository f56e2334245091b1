-------------------------- MODULE DiscoveryPilotProofs --------------------------
(***************************************************************************)
(* Proofs about the replay layer and the discovery pilot, for every number *)
(* of processes, all requests, replies, rows and budgets that satisfy the  *)
(* assumptions, and any number of edits.                                   *)
(***************************************************************************)
EXTENDS DiscoveryPilot, SequenceTheorems, TLAPS

(***************************************************************************)
(* The replay layer.  A recording is sound when a success in it is a reply *)
(* to the request inside it, wherever the file has been copied since.      *)
(***************************************************************************)
SoundRecording(r) == r.result.outcome = "success" => r.result.value \in Replies[r.key]

FilesAreSound ==
    \A s \in Stores, k \in Keys :
        cassette[s][k].kind = "cassette" => SoundRecording(cassette[s][k].recording)

SoundRun(r) ==
    /\ r.mode = "REPLAY" => r.step = "load"
    /\ r.step = "save" => r.result \in Outcomes /\ SoundRecording(r)

RunsAreSound == \A p \in Procs : run[p] # None => SoundRun(run[p])

CassetteInv ==
    /\ CassetteTypeOK
    /\ FilesAreSound
    /\ RunsAreSound
    /\ AnswersAreToTheRequest

ReplySteps(p) ==
    \/ \E s \in Stores, k \in Keys, m \in Modes, callable \in BOOLEAN :
          RunInteraction(p, s, k, m, callable)
    \/ Replay(p) \/ CallEnds(p) \/ Save(p) \/ SaveFails(p) \/ Crash(p)

\* An answer ends the interaction of its process, and nobody else's.
LEMMA AnswerEnds ==
    ASSUME CassetteInv, NEW p \in Procs, NEW k \in Keys, NEW kind \in Kinds,
           NEW value \in Responses \cup Errors \cup {None},
           kind = "response" => value \in Replies[k],
           Answer(p, k, kind, value)
    PROVE  /\ run' \in [Procs -> Runs \cup {None}]
           /\ answer' \in [Procs -> Answers \cup {None}]
           /\ RunsAreSound' /\ AnswersAreToTheRequest'
<1>1. [key |-> k, kind |-> kind, value |-> value] \in Answers
  BY DEF Answers
<1>2. /\ run' \in [Procs -> Runs \cup {None}]
      /\ answer' \in [Procs -> Answers \cup {None}]
  BY <1>1 DEF Answer, CassetteInv, CassetteTypeOK
<1>3. \A q \in Procs : run'[q] = IF q = p THEN None ELSE run[q]
  BY DEF Answer, CassetteInv, CassetteTypeOK
<1>4. \A q \in Procs :
         answer'[q] = IF q = p THEN [key |-> k, kind |-> kind, value |-> value] ELSE answer[q]
  BY DEF Answer, CassetteInv, CassetteTypeOK
<1>5. RunsAreSound'
  BY <1>3 DEF CassetteInv, RunsAreSound, SoundRun, SoundRecording
<1>6. AnswersAreToTheRequest'
  BY <1>4 DEF CassetteInv, AnswersAreToTheRequest
<1> QED BY <1>2, <1>5, <1>6

\* A step of one process keeps the layer's invariant.
LEMMA ReplayLayer ==
    ASSUME CassetteInv, NEW p \in Procs, ReplySteps(p)
    PROVE  CassetteInv'
<1> USE DEF CassetteInv
<1>0. edits' = edits
  BY DEF ReplySteps, RunInteraction, Replay, CallEnds, CallReturns, CallRaises, Save, SaveFails, Crash
<1>1. ASSUME NEW s \in Stores, NEW k \in Keys, NEW m \in Modes, NEW callable \in BOOLEAN,
             RunInteraction(p, s, k, m, callable)
      PROVE  CassetteInv'
  <2>1. cassette' = cassette
    BY <1>1 DEF RunInteraction
  <2>2. CASE Answer(p, k, "refused", None)
    <3>1. "refused" \in Kinds
      BY DEF Kinds
    <3> QED BY <1>0, <2>1, <2>2, <3>1, AnswerEnds DEF CassetteTypeOK, FilesAreSound, SoundRecording
  <2>3. CASE /\ ~(m = "MIXED" \/ (m = "LIVE" /\ ~callable))
             /\ run' = [run EXCEPT ![p] =
                        [store |-> s, key |-> k, mode |-> m, result |-> None,
                         step |-> IF m = "REPLAY" THEN "load" ELSE "call"]]
             /\ answer' = [answer EXCEPT ![p] = None]
    <3> DEFINE new == [store |-> s, key |-> k, mode |-> m, result |-> None,
                       step |-> IF m = "REPLAY" THEN "load" ELSE "call"]
    <3>1. new \in Runs /\ SoundRun(new)
      BY DEF Runs, SoundRun
    <3>2. \A q \in Procs : run'[q] = IF q = p THEN new ELSE run[q]
      BY <2>3 DEF CassetteTypeOK
    <3>3. \A q \in Procs : answer'[q] = IF q = p THEN None ELSE answer[q]
      BY <2>3 DEF CassetteTypeOK
    <3>4. CassetteTypeOK'
      BY <1>0, <2>1, <2>3, <3>1 DEF CassetteTypeOK
    <3>5. RunsAreSound'
      BY <3>1, <3>2 DEF RunsAreSound, SoundRun, SoundRecording
    <3>6. AnswersAreToTheRequest'
      BY <3>3 DEF AnswersAreToTheRequest
    <3> QED BY <2>1, <3>4, <3>5, <3>6 DEF FilesAreSound, SoundRecording
  <2> QED BY <1>1, <2>2, <2>3 DEF RunInteraction
<1>2. CASE Replay(p)
  <2> DEFINE r == run[p]
             file == cassette[r.store][r.key]
             recorded == file.recording.result
  <2>1. r \in Runs /\ file \in Files /\ cassette' = cassette
    BY <1>2 DEF Replay, CassetteTypeOK, Runs
  <2>2. CASE Answer(p, r.key, "miss", None) \/ Answer(p, r.key, "invalid", None)
    <3>1. "miss" \in Kinds /\ "invalid" \in Kinds /\ r.key \in Keys
      BY <2>1 DEF Kinds, Runs
    <3> QED BY <1>0, <2>1, <2>2, <3>1, AnswerEnds DEF CassetteTypeOK, FilesAreSound, SoundRecording
  <2>3. CASE /\ Valid(file, r.key)
             /\ Answer(p, r.key,
                       IF recorded.outcome = "error" THEN "recorded error" ELSE "response",
                       recorded.value)
    <3>1. file.kind = "cassette" /\ file.recording \in Recordings /\ file.recording.key = r.key
      BY <2>1, <2>3 DEF Valid, Files
    <3>2. recorded \in Outcomes
      BY <3>1 DEF Recordings
    <3>3. recorded.outcome = "success" => recorded.value \in Replies[r.key]
      BY <2>1, <3>1 DEF FilesAreSound, SoundRecording, Runs
    <3>4. recorded.value \in Responses \cup Errors /\ recorded.outcome \in {"success", "error"}
      BY <3>2 DEF Outcomes
    <3>5. "recorded error" \in Kinds /\ "response" \in Kinds /\ r.key \in Keys
      BY <2>1 DEF Kinds, Runs
    <3> DEFINE kind == IF recorded.outcome = "error" THEN "recorded error" ELSE "response"
    <3>6. kind \in Kinds /\ (kind = "response" => recorded.value \in Replies[r.key])
      BY <3>3, <3>4, <3>5
    <3>7. Answer(p, r.key, kind, recorded.value)
      BY <2>3
    <3> HIDE DEF kind
    <3>8. /\ run' \in [Procs -> Runs \cup {None}]
          /\ answer' \in [Procs -> Answers \cup {None}]
          /\ RunsAreSound' /\ AnswersAreToTheRequest'
      BY <3>4, <3>5, <3>6, <3>7, AnswerEnds
    <3> QED BY <1>0, <2>1, <3>8 DEF CassetteTypeOK, FilesAreSound, SoundRecording
  <2> QED BY <1>2, <2>2, <2>3 DEF Replay
<1>3. ASSUME NEW result \in Outcomes, run[p] # None, run[p].step = "call",
             run' = [run EXCEPT ![p].step = "save", ![p].result = result],
             result.outcome = "success" => result.value \in Replies[run[p].key],
             UNCHANGED <<cassette, answer>>
      PROVE  CassetteInv'
  <2> DEFINE new == [run[p] EXCEPT !.step = "save", !.result = result]
  <2>1. run[p] \in Runs
    BY <1>3 DEF CassetteTypeOK
  <2>2. new \in Runs /\ new.mode = run[p].mode /\ new.step = "save" /\ new.result = result
        /\ new.key = run[p].key
    BY <2>1 DEF Runs
  <2>3. SoundRun(new)
    BY <1>3, <2>2 DEF RunsAreSound, SoundRun, SoundRecording
  <2>4. \A q \in Procs : run'[q] = IF q = p THEN new ELSE run[q]
    BY <1>3 DEF CassetteTypeOK
  <2>5. run' \in [Procs -> Runs \cup {None}]
    BY <1>3, <2>2 DEF CassetteTypeOK
  <2>6. RunsAreSound'
    BY <2>3, <2>4 DEF RunsAreSound, SoundRun, SoundRecording
  <2> QED BY <1>0, <1>3, <2>5, <2>6
          DEF CassetteTypeOK, FilesAreSound, SoundRecording, AnswersAreToTheRequest
<1>4. CASE CallEnds(p)
  <2>1. ASSUME NEW value \in Replies[run[p].key] \cup {Opaque}, CallReturns(p, value)
        PROVE  CassetteInv'
    <3>1. run[p].key \in Keys
      BY <2>1 DEF CallReturns, CassetteTypeOK, Runs
    <3>2. CASE value = Opaque
      <4>1. "refused" \in Kinds
        BY DEF Kinds
      <4> QED BY <1>0, <2>1, <3>1, <3>2, <4>1, AnswerEnds
              DEF CallReturns, CassetteTypeOK, FilesAreSound, SoundRecording
    <3>3. CASE value # Opaque
      <4>1. [outcome |-> "success", value |-> value] \in Outcomes
        BY <2>1, <3>1, <3>3 DEF Outcomes, Responses
      <4> QED BY <1>3, <2>1, <3>3, <4>1 DEF CallReturns
    <3> QED BY <3>2, <3>3
  <2>2. ASSUME NEW error \in Errors, CallRaises(p, error)
        PROVE  CassetteInv'
    <3>1. [outcome |-> "error", value |-> error] \in Outcomes
      BY DEF Outcomes
    <3> QED BY <1>3, <2>2, <3>1 DEF CallRaises
  <2> QED BY <1>4, <2>1, <2>2 DEF CallEnds
<1>5. CASE Save(p)
  <2> DEFINE r == run[p]
  <2>1. r \in Runs /\ r.key \in Keys /\ r.result \in Outcomes /\ SoundRecording(r)
    BY <1>5 DEF Save, CassetteTypeOK, Runs, RunsAreSound, SoundRun
  <2>2. CASE r.store = "fixtures"
    <3>1. "invalid" \in Kinds
      BY DEF Kinds
    <3> QED BY <1>0, <1>5, <2>1, <2>2, <3>1, AnswerEnds
            DEF Save, CassetteTypeOK, FilesAreSound, SoundRecording
  <2>3. CASE r.store # "fixtures"
    <3> DEFINE new == [kind |-> "cassette", recording |-> [key |-> r.key, result |-> r.result]]
               kind == IF r.result.outcome = "error" THEN "provider error" ELSE "response"
    <3>1. /\ cassette' = [cassette EXCEPT ![r.store][r.key] = new]
          /\ Answer(p, r.key, kind, r.result.value)
      BY <1>5, <2>3 DEF Save
    <3>2. new \in Files /\ SoundRecording(new.recording)
      BY <2>1 DEF Files, Recordings, SoundRecording
    <3>3. cassette' \in [Stores -> [Keys -> Files]]
      BY <3>1, <3>2 DEF CassetteTypeOK
    <3>4. \A s \in Stores, k \in Keys : cassette'[s][k] \in {new, cassette[s][k]}
      BY <3>1 DEF CassetteTypeOK
    <3>5. FilesAreSound'
      BY <3>2, <3>4 DEF FilesAreSound, SoundRecording
    <3>6. /\ r.result.value \in Responses \cup Errors
          /\ kind \in Kinds /\ (kind = "response" => r.result.value \in Replies[r.key])
      BY <2>1 DEF Outcomes, Kinds, SoundRecording
    <3> HIDE DEF kind
    <3>7. /\ run' \in [Procs -> Runs \cup {None}]
          /\ answer' \in [Procs -> Answers \cup {None}]
          /\ RunsAreSound' /\ AnswersAreToTheRequest'
      BY <2>1, <3>1, <3>6, AnswerEnds
    <3> QED BY <1>0, <3>3, <3>5, <3>7 DEF CassetteTypeOK
  <2> QED BY <2>2, <2>3
<1>6. CASE SaveFails(p)
  <2>1. "refused" \in Kinds /\ run[p].key \in Keys
    BY <1>6 DEF Kinds, SaveFails, CassetteTypeOK, Runs
  <2> QED BY <1>0, <1>6, <2>1, AnswerEnds
          DEF SaveFails, CassetteTypeOK, FilesAreSound, SoundRecording
<1>7. CASE Crash(p)
  <2>1. \A q \in Procs : run'[q] = IF q = p THEN None ELSE run[q]
    BY <1>7 DEF Crash, CassetteTypeOK
  <2>2. \A q \in Procs : answer'[q] = IF q = p THEN None ELSE answer[q]
    BY <1>7 DEF Crash, CassetteTypeOK
  <2>3. CassetteTypeOK' /\ cassette' = cassette
    BY <1>7 DEF Crash, CassetteTypeOK
  <2> QED BY <2>1, <2>2, <2>3
          DEF FilesAreSound, RunsAreSound, SoundRun, SoundRecording, AnswersAreToTheRequest
<1> QED BY <1>1, <1>2, <1>4, <1>5, <1>6, <1>7 DEF ReplySteps

\* People copy sound files and remove or damage them, which adds no recording.
LEMMA PeopleStep ==
    ASSUME CassetteInv, People
    PROVE  CassetteInv' /\ UNCHANGED <<run, answer>>
<1>1. PICK s \in Stores, k \in Keys, file \in Files :
         /\ Edit(s, k, file)
         /\ \/ file.kind # "cassette"
            \/ \E t \in Stores, j \in Keys : file = cassette[t][j]
  <2>1. Absent \in Files /\ [kind |-> "damaged"] \in Files /\ Absent.kind # "cassette"
    BY DEF Files, Absent
  <2>2. "runtime" \in Stores /\ "fixtures" \in Stores
    BY DEF Stores
  <2>3. \A t \in Stores, j \in Keys : cassette[t][j] \in Files
    BY DEF CassetteInv, CassetteTypeOK
  <2>4. CASE \E k \in Keys : Promote(k)
    BY <2>2, <2>3, <2>4 DEF Promote
  <2>5. CASE \E k \in Keys, s \in Stores : Tamper(s, k)
    BY <2>1, <2>3, <2>5 DEF Tamper
  <2> QED BY <2>4, <2>5 DEF People
<1>2. \A t \in Stores, j \in Keys : cassette'[t][j] \in {file, cassette[t][j]}
  BY <1>1 DEF Edit, CassetteInv, CassetteTypeOK
<1>3. FilesAreSound'
  BY <1>1, <1>2 DEF CassetteInv, FilesAreSound, SoundRecording
<1>4. CassetteTypeOK' /\ UNCHANGED <<run, answer>>
  BY <1>1, ReplayAssumption DEF Edit, CassetteInv, CassetteTypeOK
<1> QED BY <1>3, <1>4 DEF CassetteInv, RunsAreSound, SoundRun, SoundRecording, AnswersAreToTheRequest

------------------------------------------------------------------------------
(***************************************************************************)
(* The pilot.  What the Driver's interaction has to do with the row it is  *)
(* at, and what may have been spent by then.                               *)
(***************************************************************************)
RowUnderWay == at <= Len(rows) /\ Row.domains # << >>

DriverInv ==
    /\ run[Driver] # None =>
          /\ status = "running" /\ answer[Driver] = None /\ RowUnderWay
          /\ run[Driver].key = KeyOf(Row) /\ run[Driver].mode = mode
    /\ status = "running" /\ answer[Driver] # None =>
          RowUnderWay /\ answer[Driver].key = KeyOf(Row)

Asking == run[Driver] # None /\ run[Driver].step = "call"

SearchInv ==
    /\ Asking => /\ Len(found) <= Len(Row.domains)
                 /\ \A i \in 1 .. Len(found) :
                       found[i].mpn = Row.mpn /\ found[i].domain = Row.domains[i]
    /\ ~Asking => found = << >> /\ calls = 0

Due(n) == n * MaxCalls

SpendInv ==
    /\ mode = "REPLAY" => spent = 0
    /\ calls <= MaxCalls
    /\ spent <= Due(at)
    /\ Asking => spent <= Due(at - 1) + calls
    /\ status = "running" /\ run[Driver] = None /\ answer[Driver] = None =>
          spent <= Due(at - 1)

ReportInv ==
    /\ Len(report) = at - 1
    /\ ReportAnswersItsRows
    /\ status = "finished" => at = Len(rows) + 1

PilotInv ==
    /\ TypeOK
    /\ CassetteInv
    /\ DriverInv
    /\ SearchInv
    /\ SpendInv
    /\ ReportInv

\* One more row may cost one more budget.
LEMMA DueGrows ==
    \A n \in Nat : /\ Due(n) \in Nat /\ Due(0) = 0
                   /\ Due(n + 1) = Due(n) + MaxCalls /\ Due(n) <= Due(n + 1)
BY PilotAssumption DEF Due

\* The row under way is one of the selection, and what may answer it is known.
LEMMA RowFacts ==
    ASSUME TypeOK, RowUnderWay
    PROVE  /\ at \in DOMAIN rows /\ at \in 1 .. Len(rows)
           /\ Row \in Rows /\ KeyOf(Row) \in Keys
           /\ Replies[KeyOf(Row)] = Found(Row)
<1>1. rows \in Seq(Rows)
  BY PilotAssumption, EmptySeq DEF TypeOK
<1>2. at \in 1 .. Len(rows) /\ DOMAIN rows = 1 .. Len(rows)
  BY <1>1, LenProperties DEF TypeOK, RowUnderWay
<1>3. rows \in Pilots
  BY <1>2, EmptySeq DEF TypeOK
<1>4. Row \in Rows
  BY <1>1, <1>2, ElementOfSeq DEF Row
<1>5. Row \in PilotRows
  BY <1>2, <1>3 DEF PilotRows, Row
<1> QED BY <1>2, <1>4, <1>5, PilotAssumption DEF RowUnderWay

\* A step that leaves the pilot and its interaction alone.
LEMMA Unmoved ==
    ASSUME PilotInv, CassetteInv', UNCHANGED pilot,
           run'[Driver] = run[Driver], answer'[Driver] = answer[Driver]
    PROVE  PilotInv'
<1>1. TypeOK'
  BY DEF PilotInv, TypeOK, pilot, CassetteInv
<1>2. DriverInv'
  BY DEF PilotInv, DriverInv, RowUnderWay, Row, KeyOf, pilot
<1>3. SearchInv'
  BY DEF PilotInv, SearchInv, Asking, Row, pilot
<1>4. SpendInv'
  BY DEF PilotInv, SpendInv, Asking, pilot
<1>5. ReportInv'
  BY DEF PilotInv, ReportInv, ReportAnswersItsRows, pilot
<1> QED BY <1>1, <1>2, <1>3, <1>4, <1>5 DEF PilotInv

\* An answer ends an interaction for good: it is not mistaken for none.
LEMMA AnswerIsKept ==
    ASSUME CassetteTypeOK, NEW p \in Procs, NEW k \in Keys, NEW kind \in Kinds,
           NEW value \in Responses \cup Errors \cup {None}, Answer(p, k, kind, value)
    PROVE  /\ run'[p] = None /\ answer'[p] # None /\ answer'[p].key = k
           /\ \A q \in Procs \ {p} : run'[q] = run[q] /\ answer'[q] = answer[q]
<1> DEFINE a == [key |-> k, kind |-> kind, value |-> value]
<1>1. a \in Answers
  BY DEF Answers
<1>2. a # None /\ a.key = k
  BY <1>1, ReplayAssumption
<1>3. run'[p] = None /\ answer'[p] = a
      /\ \A q \in Procs \ {p} : run'[q] = run[q] /\ answer'[q] = answer[q]
  BY DEF Answer, CassetteTypeOK
<1> QED BY <1>2, <1>3

\* Replaying and recording both end with an answer to the request made.
LEMMA ReplayAnswers ==
    ASSUME CassetteInv, NEW p \in Procs, Replay(p) \/ Save(p) \/ SaveFails(p)
    PROVE  /\ run'[p] = None /\ answer'[p] # None /\ answer'[p].key = run[p].key
           /\ \A q \in Procs \ {p} : run'[q] = run[q] /\ answer'[q] = answer[q]
<1> DEFINE r == run[p]
           file == cassette[r.store][r.key]
<1>1. r \in Runs /\ r.key \in Keys /\ file \in Files
  BY DEF Replay, Save, SaveFails, CassetteInv, CassetteTypeOK, Runs
<1>2. SUFFICES \E kind \in Kinds, value \in Responses \cup Errors \cup {None} :
                  Answer(p, r.key, kind, value)
  BY <1>1, AnswerIsKept DEF CassetteInv
<1>3. {"response", "provider error", "recorded error", "miss", "invalid", "refused"} \subseteq Kinds
  BY DEF Kinds
<1>4. CASE Replay(p)
  <2>1. CASE Valid(file, r.key)
    <3>1. file.recording.result.value \in Responses \cup Errors
      BY <1>1, <2>1 DEF Valid, Files, Recordings, Outcomes
    <3> QED BY <1>3, <1>4, <2>1, <3>1 DEF Replay, Valid
  <2>2. CASE ~Valid(file, r.key)
    BY <1>3, <1>4, <2>2 DEF Replay
  <2> QED BY <2>1, <2>2
<1>5. CASE Save(p)
  <2>1. r.result.value \in Responses \cup Errors
    BY <1>1, <1>5 DEF Save, CassetteInv, RunsAreSound, SoundRun, Outcomes
  <2> QED BY <1>3, <1>5, <2>1 DEF Save
<1>6. CASE SaveFails(p)
  BY <1>3, <1>6 DEF SaveFails
<1> QED BY <1>4, <1>5, <1>6

\* Nobody answers or ends an interaction for another.
LEMMA OnlyItsOwn ==
    ASSUME CassetteInv, NEW p \in Procs, ReplySteps(p), NEW q \in Procs \ {p}
    PROVE  run'[q] = run[q] /\ answer'[q] = answer[q]
BY DEF ReplySteps, RunInteraction, Replay, CallEnds, CallReturns, CallRaises, Save,
       SaveFails, Crash, Answer, CassetteInv, CassetteTypeOK

\* The other callers and the people do not disturb the pilot.
LEMMA OthersStep ==
    ASSUME PilotInv, Others
    PROVE  PilotInv'
<1>1. CassetteInv
  BY DEF PilotInv
<1>2. CASE People
  <2>1. CassetteInv' /\ UNCHANGED <<run, answer>>
    BY <1>1, <1>2, PeopleStep
  <2> QED BY <2>1, Unmoved DEF Others
<1>3. ASSUME NEW p \in Procs \ {Driver}, ReplySteps(p)
      PROVE  PilotInv'
  <2>1. CassetteInv'
    BY <1>1, <1>3, ReplayLayer
  <2>2. run'[Driver] = run[Driver] /\ answer'[Driver] = answer[Driver]
    BY <1>1, <1>3, OnlyItsOwn, PilotAssumption
  <2> QED BY <2>1, <2>2, Unmoved DEF Others
<1>4. People \/ \E p \in Procs \ {Driver} : ReplySteps(p)
  BY PilotAssumption DEF Others, ReplySteps
<1> QED BY <1>2, <1>3, <1>4

\* The replay layer answers the Driver's interaction: no search is under way,
\* before or after, and nothing more is spent.
LEMMA DriverReplaysStep ==
    ASSUME PilotInv, DriverReplays
    PROVE  PilotInv'
<1>1. CassetteInv /\ run[Driver] # None /\ run[Driver].step # "call" /\ Driver \in Procs
  BY PilotAssumption DEF PilotInv, DriverReplays, Replay, Save, SaveFails
<1>2. run'[Driver] = None /\ answer'[Driver] # None /\ answer'[Driver].key = run[Driver].key
  BY <1>1, ReplayAnswers DEF DriverReplays
<1>3. CassetteInv' /\ UNCHANGED pilot
  BY <1>1, ReplayLayer DEF DriverReplays, ReplySteps
<1>4. TypeOK'
  BY <1>3 DEF PilotInv, TypeOK, pilot, CassetteInv
<1>5. DriverInv'
  BY <1>1, <1>2, <1>3 DEF PilotInv, DriverInv, RowUnderWay, Row, KeyOf, pilot
<1>6. SearchInv'
  BY <1>1, <1>2, <1>3 DEF PilotInv, SearchInv, Asking, pilot
<1>7. SpendInv'
  BY <1>1, <1>2, <1>3 DEF PilotInv, SpendInv, Asking, pilot
<1>8. ReportInv'
  BY <1>3 DEF PilotInv, ReportInv, ReportAnswersItsRows, pilot
<1> QED BY <1>3, <1>4, <1>5, <1>6, <1>7, <1>8 DEF PilotInv

\* A pilot begins, or is stopped: nothing is under way, reported or spent.
LEMMA FreshPilot ==
    ASSUME PilotInv, run'[Driver] = None, answer'[Driver] = None, CassetteInv',
           status' \in {"none", "running"}, rows' \in Pilots \cup {<< >>}, mode' \in {"LIVE", "REPLAY"},
           at' = 1, report' = << >>, found' = << >>, calls' = 0, spent' = 0, cause' = None
    PROVE  PilotInv'
<1>1. rows' \in Seq(Rows) /\ Len(rows') \in Nat
  BY PilotAssumption, EmptySeq, LenProperties
<1>2. TypeOK'
  BY <1>1, EmptySeq DEF TypeOK, CassetteInv
<1>3. DriverInv' /\ SearchInv'
  BY DEF DriverInv, SearchInv, Asking
<1>4. SpendInv'
  BY DueGrows, PilotAssumption DEF SpendInv, Asking
<1>5. ReportInv'
  BY EmptySeq DEF ReportInv, ReportAnswersItsRows
<1> QED BY <1>2, <1>3, <1>4, <1>5 DEF PilotInv

LEMMA StartOrStop ==
    ASSUME PilotInv,
           \/ \E selection \in Pilots, m \in {"LIVE", "REPLAY"} : StartPilot(selection, m)
           \/ StopPilot
    PROVE  PilotInv'
<1>1. CassetteInv /\ CassetteTypeOK /\ Driver \in Procs
  BY PilotAssumption DEF PilotInv, CassetteInv
<1>2. CASE StopPilot
  <2>1. \A q \in Procs : /\ run'[q] = IF q = Driver THEN None ELSE run[q]
                         /\ answer'[q] = IF q = Driver THEN None ELSE answer[q]
    BY <1>1, <1>2 DEF StopPilot, CassetteTypeOK
  <2>2. CassetteTypeOK' /\ UNCHANGED cassette
    BY <1>1, <1>2 DEF StopPilot, CassetteTypeOK
  <2>3. CassetteInv'
    BY <1>1, <2>1, <2>2 DEF CassetteInv, FilesAreSound, RunsAreSound, SoundRun,
       SoundRecording, AnswersAreToTheRequest
  <2> QED BY <1>1, <1>2, <2>1, <2>3, FreshPilot DEF StopPilot, Drop
<1>3. ASSUME NEW selection \in Pilots, NEW m \in {"LIVE", "REPLAY"}, StartPilot(selection, m)
      PROVE  PilotInv'
  <2>1. \A q \in Procs : answer'[q] = IF q = Driver THEN None ELSE answer[q]
    BY <1>1, <1>3 DEF StartPilot, CassetteTypeOK
  <2>2. CassetteTypeOK' /\ UNCHANGED <<cassette, run>> /\ run[Driver] = None
    BY <1>1, <1>3 DEF StartPilot, CassetteTypeOK
  <2>3. CassetteInv'
    BY <1>1, <2>1, <2>2 DEF CassetteInv, FilesAreSound, RunsAreSound, SoundRun,
       SoundRecording, AnswersAreToTheRequest
  <2> QED BY <1>1, <1>3, <2>1, <2>2, <2>3, FreshPilot DEF StartPilot
<1> QED BY <1>2, <1>3

\* The report grows by an entry that fits the row under way.
LEMMA ReportGrows ==
    ASSUME PilotInv, NEW entry \in Entries, at <= Len(rows), EntryFits(entry, Row),
           Report(entry), UNCHANGED <<rows, status>>, status = "running"
    PROVE  /\ ReportInv' /\ report' \in Seq(Entries)
           /\ at \in Nat /\ at' = at + 1 /\ at' \in 1 .. Len(rows) + 1
<1>1. rows \in Seq(Rows) /\ Len(rows) \in Nat
  BY PilotAssumption, EmptySeq, LenProperties DEF PilotInv, TypeOK
<1>2. /\ report \in Seq(Entries) /\ at \in 1 .. Len(rows) + 1 /\ Len(report) = at - 1
      /\ DOMAIN report = 1 .. Len(report)
  BY LenProperties DEF PilotInv, TypeOK, ReportInv
<1>3. /\ report' \in Seq(Entries) /\ Len(report') = Len(report) + 1
      /\ DOMAIN report' = 1 .. Len(report) + 1
      /\ \A i \in 1 .. Len(report) : report'[i] = report[i]
      /\ report'[Len(report) + 1] = entry
  BY <1>2, LenProperties DEF Report
<1>4. at' = at + 1 /\ at' \in 1 .. Len(rows) + 1
  BY <1>1, <1>2 DEF Report
<1>5. ASSUME NEW i \in DOMAIN report' PROVE EntryFits(report'[i], rows'[i])
  <2>1. CASE i = at
    BY <1>2, <1>3, <2>1 DEF Row
  <2>2. CASE i # at
    <3>1. i \in DOMAIN report
      BY <1>2, <1>3, <2>2
    <3> QED BY <1>2, <1>3, <3>1 DEF PilotInv, ReportInv, ReportAnswersItsRows
  <2> QED BY <2>1, <2>2
<1>6. ReportAnswersItsRows'
  BY <1>5 DEF ReportAnswersItsRows
<1> QED BY <1>1, <1>2, <1>3, <1>4, <1>6 DEF ReportInv

\* A row without a reviewed domain costs nothing.
LEMMA SkipRowStep ==
    ASSUME PilotInv, SkipRow
    PROVE  PilotInv'
<1> DEFINE entry == [kind |-> "review required"]
<1>1. entry \in Entries /\ EntryFits(entry, Row)
  BY DEF Entries, EntryFits, SkipRow
<1>2. /\ ReportInv' /\ report' \in Seq(Entries) /\ at \in Nat
      /\ at' = at + 1 /\ at' \in 1 .. Len(rows) + 1
  BY <1>1, ReportGrows DEF SkipRow, AtRow
<1>3. /\ run[Driver] = None /\ answer[Driver] = None /\ status = "running"
      /\ UNCHANGED <<cassette, run, answer, edits, status, rows, mode, found, calls, spent, cause>>
  BY DEF SkipRow, AtRow, replay
<1>4. CassetteInv'
  BY <1>3 DEF PilotInv, CassetteInv, CassetteTypeOK, FilesAreSound, RunsAreSound, SoundRun,
     SoundRecording, AnswersAreToTheRequest
<1>5. TypeOK'
  BY <1>2, <1>3, <1>4 DEF PilotInv, TypeOK, CassetteInv
<1>6. DriverInv' /\ SearchInv'
  BY <1>3 DEF PilotInv, DriverInv, SearchInv, Asking
<1>7. SpendInv'
  <2>1. Due(at) <= Due(at + 1) /\ Due(at) \in Nat /\ Due(at + 1) \in Nat
    BY <1>2, DueGrows
  <2>2. at' = at + 1 /\ at' - 1 = at
    BY <1>2
  <2>3. spent <= Due(at') /\ spent <= Due(at' - 1)
    BY <2>1, <2>2 DEF PilotInv, TypeOK, SpendInv
  <2> QED BY <1>3, <2>3 DEF PilotInv, SpendInv, Asking
<1> QED BY <1>2, <1>4, <1>5, <1>6, <1>7 DEF PilotInv

\* The Driver asks for the row: its provider has made no call yet.
LEMMA SearchRowStep ==
    ASSUME PilotInv, SearchRow
    PROVE  PilotInv'
<1> DEFINE new == [store |-> "runtime", key |-> KeyOf(Row), mode |-> mode, result |-> None,
                   step |-> IF mode = "REPLAY" THEN "load" ELSE "call"]
<1>1. /\ CassetteInv /\ Driver \in Procs /\ RowUnderWay /\ status = "running"
      /\ run[Driver] = None /\ answer[Driver] = None /\ mode \in {"LIVE", "REPLAY"}
  BY PilotAssumption DEF PilotInv, TypeOK, SearchRow, AtRow, RowUnderWay
<1>2. KeyOf(Row) \in Keys
  BY <1>1, RowFacts DEF PilotInv
<1>3. new \in Runs
  BY <1>1, <1>2 DEF Runs, Stores, Modes
<1>4. new # None
  BY <1>3, ReplayAssumption
<1>5. run'[Driver] = new /\ answer'[Driver] = None /\ UNCHANGED pilot
  BY <1>1 DEF SearchRow, RunInteraction, CassetteInv, CassetteTypeOK
<1>6. CassetteInv'
  <2>1. RunInteraction(Driver, "runtime", KeyOf(Row), mode, TRUE)
    BY DEF SearchRow
  <2>2. "runtime" \in Stores /\ mode \in Modes /\ TRUE \in BOOLEAN
    BY <1>1 DEF Stores, Modes
  <2>3. ReplySteps(Driver)
    BY <1>2, <2>1, <2>2 DEF ReplySteps
  <2> QED BY <1>1, <2>3, ReplayLayer
<1>7. TypeOK'
  BY <1>5, <1>6 DEF PilotInv, TypeOK, pilot, CassetteInv
<1>8. DriverInv'
  BY <1>1, <1>4, <1>5 DEF DriverInv, RowUnderWay, Row, KeyOf, pilot
<1>9. SearchInv'
  <2>1. found = << >> /\ calls = 0
    BY <1>1 DEF PilotInv, SearchInv, Asking
  <2>2. Row \in Rows
    BY <1>1, RowFacts DEF PilotInv
  <2>3. Len(Row.domains) \in Nat /\ Len(found) = 0
    BY <2>1, <2>2, LenProperties, EmptySeq DEF Rows
  <2> QED BY <1>5, <2>1, <2>3 DEF SearchInv, Row, pilot
<1>10. SpendInv'
  <2>1. spent <= Due(at - 1) /\ calls = 0 /\ spent <= Due(at - 1) + calls
    BY <1>1, DueGrows DEF PilotInv, TypeOK, SpendInv, SearchInv, Asking
  <2> QED BY <1>4, <1>5, <2>1 DEF PilotInv, SpendInv, pilot
<1>11. ReportInv'
  BY <1>5 DEF PilotInv, ReportInv, ReportAnswersItsRows, pilot
<1> QED BY <1>6, <1>7, <1>8, <1>9, <1>10, <1>11 DEF PilotInv

\* While the Driver is searching, it is LIVE and at a row of its own.
LEMMA SearchFacts ==
    ASSUME PilotInv, Searching
    PROVE  /\ CassetteInv /\ Driver \in Procs /\ Asking /\ mode = "LIVE"
           /\ answer[Driver] = None /\ status = "running" /\ RowUnderWay
           /\ run[Driver] \in Runs /\ run[Driver].key = KeyOf(Row) /\ run[Driver].mode = mode
           /\ Row \in Rows /\ KeyOf(Row) \in Keys /\ Replies[KeyOf(Row)] = Found(Row)
           /\ calls \in 0 .. MaxCalls /\ spent \in Nat
           /\ spent <= Due(at - 1) + calls /\ Due(at - 1) \in Nat
           /\ Due(at) = Due(at - 1) + MaxCalls
<1>1. /\ CassetteInv /\ Driver \in Procs /\ Asking /\ answer[Driver] = None
      /\ status = "running" /\ RowUnderWay /\ run[Driver] \in Runs
      /\ run[Driver].key = KeyOf(Row) /\ run[Driver].mode = mode
  BY PilotAssumption DEF PilotInv, Searching, Asking, DriverInv, CassetteInv, CassetteTypeOK
<1>2. mode = "LIVE"
  BY <1>1 DEF PilotInv, TypeOK, Asking, CassetteInv, RunsAreSound, SoundRun
<1>3. /\ at \in 1 .. Len(rows) /\ Row \in Rows /\ KeyOf(Row) \in Keys
      /\ Replies[KeyOf(Row)] = Found(Row)
  BY <1>1, RowFacts DEF PilotInv
<1>4. at - 1 \in Nat /\ (at - 1) + 1 = at
  BY <1>3
<1>5. Due(at - 1) \in Nat /\ Due((at - 1) + 1) = Due(at - 1) + MaxCalls
  BY <1>4, DueGrows
<1>6. Due(at) = Due(at - 1) + MaxCalls
  BY <1>4, <1>5
<1>7. calls \in 0 .. MaxCalls /\ spent \in Nat /\ spent <= Due(at - 1) + calls
  BY <1>1, PilotAssumption DEF PilotInv, TypeOK, SpendInv
<1> QED BY <1>1, <1>2, <1>3, <1>5, <1>6, <1>7

\* One more domain of the row has been asked, and one call paid for.
LEMMA SearchDomainStep ==
    ASSUME PilotInv, NEW hit \in Hits, SearchDomain(hit)
    PROVE  PilotInv'
<1> DEFINE h == [mpn |-> Row.mpn, domain |-> NextDomain, hit |-> hit]
<1>1. Searching /\ Len(found) < Len(Row.domains) /\ calls < MaxCalls
      /\ calls' = calls + 1 /\ spent' = spent + 1 /\ found' = Append(found, h)
      /\ UNCHANGED <<cassette, run, answer, edits, status, rows, mode, at, report, cause>>
  BY DEF SearchDomain, BudgetLeft, replay
<1>2. CassetteInv /\ Asking /\ mode = "LIVE" /\ RowUnderWay /\ Row \in Rows
      /\ calls \in 0 .. MaxCalls /\ spent \in Nat /\ spent <= Due(at - 1) + calls
      /\ Due(at - 1) \in Nat /\ Due(at) = Due(at - 1) + MaxCalls
  BY <1>1, SearchFacts
<1>3. MaxCalls \in Nat /\ found \in Seq([mpn : MPNs, domain : Domains, hit : Hits])
      /\ Len(found) \in Nat /\ Len(Row.domains) \in Nat
  BY <1>2, PilotAssumption, LenProperties DEF PilotInv, TypeOK, Rows
<1>4. NextDomain = Row.domains[Len(found) + 1] /\ NextDomain \in Domains /\ Row.mpn \in MPNs
  BY <1>1, <1>2, <1>3, ElementOfSeq DEF NextDomain, Rows
<1>5. h \in [mpn : MPNs, domain : Domains, hit : Hits]
  BY <1>4
<1>6. /\ found' \in Seq([mpn : MPNs, domain : Domains, hit : Hits])
      /\ Len(found') = Len(found) + 1
      /\ \A i \in 1 .. Len(found) : found'[i] = found[i]
      /\ found'[Len(found) + 1] = h
  BY <1>1, <1>3, <1>5
<1>7. CassetteInv'
  BY <1>1, <1>2 DEF CassetteInv, CassetteTypeOK, FilesAreSound, RunsAreSound, SoundRun,
     SoundRecording, AnswersAreToTheRequest
<1>8. TypeOK'
  BY <1>1, <1>2, <1>6, <1>7 DEF PilotInv, TypeOK, CassetteInv
<1>9. DriverInv'
  BY <1>1 DEF PilotInv, DriverInv, RowUnderWay, Row, KeyOf
<1>10. SearchInv'
  <2>1. Asking' /\ Row' = Row
    BY <1>1, <1>2 DEF Asking, Row
  <2>2. \A i \in 1 .. Len(found) + 1 : found'[i].mpn = Row.mpn /\ found'[i].domain = Row.domains[i]
    BY <1>2, <1>3, <1>4, <1>6 DEF PilotInv, SearchInv
  <2> QED BY <1>1, <1>3, <1>6, <2>1, <2>2 DEF SearchInv
<1>11. SpendInv'
  BY <1>1, <1>2, <1>3 DEF SpendInv, Asking
<1>12. ReportInv'
  BY <1>1 DEF PilotInv, ReportInv, ReportAnswersItsRows
<1> QED BY <1>7, <1>8, <1>9, <1>10, <1>11, <1>12 DEF PilotInv

\* A search that is over, as it may: its hits and its calls are dropped, and
\* the row has cost a budget at most.
LEMMA SearchOver ==
    ASSUME PilotInv, Searching, CassetteInv', Drop,
           UNCHANGED <<status, rows, mode, at, report, cause>>,
           spent' = spent \/ (spent' = spent + 1 /\ calls < MaxCalls),
           \/ /\ run'[Driver] # None /\ run'[Driver].step = "save"
              /\ run'[Driver].key = run[Driver].key /\ run'[Driver].mode = run[Driver].mode
              /\ answer'[Driver] = None
           \/ /\ run'[Driver] = None /\ answer'[Driver] # None
              /\ answer'[Driver].key = run[Driver].key
    PROVE  PilotInv'
<1>1. /\ mode = "LIVE" /\ status = "running" /\ RowUnderWay
      /\ run[Driver].key = KeyOf(Row) /\ run[Driver].mode = mode
      /\ calls \in 0 .. MaxCalls /\ spent \in Nat /\ spent <= Due(at - 1) + calls
      /\ Due(at - 1) \in Nat /\ Due(at) = Due(at - 1) + MaxCalls /\ MaxCalls \in Nat
  BY SearchFacts, PilotAssumption
<1>2. spent' \in Nat /\ spent' <= Due(at) /\ found' = << >> /\ calls' = 0
  BY <1>1 DEF Drop
<1>3. TypeOK'
  BY <1>2, EmptySeq DEF PilotInv, TypeOK, CassetteInv
<1>4. DriverInv'
  BY <1>1 DEF DriverInv, RowUnderWay, Row, KeyOf
<1>5. SearchInv'
  BY <1>2 DEF SearchInv, Asking
<1>6. SpendInv'
  BY <1>1, <1>2 DEF SpendInv, Asking
<1>7. ReportInv'
  BY DEF PilotInv, ReportInv, ReportAnswersItsRows
<1> QED BY <1>3, <1>4, <1>5, <1>6, <1>7 DEF PilotInv

\* A search that failed, for a call or for its budget, is recorded as such.
LEMMA SearchRaises ==
    ASSUME PilotInv, Searching, NEW error \in Errors, CallRaises(Driver, error), Drop,
           UNCHANGED <<status, rows, mode, at, report, cause>>,
           spent' = spent \/ (spent' = spent + 1 /\ calls < MaxCalls)
    PROVE  PilotInv'
<1> DEFINE new == [run[Driver] EXCEPT !.step = "save",
                                      !.result = [outcome |-> "error", value |-> error]]
<1>1. CassetteInv /\ Driver \in Procs /\ answer[Driver] = None /\ run[Driver] \in Runs
  BY SearchFacts
<1>2. CassetteInv'
  BY <1>1, ReplayLayer DEF ReplySteps, CallEnds, CallRaises
<1>3. new \in Runs /\ new.step = "save" /\ new.key = run[Driver].key
      /\ new.mode = run[Driver].mode
  BY <1>1 DEF Runs, Outcomes
<1>4. new # None
  BY <1>3, ReplayAssumption
<1>5. run'[Driver] = new /\ answer'[Driver] = None
  BY <1>1 DEF CallRaises, CassetteInv, CassetteTypeOK
<1> QED BY <1>2, <1>3, <1>4, <1>5, SearchOver

\* A search that has asked every domain returns what the row may be answered.
LEMMA SearchEndsStep ==
    ASSUME PilotInv, SearchEnds
    PROVE  PilotInv'
<1>1. Searching /\ Len(found) = Len(Row.domains) /\ CallReturns(Driver, found) /\ Drop
      /\ UNCHANGED <<status, rows, mode, at, report, spent, cause>>
  BY DEF SearchEnds
<1>2. /\ CassetteInv /\ Driver \in Procs /\ Asking /\ answer[Driver] = None
      /\ run[Driver] \in Runs /\ run[Driver].key = KeyOf(Row)
      /\ Row \in Rows /\ KeyOf(Row) \in Keys /\ Replies[KeyOf(Row)] = Found(Row)
  BY <1>1, SearchFacts
<1>3. found \in Found(Row)
  <2> DEFINE n == Len(Row.domains)
             h == [i \in DOMAIN Row.domains |-> found[i].hit]
  <2>1. DOMAIN Row.domains = 1 .. n /\ n \in Nat
    BY <1>2, LenProperties DEF Rows
  <2>2. found \in [1 .. n -> [mpn : MPNs, domain : Domains, hit : Hits]]
    BY <1>1, LenProperties DEF PilotInv, TypeOK
  <2>3. h \in [DOMAIN Row.domains -> Hits]
    BY <2>1, <2>2
  <2>4. \A i \in 1 .. n :
           found[i] = [mpn |-> Row.mpn, domain |-> Row.domains[i], hit |-> h[i]]
    BY <1>1, <1>2, <2>1, <2>2 DEF PilotInv, SearchInv
  <2>5. found = [i \in DOMAIN Row.domains |->
                   [mpn |-> Row.mpn, domain |-> Row.domains[i], hit |-> h[i]]]
    BY <2>1, <2>2, <2>4
  <2> QED BY <2>3, <2>5 DEF Found
<1>4. CassetteInv'
  BY <1>1, <1>2, <1>3, ReplayLayer DEF ReplySteps, CallEnds, CallReturns
<1>5. CASE found = Opaque
  <2>1. "refused" \in Kinds /\ Answer(Driver, KeyOf(Row), "refused", None)
    BY <1>1, <1>2, <1>5 DEF Kinds, CallReturns
  <2>2. run'[Driver] = None /\ answer'[Driver] # None /\ answer'[Driver].key = KeyOf(Row)
    BY <1>2, <2>1, AnswerIsKept DEF CassetteInv
  <2> QED BY <1>1, <1>2, <1>4, <2>2, SearchOver
<1>6. CASE found # Opaque
  <2> DEFINE new == [run[Driver] EXCEPT !.step = "save",
                                        !.result = [outcome |-> "success", value |-> found]]
  <2>1. found \in Responses
    BY <1>2, <1>3 DEF Responses
  <2>2. new \in Runs /\ new.step = "save" /\ new.key = run[Driver].key
        /\ new.mode = run[Driver].mode
    BY <1>2, <2>1 DEF Runs, Outcomes
  <2>3. new # None
    BY <2>2, ReplayAssumption
  <2>4. run'[Driver] = new /\ answer'[Driver] = None
    BY <1>1, <1>2, <1>6 DEF CallReturns, CassetteInv, CassetteTypeOK
  <2> QED BY <1>1, <1>4, <2>2, <2>3, <2>4, SearchOver
<1> QED BY <1>5, <1>6

LEMMA SearchStep ==
    ASSUME PilotInv, Search
    PROVE  PilotInv'
<1>1. CASE \E hit \in Hits : SearchDomain(hit)
  BY <1>1, SearchDomainStep
<1>2. ASSUME NEW error \in Failures, SearchFails(error)
      PROVE  PilotInv'
  BY <1>2, SearchRaises, PilotAssumption DEF SearchFails, BudgetLeft
<1>3. CASE BudgetSpent
  BY <1>3, SearchRaises, PilotAssumption DEF BudgetSpent
<1> QED BY <1>1, <1>2, <1>3, SearchEndsStep DEF Search

\* An answer is taken to the row it was asked for, with nothing under way.
LEMMA TakeFacts ==
    ASSUME PilotInv, Take
    PROVE  /\ CassetteInv' /\ status = "running" /\ RowUnderWay
           /\ run[Driver] = None /\ run'[Driver] = None /\ answer'[Driver] = None
           /\ answer[Driver] \in Answers /\ answer[Driver].key = KeyOf(Row)
           /\ answer[Driver].kind = "response" => answer[Driver].value \in Found(Row)
           /\ found = << >> /\ calls = 0
           /\ spent \in Nat /\ at \in Nat /\ spent <= Due(at)
<1>1. /\ CassetteInv /\ Driver \in Procs /\ status = "running" /\ RowUnderWay
      /\ run[Driver] = None /\ answer[Driver] # None /\ answer[Driver] \in Answers
      /\ answer[Driver].key = KeyOf(Row)
  BY PilotAssumption DEF PilotInv, Take, Answered, DriverInv, CassetteInv, CassetteTypeOK
<1>2. \A q \in Procs : answer'[q] = IF q = Driver THEN None ELSE answer[q]
  BY <1>1 DEF Take, CassetteInv, CassetteTypeOK
<1>3. CassetteTypeOK' /\ UNCHANGED <<cassette, run>>
  BY <1>1 DEF Take, CassetteInv, CassetteTypeOK
<1>4. CassetteInv'
  BY <1>1, <1>2, <1>3 DEF CassetteInv, FilesAreSound, RunsAreSound, SoundRun,
     SoundRecording, AnswersAreToTheRequest
<1>5. answer[Driver].kind = "response" => answer[Driver].value \in Found(Row)
  BY <1>1, RowFacts DEF PilotInv, CassetteInv, AnswersAreToTheRequest
<1>6. found = << >> /\ calls = 0 /\ spent \in Nat /\ at \in Nat /\ spent <= Due(at)
  BY <1>1, RowFacts DEF PilotInv, TypeOK, SearchInv, SpendInv, Asking
<1> QED BY <1>1, <1>2, <1>3, <1>4, <1>5, <1>6

\* The answer becomes the row's entry, and the pilot is at the next row.
LEMMA RowEnds ==
    ASSUME PilotInv, Take, NEW entry \in Entries, EntryFits(entry, Row), Report(entry),
           UNCHANGED <<status, rows, mode, found, calls, spent, cause>>
    PROVE  PilotInv'
<1>1. /\ CassetteInv' /\ status = "running" /\ at <= Len(rows)
      /\ run'[Driver] = None /\ answer'[Driver] = None
      /\ found = << >> /\ calls = 0 /\ spent \in Nat /\ at \in Nat /\ spent <= Due(at)
  BY TakeFacts DEF RowUnderWay
<1>2. /\ ReportInv' /\ report' \in Seq(Entries) /\ at' = at + 1 /\ at' \in 1 .. Len(rows) + 1
  BY <1>1, ReportGrows
<1>3. TypeOK'
  BY <1>1, <1>2 DEF PilotInv, TypeOK, CassetteInv
<1>4. DriverInv' /\ SearchInv'
  BY <1>1 DEF DriverInv, SearchInv, Asking
<1>5. SpendInv'
  <2>1. Due(at) <= Due(at + 1) /\ Due(at) \in Nat /\ Due(at + 1) \in Nat
    BY <1>1, DueGrows
  <2>2. at' = at + 1 /\ at' - 1 = at
    BY <1>1, <1>2
  <2>3. spent <= Due(at') /\ spent <= Due(at' - 1)
    BY <1>1, <2>1, <2>2
  <2> QED BY <1>1, <2>3 DEF PilotInv, SpendInv, Asking
<1> QED BY <1>1, <1>2, <1>3, <1>4, <1>5 DEF PilotInv

\* An answer the script does not expect ends the pilot where it is.
LEMMA AbortStep ==
    ASSUME PilotInv, NEW why \in Errors \cup Kinds, Abort(why)
    PROVE  PilotInv'
<1>1. /\ Take /\ status' = "aborted" /\ cause' = why
      /\ UNCHANGED <<rows, mode, at, report, found, calls, spent>>
  BY DEF Abort
<1>2. /\ CassetteInv' /\ run'[Driver] = None /\ answer'[Driver] = None
      /\ found = << >> /\ calls = 0
  BY <1>1, TakeFacts
<1>3. TypeOK'
  BY <1>1, <1>2 DEF PilotInv, TypeOK, CassetteInv
<1>4. DriverInv' /\ SearchInv' /\ SpendInv'
  BY <1>1, <1>2 DEF PilotInv, DriverInv, SearchInv, SpendInv, Asking
<1>5. ReportInv'
  BY <1>1 DEF PilotInv, ReportInv, ReportAnswersItsRows
<1> QED BY <1>2, <1>3, <1>4, <1>5 DEF PilotInv

\* Whatever the pilot does with an answer keeps it accountable.
LEMMA TakeStep ==
    ASSUME PilotInv, RowDone \/ RowFails \/ RowAborts \/ AcquisitionAborts
    PROVE  PilotInv'
<1>1. CASE RowDone
  <2> DEFINE entry == [kind |-> "result", value |-> answer[Driver].value]
  <2>1. entry.value \in Found(Row) /\ KeyOf(Row) \in Keys /\ Replies[KeyOf(Row)] = Found(Row)
    BY <1>1, TakeFacts, RowFacts DEF RowDone, PilotInv
  <2>2. entry \in Entries /\ EntryFits(entry, Row)
    BY <2>1 DEF Entries, Responses, EntryFits
  <2> QED BY <1>1, <2>2, RowEnds DEF RowDone
<1>2. CASE RowFails
  <2> DEFINE entry == [kind |-> "failed"]
  <2>1. entry \in Entries /\ EntryFits(entry, Row)
    BY <1>2, TakeFacts DEF RowFails, Entries, EntryFits, RowUnderWay
  <2> QED BY <1>2, <2>1, RowEnds DEF RowFails
<1>3. CASE RowAborts
  <2> DEFINE why == IF answer[Driver].value \in Errors THEN answer[Driver].value
                    ELSE answer[Driver].kind
  <2>1. answer[Driver].kind \in Kinds
    BY <1>3, TakeFacts DEF RowAborts, Abort, Answers
  <2>2. why \in Errors \cup Kinds /\ Abort(why)
    BY <1>3, <2>1 DEF RowAborts
  <2> QED BY <2>2, AbortStep
<1>4. CASE AcquisitionAborts
  BY <1>4, AbortStep DEF AcquisitionAborts, Kinds
<1> QED BY <1>1, <1>2, <1>3, <1>4

\* A pilot past its last row is finished, and has an entry for each of them.
LEMMA FinishStep ==
    ASSUME PilotInv, Finish
    PROVE  PilotInv'
<1>1. /\ status = "running" /\ at > Len(rows) /\ status' = "finished"
      /\ UNCHANGED <<cassette, run, answer, edits, rows, mode, at, report, found, calls, spent, cause>>
  BY DEF Finish, replay
<1>2. rows \in Seq(Rows) /\ Len(rows) \in Nat /\ at \in 1 .. Len(rows) + 1
  BY PilotAssumption, EmptySeq, LenProperties DEF PilotInv, TypeOK
<1>3. at = Len(rows) + 1 /\ run[Driver] = None
  BY <1>1, <1>2 DEF PilotInv, DriverInv, RowUnderWay
<1>4. CassetteInv'
  BY <1>1 DEF PilotInv, CassetteInv, CassetteTypeOK, FilesAreSound, RunsAreSound, SoundRun,
     SoundRecording, AnswersAreToTheRequest
<1>5. TypeOK'
  BY <1>1, <1>4 DEF PilotInv, TypeOK, CassetteInv
<1>6. DriverInv' /\ SearchInv' /\ SpendInv'
  BY <1>1, <1>3 DEF PilotInv, DriverInv, SearchInv, SpendInv, Asking
<1>7. ReportInv'
  BY <1>1, <1>3 DEF PilotInv, ReportInv, ReportAnswersItsRows
<1> QED BY <1>4, <1>5, <1>6, <1>7 DEF PilotInv

LEMMA Start == Init => PilotInv
<1> SUFFICES ASSUME Init PROVE PilotInv
  OBVIOUS
<1>1. CassetteInv
  <2>1. /\ cassette = [s \in Stores |-> [k \in Keys |-> Absent]]
        /\ run = [p \in Procs |-> None] /\ answer = [p \in Procs |-> None] /\ edits = 0
    BY DEF Init, CassetteInit
  <2>2. Absent \in Files /\ Absent.kind # "cassette"
    BY DEF Absent, Files
  <2>3. CassetteTypeOK
    BY <2>1, <2>2, ReplayAssumption DEF CassetteTypeOK
  <2> QED BY <2>1, <2>2, <2>3 DEF CassetteInv, FilesAreSound, RunsAreSound, AnswersAreToTheRequest
<1>2. run[Driver] = None /\ answer[Driver] = None
  BY PilotAssumption DEF Init, CassetteInit
<1>3. TypeOK
  BY <1>1, EmptySeq DEF Init, TypeOK, CassetteInv
<1>4. DriverInv /\ SearchInv /\ SpendInv
  BY <1>2, DueGrows, PilotAssumption DEF Init, DriverInv, SearchInv, SpendInv, Asking
<1>5. ReportInv
  BY EmptySeq DEF Init, ReportInv, ReportAnswersItsRows
<1> QED BY <1>1, <1>3, <1>4, <1>5 DEF PilotInv

LEMMA Invariance == Spec => []PilotInv
<1>1. ASSUME PilotInv, [Next]_vars PROVE PilotInv'
  <2>1. CASE UNCHANGED vars
    <3>1. UNCHANGED <<cassette, run, answer, edits>> /\ UNCHANGED pilot
      BY <2>1 DEF vars, replay
    <3>2. CassetteInv'
      BY <1>1, <3>1 DEF PilotInv, CassetteInv, CassetteTypeOK, FilesAreSound, RunsAreSound,
         SoundRun, SoundRecording, AnswersAreToTheRequest
    <3> QED BY <1>1, <3>1, <3>2, Unmoved
  <2>2. CASE PilotGoesOn
    BY <1>1, <2>2, SkipRowStep, SearchRowStep, SearchStep, DriverReplaysStep, TakeStep,
       FinishStep DEF PilotGoesOn
  <2> QED BY <1>1, <2>1, <2>2, StartOrStop, OthersStep DEF Next
<1> QED BY <1>1, Start, PTL DEF Spec

\* The variables of the stores, of every caller and of the pilot keep their
\* types, and a report keeps to its rows (replay/store.py, replay/runner.py,
\* scripts/discover_sources.py).
THEOREM PilotTypes == Spec => []TypeOK
BY Invariance, PTL DEF PilotInv

\* Whoever records, replaces, promotes, renames or damages cassettes, a
\* response somebody holds was given to the request they made (store.py:98-134).
THEOREM OnlyItsOwnAnswer == Spec => []AnswersAreToTheRequest
BY Invariance, PTL DEF PilotInv, CassetteInv

\* Whatever fails, stops or is recorded over, a report answers its rows one for
\* one, a finished one all of them, within what the rows begun may cost, and no
\* replay reaches a provider (discover_sources.py:155-209, runner.py:129-179).
THEOREM ThePilotIsAccountable == Spec => []PilotIsAccountable
<1>1. PilotInv => PilotIsAccountable
  <2> SUFFICES ASSUME PilotInv PROVE PilotIsAccountable
    OBVIOUS
  <2>1. FinishedReportIsComplete
    <3>1. rows \in Seq(Rows) /\ Len(rows) \in Nat
      BY PilotAssumption, EmptySeq, LenProperties DEF PilotInv, TypeOK
    <3> QED BY <3>1 DEF PilotInv, ReportInv, FinishedReportIsComplete
  <2>2. SpendIsBounded
    BY DEF PilotInv, TypeOK, SpendInv, SpendIsBounded, Due
  <2>3. ReplayCallsNobody
    BY DEF PilotInv, CassetteInv, RunsAreSound, SoundRun, ReplayCallsNobody
  <2> QED BY <2>1, <2>2, <2>3 DEF PilotInv, ReportInv, PilotIsAccountable
<1> QED BY <1>1, Invariance, PTL
=================================================================================
