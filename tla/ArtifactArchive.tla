--------------------------- MODULE ArtifactArchive ---------------------------
(***************************************************************************)
(* What an artifact store promises to the stages that cite it              *)
(* (ingest/storage.py): a digest is either not stored or stored whole;     *)
(* once stored it stays stored; and a load answers with the stored         *)
(* artifact and with exactly the text that artifact was ingested with.     *)
(* Files, write order, crashes and concurrent processes do not appear      *)
(* here: ArtifactStore has them, and implements this module.               *)
(***************************************************************************)
CONSTANTS
    Procs,      \* the processes that save and load
    Digests,    \* content hashes of original bytes
    Artifacts,  \* ingested artifacts
    ShaOf,      \* ShaOf[a]: the digest artifact a was ingested from
    TextOf,     \* TextOf[a]: its page texts, or its HTML read model
    None

VARIABLES
    shelf,      \* shelf[h]: the artifact stored under digest h, or None
    answer      \* answer[p]: what the last load of process p returned

vars == <<shelf, answer>>

NotFound == [artifact |-> None, text |-> << >>]

Answers == {None, NotFound} \cup
           {[artifact |-> a, text |-> TextOf[a]] : a \in Artifacts}

Init ==
    /\ shelf = [h \in Digests |-> None]
    /\ answer = [p \in Procs |-> None]

\* The whole artifact becomes visible in one step.
Publish(a) ==
    /\ shelf[ShaOf[a]] = None
    /\ shelf' = [shelf EXCEPT ![ShaOf[a]] = a]
    /\ UNCHANGED answer

Load(p, h) ==
    /\ answer' = [answer EXCEPT ![p] =
                    IF shelf[h] = None THEN NotFound
                    ELSE [artifact |-> shelf[h], text |-> TextOf[shelf[h]]]]
    /\ UNCHANGED shelf

\* The process drops its last answer and turns to something else.
Forget(p) ==
    /\ answer' = [answer EXCEPT ![p] = None]
    /\ UNCHANGED shelf

Next ==
    \/ \E a \in Artifacts : Publish(a)
    \/ \E p \in Procs, h \in Digests : Load(p, h)
    \/ \E p \in Procs : Forget(p)

Spec == Init /\ [][Next]_vars
==============================================================================
