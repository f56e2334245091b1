----------------------------- MODULE MCWorkbench -----------------------------
(* Workbench on small catalogs: a file of two rows and an INVALID one, and   *)
(* a one-row file and manual products, one of them a blank part number.      *)
EXTENDS Workbench, TLC

CONSTANTS f1, f2, m0, m1, r1, r2, r3, bad, man, blank, k1, k2, l1, l2

MCDetected == [c \in Catalogs |-> IF c = f2 THEN m0 ELSE m1]
MCRowsOf ==
    [c \in Catalogs |-> [m \in Mappings |->
        IF m = m0 THEN <<bad>>
        ELSE CASE c = f1 -> <<r1, bad, r2>>
               [] c = blank -> <<bad>>
               [] OTHER -> <<r3>>]]

Symmetry == Permutations(Imports) \cup Permutations(Loops)

\* The bound on the search: two imports overlap, or two loops and one import, but
\* not two imports and a loop.
UnderWay(what) == Cardinality({k \in DOMAIN what : what[k] # None})

MCNext ==
    \/ /\ UnderWay(imports) = 0 \/ UnderWay(loops) = 0
       /\ \E k \in Imports : Import(k)
    \/ \E k \in Imports : ImportGoesOn(k)
    \/ \E m \in Mappings : MapColumns(m)
    \/ PrepareRows
    \/ \E c \in Products : PrepareManual(c)
    \/ Reset
    \/ \E i \in Ids : Toggle(i) \/ OpenResult(i)
    \/ \E ids \in SUBSET Ids : ToggleAll(ids)
    \/ /\ UnderWay(imports) < 2
       /\ \E k \in Loops : AnalyzeSelected(k) \/ \E i \in Ids : AnalyzeRow(k, i)
    \/ \E k \in Loops : LoopGoesOn(k)

MCSpec == Init /\ [][MCNext]_vars /\ Fairness
==============================================================================
