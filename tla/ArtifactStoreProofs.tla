------------------------- MODULE ArtifactStoreProofs -------------------------
(***************************************************************************)
(* Proofs about the artifact store, for every set of processes, digests,   *)
(* artifacts and texts that satisfies StoreAssumption.                     *)
(***************************************************************************)
EXTENDS ArtifactStore, TLAPS

(***************************************************************************)
(* The inductive invariant of Spec.  Busy ties a process's local state to  *)
(* its program counter; Stored says what the files of a digest can be;     *)
(* Reading says what a load has in hand.                                   *)
(***************************************************************************)
PdfPCs == {"save pages", "load page map", "load pages"}
HtmlPCs == {"save content", "load content"}

IsRead(h, k, t) == \E a \in Artifacts : ShaOf[a] = h /\ KindOf[a] = k /\ TextOf[a] = t

BusyIn(p) ==
    /\ pc[p] # "idle" => art[p] \in Artifacts /\ outcome[p] = "none"
    /\ outcome[p] \in {"saved", "loaded"} => art[p] \in Artifacts
    /\ pc[p] \in PdfPCs => KindOf[art[p]] = "PDF"
    /\ pc[p] \in HtmlPCs => KindOf[art[p]] = "HTML"
    /\ pc[p] \in {"load original", "load page map"} => text[p] = << >>

Busy == \A p \in Procs : BusyIn(p)

Stored ==
    \A h \in Digests :
        /\ metadata[h] # None => ShaOf[metadata[h]] = h
        /\ pageMap[h] # << >> => IsRead(h, "PDF", pageMap[h])

ReadingIn(p) ==
    /\ pc[p] = "load pages" =>
           /\ IsRead(ShaOf[art[p]], "PDF", map[p])
           /\ Len(text[p]) < Len(map[p])
           /\ \A i \in 1..Len(text[p]) : text[p][i] = map[p][i]
    /\ outcome[p] = "loaded" => IsRead(ShaOf[art[p]], KindOf[art[p]], text[p])
    /\ outcome[p] = "loaded" /\ KindOf[art[p]] = "HTML" => text[p] = TextOf[art[p]]

Reading == \A p \in Procs : ReadingIn(p)

Inv == TypeOK /\ Busy /\ Stored /\ Reading

\* A well-typed change of one process's local state leaves all of them well typed.
LEMMA BecomeType ==
    ASSUME TypeOK, NEW p \in Procs, NEW next \in {"idle"} \cup SavePCs \cup LoadPCs,
           NEW a \in Artifacts \cup {None}, NEW m \in Seq(Texts), NEW t \in Seq(Texts),
           NEW result \in Outcomes, Become(p, next, a, m, t, result)
    PROVE  /\ pc' \in [Procs -> {"idle"} \cup SavePCs \cup LoadPCs]
           /\ art' \in [Procs -> Artifacts \cup {None}]
           /\ map' \in [Procs -> Seq(Texts)]
           /\ text' \in [Procs -> Seq(Texts)]
           /\ outcome' \in [Procs -> Outcomes]
BY DEF TypeOK, Become

\* Become gives process p that local state, and no other process another.
LEMMA BecomeElsewhere ==
    ASSUME TypeOK, NEW p \in Procs, NEW next, NEW a, NEW m, NEW t, NEW result,
           Become(p, next, a, m, t, result)
    PROVE  /\ pc'[p] = next /\ art'[p] = a /\ map'[p] = m /\ text'[p] = t
           /\ outcome'[p] = result
           /\ \A q \in Procs \ {p} : /\ pc'[q] = pc[q] /\ art'[q] = art[q]
                                     /\ map'[q] = map[q] /\ text'[q] = text[q]
                                     /\ outcome'[q] = outcome[q]
BY DEF TypeOK, Become

\* An artifact's text is a non-empty sequence of page texts, numbered by PageNums.
LEMMA TextTypes ==
    /\ \A a \in Artifacts : /\ TextOf[a] \in Seq(Texts)
                            /\ Len(TextOf[a]) \in Nat \ {0}
                            /\ \A i \in 1..Len(TextOf[a]) : /\ TextOf[a][i] \in Texts
                                                            /\ i \in PageNums
    /\ << >> \in Seq(Texts)
BY StoreAssumption DEF PageNums

\* Going to the next step is a change of the program counter alone.
LEMMA GoToIsBecome ==
    ASSUME TypeOK, NEW p \in Procs, NEW next, GoTo(p, next)
    PROVE  Become(p, next, art[p], map[p], text[p], outcome[p])
BY DEF TypeOK, GoTo, Become

\* The initial state satisfies the invariant.
LEMMA InitInv == Init => Inv
<1> SUFFICES ASSUME Init PROVE Inv
    OBVIOUS
<1>1. TypeOK
    BY TextTypes DEF Init, TypeOK, SavePCs, LoadPCs, Outcomes, FileText
<1>2. Busy /\ Stored /\ Reading
    BY DEF Init, Busy, BusyIn, Stored, Reading, ReadingIn, PdfPCs, HtmlPCs
<1>3. QED
    BY <1>1, <1>2 DEF Inv

(***************************************************************************)
(* Each kind of step keeps the invariant.  Busy and Reading speak of the   *)
(* processes only: they survive any step whose new local state is in       *)
(* order, whatever it does to the files.                                   *)
(***************************************************************************)
InOrder(next, a, m, t, result) ==
    /\ next \in {"idle"} \cup SavePCs \cup LoadPCs
    /\ a \in Artifacts \cup {None}
    /\ m \in Seq(Texts) /\ t \in Seq(Texts)
    /\ result \in Outcomes
    /\ next # "idle" => a \in Artifacts /\ result = "none"
    /\ result \in {"saved", "loaded"} => a \in Artifacts
    /\ next \in PdfPCs => KindOf[a] = "PDF"
    /\ next \in HtmlPCs => KindOf[a] = "HTML"
    /\ next \in {"load original", "load page map"} => t = << >>
    /\ next = "load pages" => /\ IsRead(ShaOf[a], "PDF", m)
                              /\ Len(t) < Len(m)
                              /\ \A i \in 1..Len(t) : t[i] = m[i]
    /\ result = "loaded" => IsRead(ShaOf[a], KindOf[a], t)
    /\ result = "loaded" /\ KindOf[a] = "HTML" => t = TextOf[a]

\* A local state in order keeps what the invariant says of the processes.
LEMMA LocalState ==
    ASSUME Inv, NEW p \in Procs, NEW next, NEW a, NEW m, NEW t, NEW result,
           InOrder(next, a, m, t, result), Become(p, next, a, m, t, result)
    PROVE  Busy' /\ Reading'
<1> USE DEF Inv
<1>1. /\ pc'[p] = next /\ art'[p] = a /\ map'[p] = m /\ text'[p] = t
      /\ outcome'[p] = result
    BY BecomeElsewhere
<1>2. ASSUME NEW q \in Procs, q # p
      PROVE  /\ pc'[q] = pc[q] /\ art'[q] = art[q] /\ map'[q] = map[q]
             /\ text'[q] = text[q] /\ outcome'[q] = outcome[q]
    BY <1>2, BecomeElsewhere
<1>3. BusyIn(p)' /\ ReadingIn(p)'
    BY <1>1 DEF BusyIn, ReadingIn, InOrder, IsRead
<1>4. ASSUME NEW q \in Procs, q # p
      PROVE  BusyIn(q)' /\ ReadingIn(q)'
    <2>1. /\ pc'[q] = pc[q] /\ art'[q] = art[q] /\ map'[q] = map[q]
          /\ text'[q] = text[q] /\ outcome'[q] = outcome[q]
        BY <1>2, <1>4
    <2>2. BusyIn(q) /\ ReadingIn(q)
        BY <1>4 DEF Busy, Reading
    <2>3. BusyIn(q)'
        BY <2>1, <2>2 DEF BusyIn
    <2>4. ReadingIn(q)'
        BY <2>1, <2>2 DEF ReadingIn, IsRead
    <2>5. QED
        BY <2>3, <2>4
<1>5. QED
    BY <1>3, <1>4 DEF Busy, Reading

\* A step in order that touches no file keeps the invariant.
LEMMA LocalStep ==
    ASSUME Inv, UNCHANGED disk, NEW p \in Procs,
           NEW next, NEW a, NEW m, NEW t, NEW result,
           InOrder(next, a, m, t, result), Become(p, next, a, m, t, result)
    PROVE  Inv'
<1>1. TypeOK'
    BY BecomeType DEF Inv, TypeOK, disk, InOrder
<1>2. Stored'
    BY DEF Inv, Stored, disk, IsRead
<1>3. QED
    BY <1>1, <1>2, LocalState DEF Inv

\* An operation that ends in an error leaves the process in order.
LEMMA FailureInOrder ==
    ASSUME NEW error \in Outcomes \ {"saved", "loaded"}
    PROVE  InOrder("idle", None, << >>, << >>, error)
BY TextTypes DEF InOrder, PdfPCs, HtmlPCs

\* Every step of a save keeps the invariant (storage.py:135-235).
LEMMA SaveStep ==
    ASSUME Inv, NEW p \in Procs, Save(p)
    PROVE  Inv'
<1> USE TextTypes DEF Inv
<1>1. ASSUME NEW a \in Artifacts, BeginSave(p, a)
      PROVE  Inv'
    <2>1. InOrder("save original", a, << >>, << >>, "none")
        BY DEF InOrder, SavePCs, Outcomes, PdfPCs, HtmlPCs
    <2>2. "corrupt" \in Outcomes \ {"saved", "loaded"}
        BY DEF Outcomes
    <2>3. CASE Fails(p, "corrupt")
        BY <1>1, <2>2, <2>3, FailureInOrder, LocalStep DEF BeginSave, Fails
    <2>4. CASE Start(p, a, "save original")
        BY <1>1, <2>1, <2>4, LocalStep DEF BeginSave, Start
    <2>5. QED
        BY <1>1, <2>3, <2>4 DEF BeginSave
<1>2. CASE SaveOriginal(p)
    <2>1. /\ art[p] \in Artifacts /\ ShaOf[art[p]] \in Digests /\ KindOf[art[p]] \in Kinds
          /\ outcome[p] = "none" /\ map[p] \in Seq(Texts) /\ text[p] \in Seq(Texts)
        BY <1>2, StoreAssumption DEF SaveOriginal, Busy, BusyIn, TypeOK
    <2>2. PICK next \in {"save pages", "save content"} :
              /\ next = IF KindOf[art[p]] = "PDF" THEN "save pages" ELSE "save content"
              /\ Become(p, next, art[p], map[p], text[p], outcome[p])
        BY <1>2, GoToIsBecome DEF SaveOriginal
    <2>3. /\ original' = [original EXCEPT ![ShaOf[art[p]]][KindOf[art[p]]] = "good"]
          /\ UNCHANGED <<pages, pageMap, content, metadata>>
        BY <1>2 DEF SaveOriginal
    <2>4. InOrder(next, art[p], map[p], text[p], outcome[p])
        BY <2>1, <2>2 DEF InOrder, SavePCs, Outcomes, PdfPCs, HtmlPCs, Kinds
    <2>5. TypeOK'
        BY <2>1, <2>2, <2>3, <2>4, BecomeType DEF TypeOK, InOrder
    <2>6. Stored'
        BY <2>3 DEF Stored, IsRead
    <2>7. QED
        BY <2>2, <2>4, <2>5, <2>6, LocalState
<1>3. CASE SavePage(p)
    <2> DEFINE i == Len(text[p]) + 1
               t == TextOf[art[p]]
    <2>1. /\ art[p] \in Artifacts /\ ShaOf[art[p]] \in Digests /\ outcome[p] = "none"
          /\ text[p] \in Seq(Texts)
        BY <1>3, StoreAssumption DEF SavePage, Busy, BusyIn, TypeOK
    <2>2. i \in 1..Len(t) /\ t[i] \in Texts /\ i \in PageNums
        <3>1. /\ i \in Nat \ {0}
              /\ Len(t) \in Nat
            BY <2>1
        <3>2. i <= Len(t)
            BY <1>3 DEF SavePage
        <3>3. i \in 1..Len(t)
            BY <3>1, <3>2
        <3>4. QED
            BY <2>1, <3>3
    <2>3. /\ pc' = pc /\ art' = art /\ map' = map /\ outcome' = outcome
          /\ text' = [text EXCEPT ![p] = Append(@, t[i])]
          /\ pages' = [pages EXCEPT ![ShaOf[art[p]]][i] = t[i]]
          /\ UNCHANGED <<original, pageMap, content, metadata>>
          /\ pc[p] = "save pages"
        BY <1>3 DEF SavePage
    <2>4. TypeOK'
        <3>1. text' \in [Procs -> Seq(Texts)]
            <4>1. Append(text[p], t[i]) \in Seq(Texts)
                BY <2>1, <2>2
            <4>2. QED
                BY <2>3, <4>1 DEF TypeOK
        <3>2. pages' \in [Digests -> [PageNums -> FileText]]
            BY <2>1, <2>2, <2>3 DEF TypeOK, FileText
        <3>3. QED
            BY <2>3, <3>1, <3>2 DEF TypeOK
    <2>5. Busy'
        BY <2>3 DEF Busy, BusyIn, TypeOK
    <2>6. Stored'
        BY <2>3 DEF Stored, IsRead
    <2>7. Reading'
        <3>1. ASSUME NEW q \in Procs PROVE ReadingIn(q)'
            <4>1. ReadingIn(q)
                BY DEF Reading
            <4>2. CASE q = p
                BY <2>1, <2>3, <4>1, <4>2 DEF ReadingIn
            <4>3. CASE q # p
                <5>1. text'[q] = text[q]
                    BY <2>3, <4>3 DEF TypeOK
                <5>2. QED
                    BY <2>3, <4>1, <5>1 DEF ReadingIn, IsRead
            <4>4. QED
                BY <4>1, <4>2, <4>3
        <3>2. QED
            BY <3>1 DEF Reading
    <2>8. QED
        BY <2>4, <2>5, <2>6, <2>7
<1>4. CASE SavePageMap(p)
    <2>1. /\ art[p] \in Artifacts /\ ShaOf[art[p]] \in Digests /\ KindOf[art[p]] = "PDF"
          /\ outcome[p] = "none" /\ map[p] \in Seq(Texts) /\ text[p] \in Seq(Texts)
        BY <1>4, StoreAssumption DEF SavePageMap, Busy, BusyIn, TypeOK, PdfPCs
    <2>2. Become(p, "save metadata", art[p], map[p], text[p], outcome[p])
        BY <1>4, GoToIsBecome DEF SavePageMap
    <2>3. /\ pageMap' = [pageMap EXCEPT ![ShaOf[art[p]]] = TextOf[art[p]]]
          /\ UNCHANGED <<original, pages, content, metadata>>
        BY <1>4 DEF SavePageMap
    <2>4. InOrder("save metadata", art[p], map[p], text[p], outcome[p])
        BY <2>1 DEF InOrder, SavePCs, Outcomes, PdfPCs, HtmlPCs
    <2>5. TypeOK'
        BY <2>1, <2>2, <2>3, <2>4, BecomeType DEF TypeOK, InOrder
    <2>6. Stored'
        BY <2>1, <2>3 DEF Stored, IsRead, TypeOK
    <2>7. QED
        BY <2>2, <2>4, <2>5, <2>6, LocalState
<1>5. CASE SaveContent(p)
    <2>1. /\ art[p] \in Artifacts /\ ShaOf[art[p]] \in Digests
          /\ outcome[p] = "none" /\ map[p] \in Seq(Texts) /\ text[p] \in Seq(Texts)
        BY <1>5, StoreAssumption DEF SaveContent, Busy, BusyIn, TypeOK
    <2>2. Become(p, "save metadata", art[p], map[p], text[p], outcome[p])
        BY <1>5, GoToIsBecome DEF SaveContent
    <2>3. /\ content' = [content EXCEPT ![ShaOf[art[p]]] = TextOf[art[p]]]
          /\ UNCHANGED <<original, pages, pageMap, metadata>>
        BY <1>5 DEF SaveContent
    <2>4. InOrder("save metadata", art[p], map[p], text[p], outcome[p])
        BY <2>1 DEF InOrder, SavePCs, Outcomes, PdfPCs, HtmlPCs
    <2>5. TypeOK'
        BY <2>1, <2>2, <2>3, <2>4, BecomeType DEF TypeOK, InOrder
    <2>6. Stored'
        BY <2>1, <2>3 DEF Stored, IsRead, TypeOK
    <2>7. QED
        BY <2>2, <2>4, <2>5, <2>6, LocalState
<1>6. CASE SaveMetadata(p)
    <2>1. /\ art[p] \in Artifacts /\ ShaOf[art[p]] \in Digests
          /\ outcome[p] = "none" /\ map[p] \in Seq(Texts) /\ text[p] \in Seq(Texts)
        BY <1>6, StoreAssumption DEF SaveMetadata, Busy, BusyIn, TypeOK
    <2>2. Become(p, "idle", art[p], << >>, << >>, "saved")
        BY <1>6 DEF SaveMetadata, Saved
    <2>3. /\ metadata' = [metadata EXCEPT ![ShaOf[art[p]]] = art[p]]
          /\ UNCHANGED <<original, pages, pageMap, content>>
        BY <1>6 DEF SaveMetadata
    <2>4. InOrder("idle", art[p], << >>, << >>, "saved")
        BY <2>1 DEF InOrder, Outcomes, PdfPCs, HtmlPCs
    <2>5. TypeOK'
        BY <2>1, <2>2, <2>3, <2>4, BecomeType DEF TypeOK, InOrder
    <2>6. Stored'
        BY <2>1, <2>3 DEF Stored, IsRead, TypeOK
    <2>7. QED
        BY <2>2, <2>4, <2>5, <2>6, LocalState
<1>7. QED
    BY <1>1, <1>2, <1>3, <1>4, <1>5, <1>6 DEF Save

\* Every step of a load keeps the invariant (storage.py:239-355).
LEMMA LoadStep ==
    ASSUME Inv, NEW p \in Procs, Load(p)
    PROVE  Inv'
<1> USE TextTypes DEF Inv
<1>1. map[p] \in Seq(Texts) /\ text[p] \in Seq(Texts)
    BY DEF TypeOK
<1>2. /\ "corrupt" \in Outcomes \ {"saved", "loaded"}
      /\ "not found" \in Outcomes \ {"saved", "loaded"}
    BY DEF Outcomes
<1>3. ASSUME NEW h \in Digests, BeginLoad(p, h)
      PROVE  Inv'
    <2>1. CASE metadata[h] = None
        BY <1>2, <1>3, <2>1, FailureInOrder, LocalStep DEF BeginLoad, Fails
    <2>2. CASE metadata[h] # None
        <3>1. metadata[h] \in Artifacts
            BY <2>2 DEF TypeOK
        <3>2. InOrder("load original", metadata[h], << >>, << >>, "none")
            BY <3>1 DEF InOrder, LoadPCs, Outcomes, PdfPCs, HtmlPCs
        <3>3. QED
            BY <1>3, <2>2, <3>2, LocalStep DEF BeginLoad, Start
    <2>3. QED
        BY <2>1, <2>2
<1>4. ASSUME NEW verify \in BOOLEAN, LoadOriginal(p, verify)
      PROVE  Inv'
    <2>1. CASE Fails(p, "corrupt")
        BY <1>2, <1>4, <2>1, FailureInOrder, LocalStep DEF LoadOriginal, Fails
    <2> DEFINE next == IF KindOf[art[p]] = "PDF" THEN "load page map" ELSE "load content"
    <2>2. CASE GoTo(p, next)
        <3>1. /\ art[p] \in Artifacts /\ outcome[p] = "none" /\ text[p] = << >>
              /\ KindOf[art[p]] \in Kinds
            BY <1>4, StoreAssumption DEF LoadOriginal, Busy, BusyIn
        <3>2. InOrder(next, art[p], map[p], text[p], outcome[p])
            BY <1>1, <3>1 DEF InOrder, LoadPCs, Outcomes, PdfPCs, HtmlPCs, Kinds
        <3>3. Become(p, next, art[p], map[p], text[p], outcome[p])
            BY <2>2, GoToIsBecome
        <3>4. QED
            BY <1>4, <3>2, <3>3, LocalStep DEF LoadOriginal
    <2>3. QED
        BY <1>4, <2>1, <2>2 DEF LoadOriginal
<1>5. CASE LoadPageMap(p)
    <2> DEFINE m == pageMap[ShaOf[art[p]]]
    <2>1. CASE Fails(p, "corrupt")
        BY <1>2, <1>5, <2>1, FailureInOrder, LocalStep DEF LoadPageMap, Fails
    <2>2. CASE ~Fails(p, "corrupt")
        <3>1. /\ art[p] \in Artifacts /\ outcome[p] = "none" /\ text[p] = << >>
              /\ KindOf[art[p]] = "PDF" /\ ShaOf[art[p]] \in Digests
            BY <1>5, StoreAssumption DEF LoadPageMap, Busy, BusyIn, PdfPCs
        <3>2. /\ m # << >> /\ Len(m) = Len(TextOf[art[p]])
              /\ pc' = [pc EXCEPT ![p] = "load pages"]
              /\ map' = [map EXCEPT ![p] = m]
              /\ UNCHANGED <<art, text, outcome>>
            BY <1>5, <2>2 DEF LoadPageMap
        <3>3. IsRead(ShaOf[art[p]], "PDF", m) /\ m \in Seq(Texts)
            BY <3>1, <3>2 DEF Stored, IsRead
        <3>4. Len(m) \in Nat \ {0}
            BY <3>1, <3>2
        <3>5. Len(text[p]) = 0
            BY <3>1
        <3>6. /\ Len(text[p]) < Len(m)
              /\ \A i \in 1..Len(text[p]) : text[p][i] = m[i]
            BY <3>4, <3>5
        <3>7. InOrder("load pages", art[p], m, text[p], outcome[p])
            BY <1>1, <3>1, <3>2, <3>3, <3>6 DEF InOrder, LoadPCs, Outcomes, PdfPCs, HtmlPCs
        <3>8. Become(p, "load pages", art[p], m, text[p], outcome[p])
            BY <3>2 DEF Become, TypeOK
        <3>9. QED
            BY <1>5, <3>7, <3>8, LocalStep DEF LoadPageMap
    <2>3. QED
        BY <2>1, <2>2
<1>6. CASE LoadPage(p)
    <2> DEFINE i == Len(text[p]) + 1
               t == Append(text[p], pages[ShaOf[art[p]]][i])
    <2>1. /\ art[p] \in Artifacts /\ outcome[p] = "none" /\ KindOf[art[p]] = "PDF"
          /\ IsRead(ShaOf[art[p]], "PDF", map[p])
          /\ Len(text[p]) < Len(map[p])
          /\ \A j \in 1..Len(text[p]) : text[p][j] = map[p][j]
        BY <1>6 DEF LoadPage, Busy, BusyIn, Reading, ReadingIn, PdfPCs
    <2>2. ASSUME PageMatches(p, i)
          PROVE  /\ t \in Seq(Texts) /\ Len(t) = i
                 /\ \A j \in 1..Len(t) : t[j] = map[p][j]
        <3>1. Len(text[p]) \in Nat /\ Len(map[p]) \in Nat
            BY <1>1
        <3>2. i \in 1..Len(map[p])
            BY <2>1, <3>1
        <3>3. map[p][i] \in Texts
            BY <1>1, <3>2
        <3>4. t = Append(text[p], map[p][i])
            BY <2>2 DEF PageMatches
        <3>5. t \in Seq(Texts) /\ Len(t) = i
            BY <1>1, <3>3, <3>4
        <3>6. ASSUME NEW j \in 1..Len(t)
              PROVE  t[j] = map[p][j]
            BY <1>1, <2>1, <3>1, <3>3, <3>4, <3>5
        <3>7. QED
            BY <3>5, <3>6
    <2>3. CASE PageMatches(p, i) /\ i < Len(map[p])
               /\ Become(p, "load pages", art[p], map[p], t, "none")
        <3>1. InOrder("load pages", art[p], map[p], t, "none")
            BY <1>1, <2>1, <2>2, <2>3 DEF InOrder, LoadPCs, Outcomes, PdfPCs, HtmlPCs
        <3>2. QED
            BY <1>6, <2>3, <3>1, LocalStep DEF LoadPage
    <2>4. CASE PageMatches(p, i) /\ i = Len(map[p]) /\ Loads(p, t)
        <3>1. /\ t \in Seq(Texts) /\ Len(t) = Len(map[p])
              /\ \A j \in 1..Len(t) : t[j] = map[p][j]
            BY <2>2, <2>4
        <3>2. t = map[p]
            BY <1>1, <3>1
        <3>3. InOrder("idle", art[p], << >>, t, "loaded")
            BY <2>1, <3>1, <3>2 DEF InOrder, Outcomes, PdfPCs, HtmlPCs
        <3>4. QED
            BY <1>6, <2>4, <3>3, LocalStep DEF LoadPage, Loads
    <2>5. CASE Fails(p, "corrupt")
        BY <1>2, <1>6, <2>5, FailureInOrder, LocalStep DEF LoadPage, Fails
    <2>6. QED
        BY <1>6, <2>3, <2>4, <2>5 DEF LoadPage
<1>7. CASE LoadContent(p)
    <2>1. CASE Fails(p, "corrupt")
        BY <1>2, <1>7, <2>1, FailureInOrder, LocalStep DEF LoadContent, Fails
    <2>2. CASE ~Fails(p, "corrupt")
        <3>1. art[p] \in Artifacts /\ KindOf[art[p]] = "HTML"
            BY <1>7 DEF LoadContent, Busy, BusyIn, HtmlPCs
        <3>2. Become(p, "idle", art[p], << >>, TextOf[art[p]], "loaded")
            BY <1>7, <2>2 DEF LoadContent, Loads, ContentMatches
        <3>3. InOrder("idle", art[p], << >>, TextOf[art[p]], "loaded")
            BY <3>1 DEF InOrder, Outcomes, PdfPCs, HtmlPCs, IsRead
        <3>4. QED
            BY <1>7, <3>2, <3>3, LocalStep DEF LoadContent
    <2>3. QED
        BY <2>1, <2>2
<1>8. QED
    BY <1>3, <1>4, <1>5, <1>6, <1>7 DEF Load

\* A process that stops keeps the invariant.
LEMMA CrashStep ==
    ASSUME Inv, NEW p \in Procs, Crash(p)
    PROVE  Inv'
<1>1. InOrder("idle", None, << >>, << >>, "none")
    BY FailureInOrder DEF Outcomes
<1>2. QED
    BY <1>1, LocalStep DEF Crash, Start

\* Steps on the files of a digest leave every process's state alone, and
\* what they leave in the files is still in order.
LEMMA FileStep ==
    ASSUME Inv, NEW h \in Digests, DeleteFile(h) \/ AlterFile(h)
    PROVE  Inv'
<1> USE DEF Inv
<1>1. UNCHANGED proc
    BY DEF DeleteFile, AlterFile
<1>2. Busy' /\ Reading'
    <2>1. ASSUME NEW q \in Procs
          PROVE  BusyIn(q)' /\ ReadingIn(q)'
        <3>1. BusyIn(q) /\ ReadingIn(q)
            BY DEF Busy, Reading
        <3>2. BusyIn(q)'
            BY <1>1, <3>1 DEF proc, BusyIn
        <3>3. ReadingIn(q)'
            BY <1>1, <3>1 DEF proc, ReadingIn, IsRead
        <3>4. QED
            BY <3>2, <3>3
    <2>2. QED
        BY <2>1 DEF Busy, Reading
<1>3. original' \in [Digests -> [Kinds -> {"good", "altered", "absent"}]]
    <2>1. original \in [Digests -> [Kinds -> {"good", "altered", "absent"}]]
        BY DEF TypeOK
    <2>2. \/ original' = original
          \/ \E k \in Kinds, x \in {"altered", "absent"} :
                 original' = [original EXCEPT ![h][k] = x]
        BY DEF DeleteFile, AlterFile
    <2>3. QED
        BY <2>1, <2>2
<1>4. pages' \in [Digests -> [PageNums -> FileText]]
    <2>1. pages \in [Digests -> [PageNums -> FileText]]
        BY DEF TypeOK
    <2>2. \/ pages' = pages
          \/ \E i \in PageNums, x \in FileText : pages' = [pages EXCEPT ![h][i] = x]
        BY DEF DeleteFile, AlterFile, FileText
    <2>3. QED
        BY <2>1, <2>2
<1>5. pageMap' \in [Digests -> {TextOf[a] : a \in Artifacts} \cup {<< >>}]
    <2>1. \/ pageMap' = pageMap
          \/ pageMap' = [pageMap EXCEPT ![h] = << >>]
        BY DEF DeleteFile, AlterFile
    <2>2. QED
        BY <2>1 DEF TypeOK
<1>6. content' \in [Digests -> {TextOf[a] : a \in Artifacts} \cup {<< >>, <<Garbage>>}]
    <2>1. \/ content' = content
          \/ content' = [content EXCEPT ![h] = << >>]
          \/ content' = [content EXCEPT ![h] = <<Garbage>>]
        BY DEF DeleteFile, AlterFile
    <2>2. QED
        BY <2>1 DEF TypeOK
<1>7. metadata' \in [Digests -> Artifacts \cup {None}]
    <2>1. \/ metadata' = metadata
          \/ metadata' = [metadata EXCEPT ![h] = None]
        BY DEF DeleteFile, AlterFile
    <2>2. QED
        BY <2>1 DEF TypeOK
<1>8. TypeOK'
    BY <1>1, <1>4, <1>3, <1>5, <1>6, <1>7 DEF TypeOK, proc
<1>9. Stored'
    <2>1. /\ pageMap' = pageMap \/ pageMap' = [pageMap EXCEPT ![h] = << >>]
          /\ metadata' = metadata \/ metadata' = [metadata EXCEPT ![h] = None]
        BY DEF DeleteFile, AlterFile
    <2>2. /\ pageMap \in [Digests -> {TextOf[a] : a \in Artifacts} \cup {<< >>}]
          /\ metadata \in [Digests -> Artifacts \cup {None}]
        BY DEF TypeOK
    <2>3. ASSUME NEW g \in Digests
          PROVE  /\ pageMap'[g] \in {pageMap[g], << >>}
                 /\ metadata'[g] \in {metadata[g], None}
        BY <2>1, <2>2
    <2>4. QED
        BY <2>3 DEF Stored, IsRead
<1>10. QED
    BY <1>2, <1>8, <1>9

\* A stuttering step keeps the invariant.
LEMMA StutterStep ==
    ASSUME Inv, UNCHANGED vars
    PROVE  Inv'
<1> USE DEF Inv, vars, disk, proc
<1>1. TypeOK'
    BY DEF TypeOK
<1>2. Stored'
    BY DEF Stored, IsRead
<1>3. ASSUME NEW q \in Procs
      PROVE  BusyIn(q)' /\ ReadingIn(q)'
    <2>1. BusyIn(q) /\ ReadingIn(q)
        BY DEF Busy, Reading
    <2>2. QED
        BY <2>1 DEF BusyIn, ReadingIn, IsRead
<1>4. QED
    BY <1>1, <1>2, <1>3 DEF Busy, Reading

\* The invariant is inductive.
LEMMA StepInv == Inv /\ [Next]_vars => Inv'
BY SaveStep, LoadStep, CrashStep, FileStep, StutterStep DEF Next, Operate

\* The invariant holds in every reachable state.
LEMMA SpecInv == Spec => []Inv
BY InitInv, StepInv, PTL DEF Spec

\* Every state the store reaches is well formed: no garbage and no absent
\* page ever enters the text a process holds (storage.py:321-327, 383-411).
THEOREM TypeCorrect == Spec => []TypeOK
<1>1. Inv => TypeOK
    BY DEF Inv
<1>2. QED
    BY <1>1, SpecInv, PTL

\* Whatever crashes, re-ingestions, deletions and alterations interleave with
\* it, a successful load returns the whole text of one ingestion of the bytes
\* it asked for (storage.py:239-355).
THEOREM LoadsIngestedText == Spec => []LoadedTextWasIngested
<1>1. Inv => LoadedTextWasIngested
    BY DEF Inv, Reading, ReadingIn, IsRead, LoadedTextWasIngested, Loaded
<1>2. QED
    BY <1>1, SpecInv, PTL

\* A load of HTML returns the text its metadata vouches for (html.py:176).
THEOREM LoadsOneHtmlArtifact == Spec => []LoadedHtmlIsOneArtifact
<1>1. Inv => LoadedHtmlIsOneArtifact
    BY DEF Inv, Reading, ReadingIn, LoadedHtmlIsOneArtifact, Loaded
<1>2. QED
    BY <1>1, SpecInv, PTL

------------------------------------------------------------------------------
(***************************************************************************)
(* The store implements the archive, as long as nothing is deleted or      *)
(* altered (KeepSpec) and no digest is ingested in two ways.               *)
(***************************************************************************)
OneIngestion == \A a, b \in Artifacts : ShaOf[a] = ShaOf[b] => a = b

(***************************************************************************)
(* The inductive invariant of KeepSpec adds to Inv what a save has put on  *)
(* the disk so far, and that what a load relies on is there in full.       *)
(***************************************************************************)
OriginalIn(a) == original[ShaOf[a]][KindOf[a]] = "good"
PageIn(a, i) == pages[ShaOf[a]][i] = TextOf[a][i]
PageMapIn(a) == pageMap[ShaOf[a]] = TextOf[a]
ContentIn(a) == content[ShaOf[a]] = TextOf[a]
Visible(a) == metadata[ShaOf[a]] = a

DerivedIn(a) ==
    IF KindOf[a] = "PDF" THEN PageMapIn(a) /\ \A i \in 1 .. Len(TextOf[a]) : PageIn(a, i)
    ELSE ContentIn(a)

KeptIn(p) ==
    /\ outcome[p] # "corrupt"
    /\ pc[p] = "save original" => text[p] = << >>
    /\ pc[p] \in {"save pages", "save content", "save metadata"} => OriginalIn(art[p])
    /\ pc[p] = "save pages" => /\ Len(text[p]) <= Len(TextOf[art[p]])
                               /\ \A i \in 1 .. Len(text[p]) : PageIn(art[p], i)
    /\ pc[p] = "save metadata" => DerivedIn(art[p])
    /\ pc[p] \in LoadPCs \/ outcome[p] = "saved" => Visible(art[p])
    /\ pc[p] = "load pages" => map[p] = TextOf[art[p]]

Shelved == \A a \in Artifacts : Visible(a) => OriginalIn(a) /\ DerivedIn(a)

KeepInv == Inv /\ Shelved /\ \A p \in Procs : KeptIn(p)

\* Nothing an artifact has on the disk is undone.
Grows ==
    \A a \in Artifacts :
        /\ OriginalIn(a) => OriginalIn(a)'
        /\ \A i \in 1 .. Len(TextOf[a]) : PageIn(a, i) => PageIn(a, i)'
        /\ PageMapIn(a) => PageMapIn(a)'
        /\ ContentIn(a) => ContentIn(a)'
        /\ Visible(a) => Visible(a)'

SameLocal(q) ==
    /\ pc'[q] = pc[q] /\ art'[q] = art[q] /\ map'[q] = map[q]
    /\ text'[q] = text[q] /\ outcome'[q] = outcome[q]

OnlyLocal(p) == \A q \in Procs \ {p} : SameLocal(q)

\* What is derived from an artifact stays, too.
LEMMA DerivedStays ==
    ASSUME Grows, NEW a \in Artifacts, DerivedIn(a)
    PROVE  DerivedIn(a)'
BY DEF Grows, DerivedIn

\* A step of p that undoes nothing keeps what holds of the other processes
\* and of the artifacts it does not publish.
LEMMA OthersKeep ==
    ASSUME KeepInv, Inv', NEW p \in Procs, Grows, OnlyLocal(p), KeptIn(p)',
           \A a \in Artifacts : Visible(a)' => Visible(a) \/ (OriginalIn(a) /\ DerivedIn(a))
    PROVE  KeepInv'
<1>1. Shelved'
  BY DerivedStays DEF KeepInv, Shelved, Grows
<1>2. ASSUME NEW q \in Procs \ {p} PROVE KeptIn(q)'
  <2> DEFINE a == art[q]
  <2>1. KeptIn(q) /\ SameLocal(q) /\ text[q] \in Seq(Texts)
    BY <1>2 DEF KeepInv, OnlyLocal, Inv, TypeOK
  <2>2. /\ pc[q] # "idle" \/ outcome[q] = "saved" => a \in Artifacts
        /\ pc[q] \in LoadPCs => pc[q] # "idle"
    BY <1>2 DEF KeepInv, Inv, Busy, BusyIn, LoadPCs
  <2>3. ASSUME pc[q] = "save pages"
        PROVE  \A i \in 1 .. Len(text[q]) : pages'[ShaOf[a]][i] = TextOf[a][i]
    <3>1. a \in Artifacts /\ Len(text[q]) <= Len(TextOf[a])
      BY <2>1, <2>2, <2>3 DEF KeptIn
    <3>2. Len(text[q]) \in Nat /\ Len(TextOf[a]) \in Nat
      BY <2>1, <3>1, TextTypes
    <3>3. ASSUME NEW i \in 1 .. Len(text[q]) PROVE pages'[ShaOf[a]][i] = TextOf[a][i]
      <4>1. i \in 1 .. Len(TextOf[a])
        BY <3>1, <3>2
      <4> QED BY <2>1, <2>3, <3>1, <4>1 DEF KeptIn, Grows, PageIn
    <3> QED BY <3>3
  <2>4. pc[q] = "save metadata" =>
           IF KindOf[a] = "PDF"
           THEN /\ pageMap'[ShaOf[a]] = TextOf[a]
                /\ \A i \in 1 .. Len(TextOf[a]) : pages'[ShaOf[a]][i] = TextOf[a][i]
           ELSE content'[ShaOf[a]] = TextOf[a]
    BY <2>1, <2>2 DEF KeptIn, DerivedIn, Grows, PageIn, PageMapIn, ContentIn
  <2>5. /\ pc[q] \in {"save pages", "save content", "save metadata"} =>
              original'[ShaOf[a]][KindOf[a]] = "good"
        /\ pc[q] \in LoadPCs \/ outcome[q] = "saved" => metadata'[ShaOf[a]] = a
    BY <2>1, <2>2 DEF KeptIn, Grows, OriginalIn, Visible
  <2>7. pc[q] = "save pages" => /\ Len(text[q]) <= Len(TextOf[a])
                                /\ \A i \in 1 .. Len(text[q]) : pages'[ShaOf[a]][i] = TextOf[a][i]
    BY <2>1, <2>3 DEF KeptIn
  <2>8. /\ outcome[q] # "corrupt" /\ (pc[q] = "save original" => text[q] = << >>)
        /\ pc[q] = "load pages" => map[q] = TextOf[a]
    BY <2>1 DEF KeptIn
  <2>9. pc'[q] = pc[q] /\ map'[q] = map[q] /\ text'[q] = text[q] /\ outcome'[q] = outcome[q]
        /\ art'[q] = a
    BY <2>1 DEF SameLocal
  <2> HIDE DEF a
  <2> QED
    BY <2>4, <2>5, <2>7, <2>8, <2>9
    DEF KeptIn, OriginalIn, PageIn, DerivedIn, PageMapIn, ContentIn, Visible
<1> QED BY <1>1, <1>2 DEF KeepInv

\* A step that writes nothing.
LEMMA Unwritten ==
    ASSUME KeepInv, Inv', UNCHANGED disk, NEW p \in Procs, OnlyLocal(p), KeptIn(p)'
    PROVE  KeepInv'
<1>1. Grows /\ \A a \in Artifacts : Visible(a)' => Visible(a)
  BY DEF Grows, disk, OriginalIn, PageIn, PageMapIn, ContentIn, Visible
<1> QED BY <1>1, OthersKeep

\* Become and GoTo are steps of one process.
LEMMA OneProcess ==
    ASSUME TypeOK, NEW p \in Procs, NEW next, NEW a, NEW m, NEW t, NEW result,
           Become(p, next, a, m, t, result)
    PROVE  /\ pc'[p] = next /\ art'[p] = a /\ text'[p] = t /\ map'[p] = m
           /\ outcome'[p] = result /\ OnlyLocal(p)
<1>1. \A q \in Procs \ {p} : SameLocal(q)
  BY BecomeElsewhere DEF SameLocal
<1>2. OnlyLocal(p)
  BY <1>1 DEF OnlyLocal
<1> QED BY <1>2, BecomeElsewhere

\* An operation that fails or stops relies on nothing.
LEMMA FailureKeeps ==
    ASSUME KeepInv, Inv', UNCHANGED disk, NEW p \in Procs,
           NEW error \in {"none", "not found"}, Become(p, "idle", None, << >>, << >>, error)
    PROVE  KeepInv'
<1>1. /\ pc'[p] = "idle" /\ outcome'[p] = error /\ OnlyLocal(p)
  BY OneProcess DEF KeepInv, Inv
<1>2. KeptIn(p)'
  BY <1>1 DEF KeptIn, LoadPCs
<1> QED BY <1>1, <1>2, Unwritten

\* Every step of a save keeps the invariant: what it writes is what the one
\* artifact of the digest has there anyway.
LEMMA SaveKeeps ==
    ASSUME OneIngestion, KeepInv, Inv', NEW p \in Procs, Save(p)
    PROVE  KeepInv'
<1>0. /\ TypeOK /\ Busy /\ Stored
      /\ text[p] \in Seq(Texts) /\ Len(text[p]) \in Nat
  BY DEF KeepInv, Inv, TypeOK
<1> DEFINE a == art[p]
<1>1. ASSUME NEW b \in Artifacts, BeginSave(p, b)
      PROVE  KeepInv'
  <2>1. metadata[ShaOf[b]] = None \/ metadata[ShaOf[b]] = b
    BY <1>0, StoreAssumption DEF OneIngestion, TypeOK, Stored
  <2>2. Become(p, "save original", b, << >>, << >>, "none") /\ UNCHANGED disk
    BY <1>1, <2>1 DEF BeginSave, Start
  <2>3. pc'[p] = "save original" /\ text'[p] = << >> /\ outcome'[p] = "none" /\ OnlyLocal(p)
    BY <1>0, <2>2, OneProcess
  <2>4. KeptIn(p)'
    BY <2>3 DEF KeptIn, LoadPCs
  <2> QED BY <2>2, <2>3, <2>4, Unwritten
<1>2. ASSUME pc[p] # "idle" PROVE a \in Artifacts /\ ShaOf[a] \in Digests /\ KindOf[a] \in Kinds
                                  /\ outcome[p] = "none" /\ KeptIn(p)
  BY <1>0, <1>2, StoreAssumption DEF KeepInv, Busy, BusyIn
<1>3. CASE SaveOriginal(p)
  <2>1. /\ original' = [original EXCEPT ![ShaOf[a]][KindOf[a]] = "good"]
        /\ UNCHANGED <<pages, pageMap, content, metadata>>
        /\ pc[p] = "save original"
    BY <1>3 DEF SaveOriginal
  <2> DEFINE next == IF KindOf[a] = "PDF" THEN "save pages" ELSE "save content"
  <2>2. Become(p, next, art[p], map[p], text[p], outcome[p])
    BY <1>0, <1>3, GoToIsBecome DEF SaveOriginal
  <2>3. pc'[p] \in {"save pages", "save content"} /\ art'[p] = a /\ text'[p] = text[p]
        /\ outcome'[p] = outcome[p] /\ OnlyLocal(p)
    <3>1. next \in {"save pages", "save content"}
      OBVIOUS
    <3> HIDE DEF next
    <3> QED BY <1>0, <2>2, <3>1, OneProcess
  <2>4. original'[ShaOf[a]][KindOf[a]] = "good"
    BY <1>0, <1>2, <2>1 DEF TypeOK
  <2>5. text[p] = << >> /\ Len(text[p]) = 0 /\ Len(TextOf[a]) \in Nat
    BY <1>2, <2>1, TextTypes DEF KeptIn
  <2>6. KeptIn(p)'
    <3> HIDE DEF next
    <3>0. Len(text'[p]) = 0 /\ Len(TextOf[a]) \in Nat
      BY <2>3, <2>5
    <3>1. Len(text'[p]) <= Len(TextOf[a]) /\ \A j \in 1 .. Len(text'[p]) : FALSE
      BY <3>0
    <3>2. outcome'[p] = "none" /\ pc'[p] \in {"save pages", "save content"} /\ art'[p] = a
      BY <1>2, <2>1, <2>3
    <3> HIDE DEF a
    <3> QED BY <2>4, <3>1, <3>2 DEF KeptIn, OriginalIn, LoadPCs
  <2>7. \A b \in Artifacts : original[ShaOf[b]][KindOf[b]] = "good" =>
                             original'[ShaOf[b]][KindOf[b]] = "good"
    BY <1>0, <1>2, <2>1, StoreAssumption DEF TypeOK
  <2>8. Grows /\ \A b \in Artifacts : Visible(b)' => Visible(b)
    BY <2>1, <2>7 DEF Grows, OriginalIn, PageIn, PageMapIn, ContentIn, Visible
  <2> QED BY <2>3, <2>6, <2>8, OthersKeep
<1>4. CASE SavePage(p)
  <2> DEFINE i == Len(text[p]) + 1
  <2>0. pc[p] = "save pages" /\ i <= Len(TextOf[a])
    BY <1>4 DEF SavePage
  <2>1. /\ pages' = [pages EXCEPT ![ShaOf[a]][i] = TextOf[a][i]]
        /\ text' = [text EXCEPT ![p] = Append(text[p], TextOf[a][i])]
        /\ UNCHANGED <<original, pageMap, content, metadata, pc, art, map, outcome>>
    BY <1>4 DEF SavePage
  <2>2. /\ a \in Artifacts /\ ShaOf[a] \in Digests /\ KeptIn(p) /\ outcome[p] = "none"
        /\ text[p] \in Seq(Texts) /\ Len(text[p]) \in Nat /\ Len(TextOf[a]) \in Nat
    <3>1. a \in Artifacts /\ ShaOf[a] \in Digests /\ KeptIn(p) /\ outcome[p] = "none"
      BY <1>2, <2>0
    <3> QED BY <1>0, <3>1, TextTypes
  <2>3. i \in 1 .. Len(TextOf[a]) /\ i \in PageNums /\ TextOf[a][i] \in Texts
    <3>1. Len(text[p]) \in Nat /\ Len(TextOf[a]) \in Nat /\ i <= Len(TextOf[a])
      BY <2>0, <2>2
    <3>2. i \in 1 .. Len(TextOf[a])
      BY <3>1
    <3> QED BY <2>2, <3>2, TextTypes
  <2>4. text'[p] = Append(text[p], TextOf[a][i]) /\ Len(text'[p]) = i
    BY <1>0, <2>1, <2>2, <2>3 DEF TypeOK
  <2>5. OnlyLocal(p) /\ pc'[p] = pc[p] /\ art'[p] = a /\ outcome'[p] = outcome[p]
    BY <1>0, <2>1 DEF OnlyLocal, SameLocal, TypeOK
  <2>6. \A b \in Artifacts : \A j \in 1 .. Len(TextOf[b]) :
           pages[ShaOf[b]][j] = TextOf[b][j] \/ (b = a /\ j = i) =>
           pages'[ShaOf[b]][j] = TextOf[b][j]
    <3> SUFFICES ASSUME NEW b \in Artifacts, NEW j \in 1 .. Len(TextOf[b]),
                        pages[ShaOf[b]][j] = TextOf[b][j] \/ (b = a /\ j = i)
                 PROVE  pages'[ShaOf[b]][j] = TextOf[b][j]
      OBVIOUS
    <3>1. ShaOf[b] \in Digests /\ j \in PageNums
      BY StoreAssumption, TextTypes
    <3>2. CASE ShaOf[b] = ShaOf[a]
      <4>1. b = a
        BY <2>2, <3>2 DEF OneIngestion
      <4> QED BY <1>0, <2>1, <2>2, <2>3, <3>1, <4>1 DEF TypeOK
    <3>3. CASE ShaOf[b] # ShaOf[a]
      BY <1>0, <2>1, <2>2, <3>1, <3>3 DEF TypeOK
    <3> QED BY <3>2, <3>3
  <2>7. Grows /\ \A b \in Artifacts : Visible(b)' => Visible(b)
    BY <2>1, <2>6 DEF Grows, OriginalIn, PageIn, PageMapIn, ContentIn, Visible
  <2>8. \A j \in 1 .. i : pages'[ShaOf[a]][j] = TextOf[a][j]
    <3> SUFFICES ASSUME NEW j \in 1 .. i PROVE pages'[ShaOf[a]][j] = TextOf[a][j]
      OBVIOUS
    <3>0. Len(text[p]) \in Nat /\ Len(TextOf[a]) \in Nat /\ i <= Len(TextOf[a])
      BY <2>0, <2>2
    <3>1. j \in 1 .. Len(TextOf[a]) /\ (j = i \/ j \in 1 .. Len(text[p]))
      BY <3>0
    <3>2. j # i => pages[ShaOf[a]][j] = TextOf[a][j]
      BY <2>0, <2>2, <3>1 DEF KeptIn, PageIn
    <3> QED BY <2>2, <2>6, <3>1, <3>2
  <2>9. original'[ShaOf[a]][KindOf[a]] = "good"
    BY <2>0, <2>1, <2>2 DEF KeptIn, OriginalIn
  <2>10. Len(text'[p]) = i /\ outcome'[p] = "none" /\ pc'[p] = "save pages"
    BY <2>0, <2>2, <2>4, <2>5
  <2> HIDE DEF a, i
  <2>11. KeptIn(p)'
    BY <2>0, <2>5, <2>8, <2>9, <2>10 DEF KeptIn, OriginalIn, PageIn, LoadPCs
  <2> QED BY <2>5, <2>7, <2>11, OthersKeep
<1>5. CASE SavePageMap(p)
  <2>1. /\ pc[p] = "save pages" /\ Len(text[p]) = Len(TextOf[a])
        /\ pageMap' = [pageMap EXCEPT ![ShaOf[a]] = TextOf[a]]
        /\ UNCHANGED <<original, pages, content, metadata>>
    BY <1>5 DEF SavePageMap
  <2>2. Become(p, "save metadata", art[p], map[p], text[p], outcome[p])
    BY <1>0, <1>5, GoToIsBecome DEF SavePageMap
  <2>3. pc'[p] = "save metadata" /\ art'[p] = a /\ outcome'[p] = outcome[p] /\ OnlyLocal(p)
    BY <1>0, <2>2, OneProcess
  <2>4. /\ a \in Artifacts /\ ShaOf[a] \in Digests /\ KindOf[a] = "PDF"
        /\ KeptIn(p) /\ outcome[p] = "none"
    BY <1>0, <1>2, <2>1 DEF Busy, BusyIn, PdfPCs
  <2>5. pageMap'[ShaOf[a]] = TextOf[a] /\ original'[ShaOf[a]][KindOf[a]] = "good"
        /\ \A j \in 1 .. Len(TextOf[a]) : pages'[ShaOf[a]][j] = TextOf[a][j]
    BY <1>0, <2>1, <2>4 DEF KeptIn, OriginalIn, PageIn, TypeOK
  <2>6. \A b \in Artifacts : pageMap[ShaOf[b]] = TextOf[b] => pageMap'[ShaOf[b]] = TextOf[b]
    BY <1>0, <2>1, <2>4, StoreAssumption DEF OneIngestion, TypeOK
  <2>7. Grows /\ \A b \in Artifacts : Visible(b)' => Visible(b)
    BY <2>1, <2>6 DEF Grows, OriginalIn, PageIn, PageMapIn, ContentIn, Visible
  <2> HIDE DEF a
  <2>8. KeptIn(p)'
    BY <2>3, <2>4, <2>5 DEF KeptIn, OriginalIn, DerivedIn, PageIn, PageMapIn, LoadPCs
  <2> QED BY <2>3, <2>7, <2>8, OthersKeep
<1>6. CASE SaveContent(p)
  <2>1. /\ pc[p] = "save content" /\ content' = [content EXCEPT ![ShaOf[a]] = TextOf[a]]
        /\ UNCHANGED <<original, pages, pageMap, metadata>>
    BY <1>6 DEF SaveContent
  <2>2. Become(p, "save metadata", art[p], map[p], text[p], outcome[p])
    BY <1>0, <1>6, GoToIsBecome DEF SaveContent
  <2>3. pc'[p] = "save metadata" /\ art'[p] = a /\ outcome'[p] = outcome[p] /\ OnlyLocal(p)
    BY <1>0, <2>2, OneProcess
  <2>4. /\ a \in Artifacts /\ ShaOf[a] \in Digests /\ KindOf[a] = "HTML"
        /\ KeptIn(p) /\ outcome[p] = "none"
    BY <1>0, <1>2, <2>1 DEF Busy, BusyIn, HtmlPCs
  <2>5. content'[ShaOf[a]] = TextOf[a] /\ original'[ShaOf[a]][KindOf[a]] = "good"
    BY <1>0, <2>1, <2>4 DEF KeptIn, OriginalIn, TypeOK
  <2>6. \A b \in Artifacts : content[ShaOf[b]] = TextOf[b] => content'[ShaOf[b]] = TextOf[b]
    BY <1>0, <2>1, <2>4, StoreAssumption DEF OneIngestion, TypeOK
  <2>7. Grows /\ \A b \in Artifacts : Visible(b)' => Visible(b)
    BY <2>1, <2>6 DEF Grows, OriginalIn, PageIn, PageMapIn, ContentIn, Visible
  <2> HIDE DEF a
  <2>8. KeptIn(p)'
    BY <2>3, <2>4, <2>5 DEF KeptIn, OriginalIn, DerivedIn, ContentIn, LoadPCs
  <2> QED BY <2>3, <2>7, <2>8, OthersKeep
<1>7. CASE SaveMetadata(p)
  <2>1. /\ pc[p] = "save metadata" /\ metadata' = [metadata EXCEPT ![ShaOf[a]] = a]
        /\ UNCHANGED <<original, pages, pageMap, content>>
        /\ Become(p, "idle", art[p], << >>, << >>, "saved")
    BY <1>7 DEF SaveMetadata, Saved
  <2>2. pc'[p] = "idle" /\ art'[p] = a /\ outcome'[p] = "saved" /\ OnlyLocal(p)
    BY <1>0, <2>1, OneProcess
  <2>3. a \in Artifacts /\ ShaOf[a] \in Digests /\ OriginalIn(a) /\ DerivedIn(a)
    BY <1>2, <2>1 DEF KeptIn
  <2>4. metadata'[ShaOf[a]] = a
    BY <1>0, <2>1, <2>3 DEF TypeOK
  <2>5. \A b \in Artifacts : metadata'[ShaOf[b]] = b <=> (metadata[ShaOf[b]] = b \/ b = a)
    BY <1>0, <2>1, <2>3, StoreAssumption DEF OneIngestion, TypeOK
  <2>6. Grows /\ \A b \in Artifacts : Visible(b)' => Visible(b) \/ (OriginalIn(b) /\ DerivedIn(b))
    BY <2>1, <2>3, <2>5 DEF Grows, OriginalIn, PageIn, PageMapIn, ContentIn, Visible
  <2> HIDE DEF a
  <2>7. KeptIn(p)'
    BY <2>2, <2>4 DEF KeptIn, Visible, LoadPCs
  <2> QED BY <2>2, <2>6, <2>7, OthersKeep
<1> QED BY <1>1, <1>3, <1>4, <1>5, <1>6, <1>7 DEF Save

\* What a load finds: the files of an artifact that is visible are all there,
\* so that no load fails but for a digest that is not stored.
LEMMA LoadFinds ==
    ASSUME KeepInv, NEW p \in Procs, pc[p] \in LoadPCs
    PROVE  /\ art[p] \in Artifacts /\ ShaOf[art[p]] \in Digests /\ KindOf[art[p]] \in Kinds
           /\ Visible(art[p]) /\ OriginalIn(art[p]) /\ DerivedIn(art[p])
           /\ KeptIn(p) /\ outcome[p] = "none"
<1>1. art[p] \in Artifacts /\ outcome[p] = "none" /\ KeptIn(p)
  BY DEF KeepInv, Inv, Busy, BusyIn, LoadPCs
<1>2. Visible(art[p])
  BY <1>1 DEF KeptIn
<1> QED BY <1>1, <1>2, StoreAssumption DEF KeepInv, Shelved

\* The page a load reads next is the one its page map names.
LEMMA PageFound ==
    ASSUME KeepInv, NEW p \in Procs
    PROVE  pc[p] = "load pages" => PageMatches(p, Len(text[p]) + 1)
<1> DEFINE a == art[p]
           Reads == pc[p] = "load pages"
<1>1. Reads => /\ a \in Artifacts /\ map[p] = TextOf[a] /\ KindOf[a] = "PDF" /\ DerivedIn(a)
  BY LoadFinds DEF LoadPCs, KeptIn, KeepInv, Inv, Busy, BusyIn, PdfPCs
<1>2. Reads => Len(text[p]) < Len(map[p])
  BY DEF KeepInv, Inv, Reading, ReadingIn
<1> HIDE DEF Reads
<1>3. /\ Len(text[p]) \in Nat
      /\ Reads => Len(TextOf[a]) \in Nat /\ Len(text[p]) < Len(TextOf[a])
  <2>1. Len(text[p]) \in Nat
    BY DEF KeepInv, Inv, TypeOK
  <2>2. Reads => Len(TextOf[a]) \in Nat
    BY <1>1, TextTypes
  <2> QED BY <1>1, <1>2, <2>1, <2>2
<1>4. Reads => Len(text[p]) + 1 \in 1 .. Len(TextOf[a])
  BY <1>3
<1>5. Reads => PageMatches(p, Len(text[p]) + 1)
  BY <1>1, <1>4 DEF DerivedIn, PageIn, PageMatches
<1> QED BY <1>5 DEF Reads

\* A step of a load keeps the invariant.
LEMMA LoadKeeps ==
    ASSUME KeepInv, Inv', NEW p \in Procs, Load(p)
    PROVE  KeepInv'
<1>0. TypeOK /\ UNCHANGED disk
  BY DEF KeepInv, Inv, Load, BeginLoad, LoadOriginal, LoadPageMap, LoadPage, LoadContent
<1>1. ASSUME NEW h \in Digests, BeginLoad(p, h)
      PROVE  KeepInv'
  <2>1. CASE metadata[h] = None
    BY <1>0, <1>1, <2>1, FailureKeeps DEF BeginLoad, Fails
  <2>2. CASE metadata[h] # None
    <3> DEFINE b == metadata[h]
    <3>1. b \in Artifacts /\ metadata[ShaOf[b]] = b
      BY <2>2 DEF KeepInv, Inv, TypeOK, Stored
    <3>2. Become(p, "load original", b, << >>, << >>, "none")
      BY <1>1, <2>2 DEF BeginLoad, Start
    <3> HIDE DEF b
    <3>3. pc'[p] = "load original" /\ art'[p] = b /\ outcome'[p] = "none" /\ OnlyLocal(p)
      BY <1>0, <3>2, OneProcess
    <3>4. KeptIn(p)'
      BY <1>0, <3>1, <3>3 DEF disk, KeptIn, Visible
    <3> QED BY <1>0, <3>3, <3>4, Unwritten
  <2> QED BY <2>1, <2>2
<1>2. ASSUME NEW verify \in BOOLEAN, LoadOriginal(p, verify)
      PROVE  KeepInv'
  <2> DEFINE a == art[p]
             next == IF KindOf[a] = "PDF" THEN "load page map" ELSE "load content"
  <2>1. pc[p] = "load original" /\ pc[p] \in LoadPCs
    BY <1>2 DEF LoadOriginal, LoadPCs
  <2>2. /\ Visible(a) /\ OriginalIn(a) /\ outcome[p] = "none"
    BY <2>1, LoadFinds
  <2>3. GoTo(p, next)
    BY <1>2, <2>2 DEF LoadOriginal, OriginalIn
  <2>4. Become(p, next, art[p], map[p], text[p], outcome[p])
    BY <1>0, <2>3, GoToIsBecome
  <2>5. next \in {"load page map", "load content"}
    OBVIOUS
  <2> HIDE DEF next
  <2>6. pc'[p] \in {"load page map", "load content"} /\ art'[p] = a /\ outcome'[p] = "none"
        /\ OnlyLocal(p)
    BY <1>0, <2>2, <2>4, <2>5, OneProcess
  <2> HIDE DEF a
  <2>7. KeptIn(p)'
    BY <1>0, <2>2, <2>6 DEF disk, KeptIn, Visible
  <2> QED BY <1>0, <2>6, <2>7, Unwritten
<1>3. CASE LoadPageMap(p)
  <2> DEFINE a == art[p]
  <2>1. pc[p] = "load page map" /\ pc[p] \in LoadPCs
    BY <1>3 DEF LoadPageMap, LoadPCs
  <2>2. /\ a \in Artifacts /\ Visible(a) /\ DerivedIn(a) /\ outcome[p] = "none"
    BY <2>1, LoadFinds
  <2>3. KindOf[a] = "PDF"
    BY <2>1 DEF KeepInv, Inv, Busy, BusyIn, PdfPCs
  <2>4. pageMap[ShaOf[a]] = TextOf[a] /\ TextOf[a] # << >>
    BY <2>2, <2>3, StoreAssumption DEF DerivedIn, PageMapIn
  <2>5. /\ pc' = [pc EXCEPT ![p] = "load pages"] /\ map' = [map EXCEPT ![p] = TextOf[a]]
        /\ UNCHANGED <<art, text, outcome>>
    BY <1>3, <2>4 DEF LoadPageMap
  <2>6. pc'[p] = "load pages" /\ map'[p] = TextOf[a] /\ art'[p] = a /\ outcome'[p] = "none"
        /\ OnlyLocal(p)
    BY <1>0, <2>2, <2>5 DEF TypeOK, OnlyLocal, SameLocal
  <2> HIDE DEF a
  <2>7. KeptIn(p)'
    BY <1>0, <2>2, <2>6 DEF disk, KeptIn, Visible
  <2> QED BY <1>0, <2>6, <2>7, Unwritten
<1>4. CASE LoadPage(p)
  <2> DEFINE a == art[p]
             i == Len(text[p]) + 1
             t == Append(text[p], pages[ShaOf[a]][i])
  <2>1. pc[p] = "load pages" /\ pc[p] \in LoadPCs
    BY <1>4 DEF LoadPage, LoadPCs
  <2>2. Visible(a) /\ map[p] = TextOf[a] /\ PageMatches(p, i)
    BY <2>1, LoadFinds, PageFound DEF KeptIn
  <2>3. CASE Become(p, "load pages", a, map[p], t, "none")
    <3> DEFINE m == map[p]
    <3>a. Become(p, "load pages", a, m, t, "none")
      BY <2>3
    <3> HIDE DEF a, m, t
    <3>b. TypeOK
      BY <1>0
    <3>0. pc'[p] = "load pages" /\ map'[p] = m /\ art'[p] = a /\ outcome'[p] = "none"
          /\ OnlyLocal(p)
      BY <3>a, <3>b, OneProcess
    <3>1. map'[p] = TextOf[a]
      BY <2>2, <3>0 DEF m
    <3>2. KeptIn(p)'
      BY <1>0, <2>2, <3>0, <3>1 DEF disk, KeptIn, Visible
    <3> QED BY <1>0, <3>0, <3>2, Unwritten
  <2>4. CASE Loads(p, t)
    <3>1. pc'[p] = "idle" /\ outcome'[p] = "loaded" /\ OnlyLocal(p)
      BY <1>0, <2>4, OneProcess DEF Loads
    <3>2. KeptIn(p)'
      BY <3>1 DEF KeptIn, LoadPCs
    <3> QED BY <1>0, <3>1, <3>2, Unwritten
  <2> QED BY <1>4, <2>2, <2>3, <2>4 DEF LoadPage
<1>5. CASE LoadContent(p)
  <2>1. pc[p] = "load content" /\ pc[p] \in LoadPCs
    BY <1>5 DEF LoadContent, LoadPCs
  <2>2. DerivedIn(art[p]) /\ KindOf[art[p]] = "HTML"
    BY <2>1, LoadFinds DEF KeepInv, Inv, Busy, BusyIn, HtmlPCs
  <2>3. Loads(p, content[ShaOf[art[p]]])
    BY <1>5, <2>2 DEF LoadContent, ContentMatches, DerivedIn, ContentIn
  <2>4. pc'[p] = "idle" /\ outcome'[p] = "loaded" /\ OnlyLocal(p)
    BY <1>0, <2>3, OneProcess DEF Loads
  <2>5. KeptIn(p)'
    BY <2>4 DEF KeptIn, LoadPCs
  <2> QED BY <1>0, <2>4, <2>5, Unwritten
<1> QED BY <1>1, <1>2, <1>3, <1>4, <1>5 DEF Load

\* The invariant holds initially and is inductive.
LEMMA KeepInit == Init => KeepInv
<1> SUFFICES ASSUME Init PROVE KeepInv
  OBVIOUS
<1>1. Inv
  BY InitInv
<1>2. \A p \in Procs : KeptIn(p)
  BY DEF Init, KeptIn, LoadPCs
<1>3. Shelved
  BY StoreAssumption DEF Init, Shelved, Visible
<1> QED BY <1>1, <1>2, <1>3 DEF KeepInv

LEMMA KeepStep ==
    ASSUME OneIngestion, KeepInv, [Operate]_vars
    PROVE  KeepInv'
<1>1. Inv'
  BY StepInv DEF KeepInv, Next
<1>2. ASSUME NEW p \in Procs, Crash(p) PROVE KeepInv'
  BY <1>1, <1>2, FailureKeeps DEF Crash, Start
<1>3. CASE UNCHANGED vars
  <2>1. UNCHANGED <<original, pages, pageMap, content, metadata, pc, art, map, text, outcome>>
    BY <1>3 DEF vars, disk, proc
  <2>2. Shelved'
    BY <2>1 DEF KeepInv, Shelved, Visible, OriginalIn, DerivedIn, PageIn, PageMapIn, ContentIn
  <2>3. \A p \in Procs : KeptIn(p)'
    BY <2>1 DEF KeepInv, KeptIn, Visible, OriginalIn, DerivedIn, PageIn, PageMapIn, ContentIn
  <2> QED BY <1>1, <2>2, <2>3 DEF KeepInv
<1> QED BY <1>1, <1>2, <1>3, SaveKeeps, LoadKeeps DEF Operate

(***************************************************************************)
(* The refinement.  A step of one process is a step of the archive, which  *)
(* sees of the process only what its last load told it.                    *)
(***************************************************************************)
Told == [p \in Procs |-> Answered(p)]

\* The other processes have been told nothing new.
LEMMA ToldElsewhere ==
    ASSUME NEW p \in Procs, OnlyLocal(p)
    PROVE  Told' = [Told EXCEPT ![p] = Answered(p)']
<1>1. \A q \in Procs \ {p} : Answered(q)' = Answered(q)
  BY DEF OnlyLocal, SameLocal, Answered
<1> QED BY <1>1 DEF Told

\* A step that shelves nothing and leaves a process without an answer.
LEMMA Forgets ==
    ASSUME NEW p \in Procs, OnlyLocal(p), metadata' = metadata, outcome'[p] \in {"none", "saved"}
    PROVE  [Archive!Next]_(Archive!vars)
<1>1. Answered(p)' = None
  BY DEF Answered
<1>2. Told' = [Told EXCEPT ![p] = None]
  BY <1>1, ToldElsewhere
<1>3. Archive!Forget(p)
  BY <1>2 DEF Archive!Forget, Told
<1> QED BY <1>3 DEF Archive!Next

\* A save is published by the step that writes metadata.json, if it was not yet.
LEMMA SaveRefines ==
    ASSUME OneIngestion, KeepInv, NEW p \in Procs, Save(p)
    PROVE  [Archive!Next]_(Archive!vars)
<1>0. TypeOK /\ Busy /\ Stored
  BY DEF KeepInv, Inv
<1>1. ASSUME NEW b \in Artifacts, BeginSave(p, b)
      PROVE  [Archive!Next]_(Archive!vars)
  <2>1. metadata[ShaOf[b]] = None \/ metadata[ShaOf[b]] = b
    BY <1>0, StoreAssumption DEF OneIngestion, TypeOK, Stored
  <2>2. Become(p, "save original", b, << >>, << >>, "none") /\ metadata' = metadata
    BY <1>1, <2>1 DEF BeginSave, Start, disk
  <2>3. OnlyLocal(p) /\ outcome'[p] = "none"
    BY <1>0, <2>2, OneProcess
  <2> QED BY <2>2, <2>3, Forgets
<1>2. CASE SaveOriginal(p) \/ SavePage(p) \/ SavePageMap(p) \/ SaveContent(p)
  <2>1. metadata' = metadata /\ outcome' = outcome /\ art' = art /\ pc[p] # "idle"
    BY <1>2 DEF SaveOriginal, SavePage, SavePageMap, SaveContent, GoTo
  <2>2. \A q \in Procs \ {p} : text'[q] = text[q]
    BY <1>0, <1>2 DEF SaveOriginal, SavePage, SavePageMap, SaveContent, GoTo, TypeOK
  <2>3. outcome[p] = "none"
    BY <1>0, <2>1 DEF Busy, BusyIn
  <2>4. \A q \in Procs : Answered(q)' = Answered(q)
    BY <2>1, <2>2, <2>3 DEF Answered
  <2>5. Told' = Told
    BY <2>4 DEF Told
  <2> QED BY <2>1, <2>5 DEF Archive!vars, Told
<1>3. CASE SaveMetadata(p)
  <2> DEFINE a == art[p]
  <2>1. /\ pc[p] = "save metadata" /\ metadata' = [metadata EXCEPT ![ShaOf[a]] = a]
        /\ Become(p, "idle", a, << >>, << >>, "saved")
    BY <1>3 DEF SaveMetadata, Saved
  <2>2. a \in Artifacts /\ ShaOf[a] \in Digests /\ outcome[p] = "none"
    BY <1>0, <2>1, StoreAssumption DEF Busy, BusyIn
  <2>3. OnlyLocal(p) /\ outcome'[p] = "saved"
    <3> HIDE DEF a
    <3> QED BY <1>0, <2>1, OneProcess
  <2>4. metadata[ShaOf[a]] = None \/ metadata[ShaOf[a]] = a
    BY <1>0, <2>2, StoreAssumption DEF OneIngestion, TypeOK, Stored
  <2>5. CASE metadata[ShaOf[a]] = a
    <3>1. metadata' = metadata
      BY <1>0, <2>1, <2>5 DEF TypeOK
    <3> QED BY <2>3, <3>1, Forgets
  <2>6. CASE metadata[ShaOf[a]] = None
    <3>1. Answered(p)' = None /\ Answered(p) = None
      BY <2>2, <2>3 DEF Answered
    <3>2. Told' = Told
      BY <2>3, <3>1, ToldElsewhere DEF Told
    <3>3. Archive!Publish(a)
      BY <2>1, <2>6, <3>2 DEF Archive!Publish, Told
    <3> QED BY <2>2, <3>3 DEF Archive!Next
  <2> QED BY <2>4, <2>5, <2>6
<1> QED BY <1>1, <1>2, <1>3 DEF Save

\* A load that has read the last page has read the page map's text.
LEMMA WholeText ==
    ASSUME KeepInv, NEW p \in Procs, NEW t,
           t = Append(text[p], pages[ShaOf[art[p]]][Len(text[p]) + 1])
    PROVE  pc[p] = "load pages" /\ Len(text[p]) + 1 = Len(map[p]) => t = map[p]
<1> DEFINE n == Len(text[p])
           Ends == pc[p] = "load pages" /\ n + 1 = Len(map[p])
<1>1. text[p] \in Seq(Texts) /\ map[p] \in Seq(Texts) /\ n \in Nat
  BY DEF KeepInv, Inv, TypeOK
<1>2. Ends => t = Append(text[p], map[p][n + 1])
  BY PageFound DEF PageMatches
<1>3. Ends => \A i \in 1 .. n : text[p][i] = map[p][i]
  BY DEF KeepInv, Inv, Reading, ReadingIn
<1>4. Ends => n + 1 = Len(map[p])
  OBVIOUS
<1> SUFFICES Ends => t = map[p]
  OBVIOUS
<1> HIDE DEF Ends
<1>5. Ends => map[p][n + 1] \in Texts
  BY <1>1, <1>4
<1>6. Ends => /\ t \in Seq(Texts) /\ Len(t) = Len(map[p])
              /\ \A i \in 1 .. Len(t) : t[i] = map[p][i]
  BY <1>1, <1>2, <1>3, <1>4, <1>5
<1> QED BY <1>1, <1>6

\* A load answers with the step that ends it.
LEMMA LoadRefines ==
    ASSUME KeepInv, NEW p \in Procs, Load(p)
    PROVE  [Archive!Next]_(Archive!vars)
<1>0. TypeOK
  BY DEF KeepInv, Inv
<1>1. metadata' = metadata
  BY DEF Load, BeginLoad, LoadOriginal, LoadPageMap, LoadPage, LoadContent, disk
<1>2. ASSUME NEW t, Loads(p, t), pc[p] \in LoadPCs, t = TextOf[art[p]]
      PROVE  [Archive!Next]_(Archive!vars)
  <2> DEFINE a == art[p]
             h == ShaOf[a]
  <2>1. a \in Artifacts /\ h \in Digests /\ metadata[h] = a /\ a # None
    BY <1>2, LoadFinds, StoreAssumption DEF Visible
  <2>2. Become(p, "idle", a, << >>, t, "loaded")
    BY <1>2 DEF Loads
  <2>3. OnlyLocal(p) /\ outcome'[p] = "loaded" /\ art'[p] = a /\ text'[p] = t
    <3> HIDE DEF a
    <3> QED BY <1>0, <2>2, OneProcess
  <2>4. Answered(p)' = [artifact |-> a, text |-> TextOf[a]]
    BY <1>2, <2>3 DEF Answered
  <2>5. Told' = [Told EXCEPT ![p] = [artifact |-> a, text |-> TextOf[a]]]
    BY <2>3, <2>4, ToldElsewhere
  <2> HIDE DEF a
  <2>6. Archive!Load(p, h)
    BY <1>1, <2>1, <2>5 DEF Archive!Load, Told
  <2> QED BY <2>1, <2>6 DEF Archive!Next
<1>3. ASSUME NEW h \in Digests, BeginLoad(p, h)
      PROVE  [Archive!Next]_(Archive!vars)
  <2>1. CASE metadata[h] = None
    <3>1. Become(p, "idle", None, << >>, << >>, "not found")
      BY <1>3, <2>1 DEF BeginLoad, Fails
    <3>2. OnlyLocal(p) /\ outcome'[p] = "not found"
      BY <1>0, <3>1, OneProcess
    <3>3. Answered(p)' = [artifact |-> None, text |-> << >>]
      BY <3>2 DEF Answered
    <3>4. Told' = [Told EXCEPT ![p] = [artifact |-> None, text |-> << >>]]
      BY <3>2, <3>3, ToldElsewhere
    <3>5. Archive!Load(p, h)
      BY <1>1, <2>1, <3>4 DEF Archive!Load, Archive!NotFound, Told
    <3> QED BY <3>5 DEF Archive!Next
  <2>2. CASE metadata[h] # None
    <3> DEFINE b == metadata[h]
    <3>1. Become(p, "load original", b, << >>, << >>, "none")
      BY <1>3, <2>2 DEF BeginLoad, Start
    <3> HIDE DEF b
    <3>2. OnlyLocal(p) /\ outcome'[p] = "none"
      BY <1>0, <3>1, OneProcess
    <3> QED BY <1>1, <3>2, Forgets
  <2> QED BY <2>1, <2>2
<1>4. ASSUME UNCHANGED <<art, text, outcome>>
      PROVE  [Archive!Next]_(Archive!vars)
  <2>1. Told' = Told
    BY <1>4 DEF Told, Answered
  <2> QED BY <1>1, <2>1 DEF Archive!vars, Told
<1>5. ASSUME NEW verify \in BOOLEAN, LoadOriginal(p, verify)
      PROVE  [Archive!Next]_(Archive!vars)
  <2>1. pc[p] \in LoadPCs
    BY <1>5 DEF LoadOriginal, LoadPCs
  <2>2. original[ShaOf[art[p]]][KindOf[art[p]]] = "good"
    BY <2>1, LoadFinds DEF OriginalIn
  <2> QED BY <1>4, <1>5, <2>2 DEF LoadOriginal, GoTo
<1>6. CASE LoadPageMap(p)
  <2>1. pc[p] = "load page map" /\ pc[p] \in LoadPCs
    BY <1>6 DEF LoadPageMap, LoadPCs
  <2>2. art[p] \in Artifacts /\ DerivedIn(art[p]) /\ KindOf[art[p]] = "PDF"
    BY <2>1, LoadFinds DEF KeepInv, Inv, Busy, BusyIn, PdfPCs
  <2>3. pageMap[ShaOf[art[p]]] = TextOf[art[p]] /\ TextOf[art[p]] # << >>
    BY <2>2, StoreAssumption DEF DerivedIn, PageMapIn
  <2> QED BY <1>4, <1>6, <2>3 DEF LoadPageMap
<1>7. CASE LoadPage(p)
  <2> DEFINE i == Len(text[p]) + 1
             t == Append(text[p], pages[ShaOf[art[p]]][i])
  <2>1. pc[p] = "load pages" /\ pc[p] \in LoadPCs
    BY <1>7 DEF LoadPage, LoadPCs
  <2>2. PageMatches(p, i) /\ map[p] = TextOf[art[p]]
    BY <2>1, PageFound, LoadFinds DEF KeptIn
  <2>3. CASE Become(p, "load pages", art[p], map[p], t, "none")
    <3> DEFINE m == map[p]
               a == art[p]
    <3>1. Become(p, "load pages", a, m, t, "none")
      BY <2>3
    <3> HIDE DEF a, m, t
    <3>2. OnlyLocal(p) /\ outcome'[p] = "none"
      BY <1>0, <3>1, OneProcess
    <3> QED BY <1>1, <3>2, Forgets
  <2>4. CASE i = Len(map[p]) /\ Loads(p, t)
    <3>1. t = map[p]
      BY <2>1, <2>4, WholeText
    <3> QED BY <1>2, <2>1, <2>2, <2>4, <3>1
  <2> QED BY <1>7, <2>2, <2>3, <2>4 DEF LoadPage
<1>8. CASE LoadContent(p)
  <2>1. pc[p] = "load content" /\ pc[p] \in LoadPCs
    BY <1>8 DEF LoadContent, LoadPCs
  <2>2. content[ShaOf[art[p]]] = TextOf[art[p]]
    BY <2>1, LoadFinds DEF KeepInv, Inv, Busy, BusyIn, HtmlPCs, DerivedIn, ContentIn
  <2>3. Loads(p, TextOf[art[p]])
    BY <1>8, <2>2 DEF LoadContent, ContentMatches
  <2> QED BY <1>2, <2>1, <2>3
<1> QED BY <1>3, <1>5, <1>6, <1>7, <1>8 DEF Load

\* While nothing is deleted or altered and every digest has one ingestion, a
\* save that returned stays a whole artifact, whatever else is saved, loaded
\* and stopped beside and after it (storage.py:135-235).
THEOREM SavesAreIntact ==
    ASSUME OneIngestion
    PROVE  KeepSpec => []SavedIsIntact
<1>1. Init => KeepInv
  BY KeepInit
<1>2. KeepInv /\ [Operate]_vars => KeepInv'
  BY KeepStep
<1>3. KeepInv => SavedIsIntact
  <2> SUFFICES ASSUME KeepInv, NEW p \in Procs, pc[p] = "idle", outcome[p] = "saved"
               PROVE  Intact(art[p])
    BY DEF SavedIsIntact
  <2> DEFINE a == art[p]
  <2>1. a \in Artifacts /\ Visible(a)
    BY DEF KeepInv, Inv, Busy, BusyIn, KeptIn
  <2>2. OriginalIn(a) /\ DerivedIn(a)
    BY <2>1 DEF KeepInv, Shelved
  <2>3. DOMAIN TextOf[a] = 1 .. Len(TextOf[a])
    BY <2>1, TextTypes
  <2> QED BY <2>1, <2>2, <2>3
          DEF Intact, Visible, OriginalIn, DerivedIn, PageIn, PageMapIn, ContentIn
<1> QED BY <1>1, <1>2, <1>3, PTL DEF KeepSpec

\* Under the same assumption the files behave as the archive, which shelves an
\* artifact whole and for good: no reader sees a part of one, and no save of
\* what is stored makes a load fail (storage.py:138-140).
THEOREM StoreImplementsArchive ==
    ASSUME OneIngestion
    PROVE  KeepSpec => ImplementsArchive
<1>1. Init => KeepInv
  BY KeepInit
<1>2. KeepInv /\ [Operate]_vars => KeepInv'
  BY KeepStep
<1>3. Init => Archive!Init
  BY DEF Init, Archive!Init, Answered
<1>4. KeepInv /\ [Operate]_vars => [Archive!Next]_(Archive!vars)
  <2> SUFFICES ASSUME KeepInv, [Operate]_vars
               PROVE  [Archive!Next]_(Archive!vars)
    OBVIOUS
  <2>1. ASSUME NEW p \in Procs, Crash(p)
        PROVE  [Archive!Next]_(Archive!vars)
    <3>1. Become(p, "idle", None, << >>, << >>, "none") /\ metadata' = metadata
      BY <2>1 DEF Crash, Start, disk
    <3>2. OnlyLocal(p) /\ outcome'[p] = "none"
      BY <3>1, OneProcess DEF KeepInv, Inv
    <3> QED BY <3>1, <3>2, Forgets
  <2>2. CASE UNCHANGED vars
    <3>1. metadata' = metadata /\ Told' = Told
      BY <2>2 DEF vars, disk, proc, Told, Answered
    <3> QED BY <3>1 DEF Archive!vars, Told
  <2> QED BY <2>1, <2>2, SaveRefines, LoadRefines DEF Operate
<1> QED BY <1>1, <1>2, <1>3, <1>4, PTL DEF KeepSpec, ImplementsArchive, Archive!Spec
================================================================================
