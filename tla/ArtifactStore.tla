---------------------------- MODULE ArtifactStore ----------------------------
(***************************************************************************)
(* ingest/storage.py: the content-addressed artifact store.                *)
(*                                                                         *)
(* One directory per digest holds the original bytes, the derived text     *)
(* (one file per PDF page and a page map, or one HTML content file) and    *)
(* metadata.json, written last.  Each file is replaced atomically, the     *)
(* directory is not: a save is one step per file, several processes may    *)
(* save and load at once while a delete is under way, and a process may    *)
(* stop between any two of its steps.                                      *)
(*                                                                         *)
(* An artifact is one result of ingestion: bytes, parser and source        *)
(* metadata together.  The same bytes ingested by another parser version   *)
(* are another artifact with the same digest.  A text stands for itself    *)
(* and for its SHA-256.                                                    *)
(***************************************************************************)
EXTENDS Naturals, Sequences

CONSTANTS
    Procs,      \* processes using the store
    Digests,    \* digests of original bytes
    Artifacts,  \* ingested artifacts
    Texts,      \* page texts and HTML read models
    ShaOf,      \* ShaOf[a]: digest artifact a was ingested from
    KindOf,     \* KindOf[a]: "PDF" or "HTML"
    TextOf,     \* TextOf[a]: its page texts in order; <<content>> for HTML
    None,       \* an absent file, or no artifact
    Garbage     \* a text no ingestion produced

Kinds == {"PDF", "HTML"}
FileText == Texts \cup {Garbage, None}

ASSUME StoreAssumption ==
    /\ ShaOf \in [Artifacts -> Digests]
    /\ KindOf \in [Artifacts -> Kinds]
    /\ TextOf \in [Artifacts -> Seq(Texts)]
    /\ \A a \in Artifacts : TextOf[a] # << >>
    /\ None \notin Artifacts /\ None \notin Texts
    /\ Garbage \notin Texts /\ Garbage # None

\* Pages of the longest artifact: page files beyond the current page map may
\* be left over from an earlier ingestion.
PageNums == UNION {DOMAIN TextOf[a] : a \in Artifacts}

VARIABLES
    original,   \* original[h][k]: original.pdf or original.html
    pages,      \* pages[h][i]: the page file number i
    pageMap,    \* pageMap[h]: page-map.json, the hash of each page in order
    content,    \* content[h]: the HTML content file
    metadata,   \* metadata[h]: the artifact metadata.json describes
    pc,         \* pc[p]: the next step of process p
    art,        \* art[p]: the artifact it saves, or whose metadata it read
    map,        \* map[p]: the page map it read
    text,       \* text[p]: the texts it has written or read so far
    outcome     \* outcome[p]: how its last operation ended

disk == <<original, pages, pageMap, content, metadata>>
proc == <<pc, art, map, text, outcome>>
vars == <<disk, proc>>

SavePCs == {"save original", "save pages", "save content", "save metadata"}
LoadPCs == {"load original", "load page map", "load pages", "load content"}
Outcomes == {"none", "saved", "loaded", "not found", "corrupt"}

TypeOK ==
    /\ original \in [Digests -> [Kinds -> {"good", "altered", "absent"}]]
    /\ pages \in [Digests -> [PageNums -> FileText]]
    /\ pageMap \in [Digests -> {TextOf[a] : a \in Artifacts} \cup {<< >>}]
    /\ content \in [Digests -> {TextOf[a] : a \in Artifacts} \cup {<< >>, <<Garbage>>}]
    /\ metadata \in [Digests -> Artifacts \cup {None}]
    /\ pc \in [Procs -> {"idle"} \cup SavePCs \cup LoadPCs]
    /\ art \in [Procs -> Artifacts \cup {None}]
    /\ map \in [Procs -> Seq(Texts)]
    /\ text \in [Procs -> Seq(Texts)]
    /\ outcome \in [Procs -> Outcomes]

Init ==
    /\ original = [h \in Digests |-> [k \in Kinds |-> "absent"]]
    /\ pages = [h \in Digests |-> [i \in PageNums |-> None]]
    /\ pageMap = [h \in Digests |-> << >>]
    /\ content = [h \in Digests |-> << >>]
    /\ metadata = [h \in Digests |-> None]
    /\ pc = [p \in Procs |-> "idle"]
    /\ art = [p \in Procs |-> None]
    /\ map = [p \in Procs |-> << >>]
    /\ text = [p \in Procs |-> << >>]
    /\ outcome = [p \in Procs |-> "none"]

------------------------------------------------------------------------------
(* A process *)

\* Process p goes on to step next with this local state.
Become(p, next, a, m, t, result) ==
    /\ pc' = [pc EXCEPT ![p] = next]
    /\ art' = [art EXCEPT ![p] = a]
    /\ map' = [map EXCEPT ![p] = m]
    /\ text' = [text EXCEPT ![p] = t]
    /\ outcome' = [outcome EXCEPT ![p] = result]

Start(p, a, first) == Become(p, first, a, << >>, << >>, "none")

GoTo(p, next) ==
    /\ pc' = [pc EXCEPT ![p] = next]
    /\ UNCHANGED <<art, map, text, outcome>>

\* The caller is left with the saved or the loaded artifact, or with an error.
Saved(p) == Become(p, "idle", art[p], << >>, << >>, "saved")
Loads(p, t) == Become(p, "idle", art[p], << >>, t, "loaded")
Fails(p, error) == Become(p, "idle", None, << >>, << >>, error)

(* save *)

\* An artifact is refused when the digest already holds the other kind.
BeginSave(p, a) ==
    /\ pc[p] = "idle"
    /\ LET stored == metadata[ShaOf[a]]
       IN  IF stored # None /\ KindOf[stored] # KindOf[a]
           THEN Fails(p, "corrupt")
           ELSE Start(p, a, "save original")
    /\ UNCHANGED disk

\* Mutant: metadata.json is written with the original instead of last.
SaveOriginalWithMetadata(p) ==
    /\ pc[p] = "save original"
    /\ original' = [original EXCEPT ![ShaOf[art[p]]][KindOf[art[p]]] = "good"]
    /\ metadata' = [metadata EXCEPT ![ShaOf[art[p]]] = art[p]]
    /\ GoTo(p, IF KindOf[art[p]] = "PDF" THEN "save pages" ELSE "save content")
    /\ UNCHANGED <<pages, pageMap, content>>

SaveOriginal(p) ==
    /\ pc[p] = "save original"
    /\ original' = [original EXCEPT ![ShaOf[art[p]]][KindOf[art[p]]] = "good"]
    /\ GoTo(p, IF KindOf[art[p]] = "PDF" THEN "save pages" ELSE "save content")
    /\ UNCHANGED <<pages, pageMap, content, metadata>>

SavePage(p) ==
    LET i == Len(text[p]) + 1
        t == TextOf[art[p]]
    IN  /\ pc[p] = "save pages"
        /\ i <= Len(t)
        /\ pages' = [pages EXCEPT ![ShaOf[art[p]]][i] = t[i]]
        /\ text' = [text EXCEPT ![p] = Append(@, t[i])]
        /\ UNCHANGED <<original, pageMap, content, metadata, pc, art, map, outcome>>

\* Mutant: the page loop stops one page early.
SavePageMapEarly(p) ==
    /\ pc[p] = "save pages"
    /\ Len(text[p]) + 1 = Len(TextOf[art[p]])
    /\ pageMap' = [pageMap EXCEPT ![ShaOf[art[p]]] = TextOf[art[p]]]
    /\ GoTo(p, "save metadata")
    /\ UNCHANGED <<original, pages, content, metadata>>

SavePageMap(p) ==
    /\ pc[p] = "save pages"
    /\ Len(text[p]) = Len(TextOf[art[p]])
    /\ pageMap' = [pageMap EXCEPT ![ShaOf[art[p]]] = TextOf[art[p]]]
    /\ GoTo(p, "save metadata")
    /\ UNCHANGED <<original, pages, content, metadata>>

SaveContent(p) ==
    /\ pc[p] = "save content"
    /\ content' = [content EXCEPT ![ShaOf[art[p]]] = TextOf[art[p]]]
    /\ GoTo(p, "save metadata")
    /\ UNCHANGED <<original, pages, pageMap, metadata>>

SaveMetadata(p) ==
    /\ pc[p] = "save metadata"
    /\ metadata' = [metadata EXCEPT ![ShaOf[art[p]]] = art[p]]
    /\ Saved(p)
    /\ UNCHANGED <<original, pages, pageMap, content>>

(* load *)

BeginLoad(p, h) ==
    /\ pc[p] = "idle"
    /\ IF metadata[h] = None
       THEN Fails(p, "not found")
       ELSE Start(p, metadata[h], "load original")
    /\ UNCHANGED disk

\* verify_original decides whether the bytes are hashed or only required.
LoadOriginal(p, verify) ==
    LET a == art[p]
        state == original[ShaOf[a]][KindOf[a]]
    IN  /\ pc[p] = "load original"
        /\ IF state = "absent" \/ (verify /\ state # "good")
           THEN Fails(p, "corrupt")
           ELSE GoTo(p, IF KindOf[a] = "PDF" THEN "load page map" ELSE "load content")
        /\ UNCHANGED disk

\* The page map must exist and have the number of pages of the metadata.
LoadPageMap(p) ==
    LET m == pageMap[ShaOf[art[p]]]
    IN  /\ pc[p] = "load page map"
        /\ IF m = << >> \/ Len(m) # Len(TextOf[art[p]])
           THEN Fails(p, "corrupt")
           ELSE /\ pc' = [pc EXCEPT ![p] = "load pages"]
                /\ map' = [map EXCEPT ![p] = m]
                /\ UNCHANGED <<art, text, outcome>>
        /\ UNCHANGED disk

\* _load_page: the file must exist and hash to the page map's entry.
\* Mutant: the page file only has to exist.
PagePresent(p, i) == pages[ShaOf[art[p]]][i] # None

PageMatches(p, i) == pages[ShaOf[art[p]]][i] = map[p][i]

LoadPage(p) ==
    LET i == Len(text[p]) + 1
        t == Append(text[p], pages[ShaOf[art[p]]][i])
    IN  /\ pc[p] = "load pages"
        /\ \/ PageMatches(p, i) /\ i < Len(map[p])
              /\ Become(p, "load pages", art[p], map[p], t, "none")
           \/ PageMatches(p, i) /\ i = Len(map[p]) /\ Loads(p, t)
           \/ ~PageMatches(p, i) /\ Fails(p, "corrupt")
        /\ UNCHANGED disk

\* The metadata holds the hash of the whole read model (content_sha256).
\* Mutant: the content file only has to exist.
ContentPresent(p) == content[ShaOf[art[p]]] # << >>

ContentMatches(p) == content[ShaOf[art[p]]] = TextOf[art[p]]

LoadContent(p) ==
    /\ pc[p] = "load content"
    /\ IF ContentMatches(p)
       THEN Loads(p, content[ShaOf[art[p]]])
       ELSE Fails(p, "corrupt")
    /\ UNCHANGED disk

(* What happens around them *)

\* The process stops, or a write of it fails: the files stay as they are.
Crash(p) ==
    /\ pc[p] # "idle"
    /\ Start(p, None, "idle")
    /\ UNCHANGED disk

\* One file of delete's rmtree, which removes them in any order and may be
\* interrupted; every other step may come between two removals.
DeleteFile(h) ==
    /\ \/ /\ \E k \in Kinds : original' = [original EXCEPT ![h][k] = "absent"]
          /\ UNCHANGED <<pages, pageMap, content, metadata>>
       \/ /\ \E i \in PageNums : pages' = [pages EXCEPT ![h][i] = None]
          /\ UNCHANGED <<original, pageMap, content, metadata>>
       \/ /\ pageMap' = [pageMap EXCEPT ![h] = << >>]
          /\ UNCHANGED <<original, pages, content, metadata>>
       \/ /\ content' = [content EXCEPT ![h] = << >>]
          /\ UNCHANGED <<original, pages, pageMap, metadata>>
       \/ /\ metadata' = [metadata EXCEPT ![h] = None]
          /\ UNCHANGED <<original, pages, pageMap, content>>
    /\ UNCHANGED proc

\* Stored bytes, page text or content change under the store's feet: what
\* the hashes exist to detect.
AlterFile(h) ==
    /\ \/ /\ \E k \in Kinds : /\ original[h][k] = "good"
                              /\ original' = [original EXCEPT ![h][k] = "altered"]
          /\ UNCHANGED <<pages, content>>
       \/ /\ \E i \in PageNums : /\ pages[h][i] # None
                                 /\ pages' = [pages EXCEPT ![h][i] = Garbage]
          /\ UNCHANGED <<original, content>>
       \/ /\ content[h] # << >>
          /\ content' = [content EXCEPT ![h] = <<Garbage>>]
          /\ UNCHANGED <<original, pages>>
    /\ UNCHANGED <<pageMap, metadata, proc>>

Save(p) ==
    \/ \E a \in Artifacts : BeginSave(p, a)
    \/ SaveOriginal(p) \/ SavePage(p) \/ SavePageMap(p) \/ SaveContent(p)
    \/ SaveMetadata(p)

Load(p) ==
    \/ \E h \in Digests : BeginLoad(p, h)
    \/ \E verify \in BOOLEAN : LoadOriginal(p, verify)
    \/ LoadPageMap(p) \/ LoadPage(p) \/ LoadContent(p)

Operate == \E p \in Procs : Save(p) \/ Load(p) \/ Crash(p)

Next ==
    \/ Operate
    \/ \E h \in Digests : DeleteFile(h) \/ AlterFile(h)

Spec == Init /\ [][Next]_vars

\* The store as the pipeline uses it: nothing deletes or alters its files.
KeepSpec == Init /\ [][Operate]_vars

------------------------------------------------------------------------------
(* Properties *)

Loaded(p) == pc[p] = "idle" /\ outcome[p] = "loaded"

Intact(a) ==
    LET h == ShaOf[a]
    IN  /\ metadata[h] = a
        /\ original[h][KindOf[a]] = "good"
        /\ IF KindOf[a] = "PDF"
           THEN /\ pageMap[h] = TextOf[a]
                /\ \A i \in DOMAIN TextOf[a] : pages[h][i] = TextOf[a][i]
           ELSE content[h] = TextOf[a]

\* Whatever crashed, was re-ingested by another parser, was half deleted or
\* altered, and whatever was written while the load was reading: the text a
\* successful load returns is the whole text of one ingestion of those
\* bytes, never a mixture of two and never altered text (storage.py:321,
\* 383-403).
LoadedTextWasIngested ==
    \A p \in Procs : Loaded(p) =>
        \E a \in Artifacts : /\ ShaOf[a] = ShaOf[art[p]]
                             /\ KindOf[a] = KindOf[art[p]]
                             /\ text[p] = TextOf[a]

\* For HTML the metadata also vouches for the text: a load never pairs one
\* ingestion's metadata with another's content (html.py:176).
LoadedHtmlIsOneArtifact ==
    \A p \in Procs : Loaded(p) /\ KindOf[art[p]] = "HTML" => text[p] = TextOf[art[p]]

\* The same for every kind: "Any disagreement raises CorruptArtifactError"
\* (storage.py:243).  It fails for PDF, whose metadata.json holds the page
\* count and not the page hashes.
LoadedMetadataDescribesText ==
    \A p \in Procs : Loaded(p) => text[p] = TextOf[art[p]]

\* After a save returns, the directory holds that artifact and nothing torn,
\* whatever earlier saves, crashes and leftover files it found there.  It
\* holds while no other process saves a different artifact of the digest.
SavedIsIntact ==
    \A p \in Procs : pc[p] = "idle" /\ outcome[p] = "saved" => Intact(art[p])

\* What the last operation of process p told its caller, if it was a load.
Answered(p) ==
    CASE outcome[p] = "loaded" -> [artifact |-> art[p], text |-> text[p]]
      [] outcome[p] = "not found" -> [artifact |-> None, text |-> << >>]
      [] outcome[p] = "corrupt" -> [artifact |-> None, text |-> <<Garbage>>]
      [] OTHER -> None

\* The store implements the archive: metadata.json, written last, is what
\* makes an artifact visible.
Archive == INSTANCE ArtifactArchive WITH
    shelf <- metadata,
    answer <- [p \in Procs |-> Answered(p)]

\* Under saves of one artifact per digest, crashes and retries at any step,
\* and loads running beside them, the files behave as the archive: no reader
\* sees a digest before it is whole, and no later save of it, finished or
\* not, ever makes a load fail (storage.py:138-140).
ImplementsArchive == Archive!Spec
==============================================================================
