------------------------------ MODULE HtmlEvidence ------------------------------
(* From the bytes of a page to facts about a product (ingest/html.py,         *)
(* identity/html.py, extraction/html_attribute_service.py,                    *)
(* verification/html_attributes.py, and build_kichler of                      *)
(* scripts/build_demo_cases.py, which calls them in this order).              *)
(*                                                                            *)
(* A source is one response: [sha, media, bytes, pdf, utf8, tokens,           *)
(* authority, publisher].  Another version of the parser is another source    *)
(* with the same sha.  An answer is what a model said when it was asked,      *)
(* whether now or when its cassette was recorded: a sequence of proposals.    *)
EXTENDS HtmlAttributes

CONSTANTS
    Sources, Requests,  \* responses, and the [brand, mpn] asked for
    Answers,
    MediaTypes, MaxBytes

\* Its tokens are of the three types, and a text is a sequence of words.
ASSUME SourceAssumption ==
    \A source \in Sources :
        /\ source.tokens \in Seq(ToSet(source.tokens))
        /\ \A t \in ToSet(source.tokens) :
              /\ t.type \in {"start", "end", "data"}
              /\ t.type = "start" => t.hidden \in BOOLEAN
              /\ t.type = "data" => t.text \in Seq(ToSet(t.text))

\* What is proposed for a value is a text, and a locator is of the two types.
ASSUME AnswerAssumption ==
    \A answer \in Answers : \A n \in DOMAIN answer :
        /\ answer[n].raw \in Seq(ToSet(answer[n].raw))
        /\ answer[n].locator # None => answer[n].locator.kind \in {"text", "jsonld"}

VARIABLES
    feed,       \* the page being parsed: [source, parser, rest], or None
    shelf,      \* the artifacts stored, one for each sha
    page,       \* the artifact loaded for a run, or None
    identity,   \* what it was found to be about, or None
    run,        \* the candidates bound to it, or None
    facts       \* [fact, page, identity], the last two as they were

vars == <<feed, shelf, page, identity, run, facts>>

Init ==
    /\ feed = None /\ shelf = {} /\ page = None
    /\ identity = None /\ run = None /\ facts = {}

\* What is refused before a byte is parsed.
Ingestible(source) ==
    /\ source.media \in MediaTypes
    /\ source.bytes > 0 /\ source.bytes <= MaxBytes
    /\ ~source.pdf /\ source.utf8

Fetch(source) ==
    /\ feed = None /\ Ingestible(source)
    /\ feed' = [source |-> source, parser |-> Parser, rest |-> source.tokens]
    /\ UNCHANGED <<shelf, page, identity, run, facts>>

Read ==
    /\ feed # None /\ feed.rest # << >> /\ ~feed.parser.failed
    /\ feed' = [feed EXCEPT !.parser = Feed(@, Head(feed.rest)), !.rest = Tail(@)]
    /\ UNCHANGED <<shelf, page, identity, run, facts>>

\* Nothing is kept of a page that is above a limit.
Refuse ==
    /\ feed # None /\ feed.parser.failed
    /\ feed' = None
    /\ UNCHANGED <<shelf, page, identity, run, facts>>

Artifact(source, parser) ==
    [sha |-> source.sha, authority |-> source.authority, publisher |-> source.publisher,
     content |-> Content(parser)]

\* Mutant: what the store has stays beside it.
StoreBeside ==
    /\ feed # None /\ feed.rest = << >> /\ ~feed.parser.failed
    /\ shelf' = shelf \cup {Artifact(feed.source, feed.parser)}
    /\ feed' = None
    /\ UNCHANGED <<page, identity, run, facts>>

\* What the store has under the same sha is replaced.
Store ==
    /\ feed # None /\ feed.rest = << >> /\ ~feed.parser.failed
    /\ shelf' = {a \in shelf : a.sha # feed.source.sha}
                   \cup {Artifact(feed.source, feed.parser)}
    /\ feed' = None
    /\ UNCHANGED <<page, identity, run, facts>>

Load(artifact) ==
    /\ page' = artifact /\ identity' = None /\ run' = None
    /\ UNCHANGED <<feed, shelf, facts>>

Resolve(request) ==
    /\ page # None /\ identity = None
    /\ identity' = ResolveHtmlIdentity(page, request.brand, request.mpn)
    /\ UNCHANGED <<feed, shelf, page, run, facts>>

Extract(answer) ==
    /\ page # None /\ identity # None /\ run = None
    /\ MayExtract(identity, page) /\ PayloadFits(page)
    /\ run' = BoundCandidates(answer, page, identity.target)
    /\ UNCHANGED <<feed, shelf, page, identity, facts>>

Verified ==
    {candidate \in run : VerifyCandidate(candidate, page, identity) = FactVerified}

\* Every candidate is verified or withheld, and the run is over.
Verify ==
    /\ run # None
    /\ facts' = facts \cup
          {[fact |-> Fact(c, page, identity), page |-> page, identity |-> identity] :
              c \in Verified}
    /\ page' = None /\ identity' = None /\ run' = None
    /\ UNCHANGED <<feed, shelf>>

Next ==
    \/ \E source \in Sources : Fetch(source)
    \/ Read \/ Refuse \/ Store
    \/ \E artifact \in shelf : Load(artifact)
    \/ \E request \in Requests : Resolve(request)
    \/ \E answer \in Answers : Extract(answer)
    \/ Verify

Spec == Init /\ [][Next]_vars

-------------------------------------------------------------------------------
TypeOK ==
    /\ feed = None \/ (Ingestible(feed.source) /\ IsSuffix(feed.rest, feed.source.tokens))
    /\ \A a, b \in shelf : a.sha = b.sha => a = b
    /\ identity # None => page # None
    /\ run # None => identity # None
    /\ \A f \in facts : f.fact.key \in ToSet(Profile) /\ f.fact.sha = f.page.sha

\* The count by which the parser tells visible text is that of the ignored
\* elements that are open, and what it kept lies in the page's text end to end,
\* within its bound (ingest/html.py ignored_depth, _content).
SnapshotIsSound ==
    feed # None /\ ~feed.parser.failed =>
        DepthCountsTheStack(feed.parser) /\ FragmentsTileTheText(feed.parser)

\* The entries a product node gives for a key.
EntriesFor(node, key, target) ==
    {node.properties[n] : n \in {m \in DOMAIN node.properties :
        /\ node.properties[m].name \in Rules[key].names
        /\ Rules[key].own => node.properties[m].owner = target
        /\ node.properties[m].value # None}}

\* What the page says a property of a product is, unit words left out.
Said(entry, rawUom) ==
    IF rawUom # None /\ entry.units = << >> THEN Front(entry.value) ELSE entry.value

\* The words mean what the fact says, letter case aside.
Means(words, fact) ==
    LET kind == KindOf[fact.key]
    IN  /\ Parses(kind, words)
        /\ \/ Reads[kind][words].means = fact.means
           \/ kind = "ENUM" /\ CaseFold[Reads[kind][words].means] = CaseFold[fact.means]

\* A structured fact is what a product node of the page gives for its key, and
\* that node gives nothing else for it (verification/html_attributes.py
\* _verify_jsonld).
StructureStates(f) ==
    LET node == f.page.content.blocks[f.fact.locator.block][f.fact.locator.at]
        entries == EntriesFor(node, f.fact.key, f.fact.target)
    IN  /\ entries # {}
        /\ \A e \in entries : Means(Said(e, f.fact.rawUom), f.fact)

\* A fact from the text is the whole of a visible fragment behind its one label
\* (verification/html_attributes.py _verify_text).
TextStates(f) ==
    \E fragment \in ToSet(f.page.content.fragments) :
        LET rest == Tail(fragment.text)
            value == IF f.fact.rawUom = None THEN rest ELSE Front(rest)
        IN  /\ fragment.start = f.fact.locator.start /\ fragment.stop = f.fact.locator.stop
            /\ fragment.text[1] \in Rules[f.fact.key].labels
            /\ \A n \in DOMAIN rest : rest[n] \notin Rules[f.fact.key].labels
            /\ Means(value, f.fact)
            /\ f.fact.rawUom # None => Last(rest) = f.fact.rawUom

\* A model only points: every fact is what the page itself states where it is
\* cited, whatever the model answered.
FactsAreStated ==
    \A f \in facts :
        IF f.fact.locator.kind = "jsonld" THEN StructureStates(f) ELSE TextStates(f)

\* A page with facts about a part number is its maker's, and none of its main
\* products is another part (identity/html.py, verification/html_attributes.py).
FactsAreOfTheTarget ==
    \A f \in facts :
        LET primary == PrimaryNodes(f.page)
        IN  /\ f.page.authority = Manufacturer
            /\ \E request \in Requests :
                  request.mpn = f.fact.target /\ request.brand = f.page.publisher
            /\ Mpns(f.page, primary) = {f.fact.target}
            /\ f.fact.locator.kind = "jsonld" =>
                  [block |-> f.fact.locator.block, at |-> f.fact.locator.at] \in primary

\* verification/README.md: "Structured conflicts become `REVIEW`".
StructuredConflictsAreReviewed ==
    \A f \in facts :
        f.fact.locator.kind = "jsonld" =>
            \A node \in PrimaryNodes(f.page) :
                \A e \in EntriesFor(Node(f.page, node), f.fact.key, f.fact.target) :
                    Means(Said(e, f.fact.rawUom), f.fact)
=================================================================================
