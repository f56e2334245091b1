------------------------------ MODULE HtmlSnapshot ------------------------------
(* What the store keeps of an HTML page (ingest/html.py): the snapshot parser *)
(* as a function of the tokens Python's HTMLParser hands it.                  *)
(*                                                                            *)
(* A token is a start tag, an end tag or a run of text.  A text is a sequence *)
(* of words, so its length stands for its characters, and << >> is white      *)
(* space.  What a JSON-LD script says is data: JsonLd gives the structure of  *)
(* the texts that parse.                                                      *)
EXTENDS Common, Integers, FiniteSets, SequencesExt

CONSTANTS
    Title, Script,      \* the two tags the parser knows by name
    IgnoredTags,        \* head, style, nav, ...: their text is not visible
    VoidTags,           \* br, img, meta, ...: never on the stack
    VerbatimTags,       \* script and style, whose text HTMLParser reads verbatim
    JsonLd,             \* the structure of every script text that parses
    Malformed,          \* and of every one that does not
    MaxElements, MaxJsonLdBlocks, MaxVisibleChars

ASSUME HtmlLimits ==
    /\ {MaxElements, MaxJsonLdBlocks, MaxVisibleChars} \subseteq Nat
    /\ Title # Script /\ {Title, Script} \cap VoidTags = {}

Start(tag, void, hidden, jsonld, canonical) ==
    [type |-> "start", tag |-> tag, void |-> void, hidden |-> hidden,
     jsonld |-> jsonld, canonical |-> canonical]
End(tag) == [type |-> "end", tag |-> tag]
Data(text) == [type |-> "data", text |-> text]

Parser ==
    [failed |-> FALSE, elements |-> 0, stack |-> << >>, depth |-> 0, inTitle |-> FALSE,
     title |-> << >>, canonical |-> None, visible |-> << >>, chars |-> 0,
     blocks |-> << >>, open |-> None, verbatim |-> None]

Failed(p) == [p EXCEPT !.failed = TRUE]

Ignored(token) ==
    token.tag \in IgnoredTags \cup {Script} \/ token.hidden

\* An element that has no end tag leaves nothing on the stack.
Empty(token) == token.void \/ token.tag \in VoidTags

StartTag(p, token) ==
    IF \/ p.elements + 1 > MaxElements
       \/ token.jsonld /\ Len(p.blocks) >= MaxJsonLdBlocks
    THEN Failed(p)
    ELSE [p EXCEPT
            !.elements = @ + 1,
            !.canonical = IF @ = None THEN token.canonical ELSE @,
            !.open = IF token.jsonld THEN << >> ELSE @,
            !.inTitle = @ \/ token.tag = Title,
            !.depth = IF Ignored(token) /\ ~Empty(token) THEN @ + 1 ELSE @,
            !.stack = IF Empty(token) THEN @
                      ELSE Append(@, [tag |-> token.tag, element |-> p.elements,
                                      ignored |-> Ignored(token)])]

IgnoredFrames(frames) == Cardinality({n \in DOMAIN frames : frames[n].ignored})

\* The script block under collection becomes a block of the page.
CloseBlock(p) == [p EXCEPT !.blocks = Append(@, p.open), !.open = None]

\* Mutant: only the frame the tag names leaves the count.
EndTagCountsOne(p, token) ==
    LET named == {n \in DOMAIN p.stack : p.stack[n].tag = token.tag}
        top == CHOOSE n \in named : \A m \in named : m <= n
    IN  IF named = {} THEN p
        ELSE [p EXCEPT !.depth = @ - (IF p.stack[top].ignored THEN 1 ELSE 0),
                       !.stack = SubSeq(@, 1, top - 1)]

\* Everything above the frame the tag closes goes with it; an end tag that
\* closes nothing is dropped.
EndTag(p, token) ==
    LET closed == IF token.tag = Script /\ p.open # None THEN CloseBlock(p) ELSE p
        named == {n \in DOMAIN p.stack : p.stack[n].tag = token.tag}
        top == CHOOSE n \in named : \A m \in named : m <= n
    IN  [closed EXCEPT
            !.inTitle = @ /\ token.tag # Title,
            !.depth = IF named = {} THEN @
                      ELSE @ - IgnoredFrames(SubSeq(p.stack, top, Len(p.stack))),
            !.stack = IF named = {} THEN @ ELSE SubSeq(@, 1, top - 1)]

Text(p, token) ==
    LET noted == [p EXCEPT !.open = IF @ = None THEN None ELSE @ \o token.text,
                           !.title = IF p.inTitle THEN @ \o token.text ELSE @]
        start == p.chars + (IF p.visible = << >> THEN 0 ELSE 1)
        stop == start + Len(token.text)
        element == IF p.stack = << >> THEN 0 ELSE Last(p.stack).element
    IN  CASE p.depth > 0 \/ token.text = << >> -> noted
          [] p.depth = 0 /\ token.text # << >> /\ stop > MaxVisibleChars -> Failed(noted)
          [] OTHER ->
                [noted EXCEPT
                    !.chars = stop,
                    !.visible = Append(@, [text |-> token.text, element |-> element,
                                           start |-> start, stop |-> stop])]

\* HTMLParser finds no tag in the text of a script but the one that ends it.
Tokens(p, tokens) ==
    {t \in tokens :
        p.verbatim = None \/ t.type = "data" \/ (t.type = "end" /\ t.tag = p.verbatim)}

Verbatim(p, token) ==
    CASE token.type = "start" /\ ~token.void /\ token.tag \in VerbatimTags -> token.tag
      [] token.type = "end" /\ token.tag = p.verbatim -> None
      [] OTHER -> p.verbatim

Feed(p, token) ==
    LET fed == CASE token.type = "start" -> StartTag(p, token)
                 [] token.type = "end" -> EndTag(p, token)
                 [] token.type = "data" -> Text(p, token)
    IN  [fed EXCEPT !.verbatim = Verbatim(p, token)]

\* A script that never ended is kept, as a block that may not parse.
Finish(p) == IF p.open = None THEN p ELSE CloseBlock(p)

Blocks(p) ==
    [n \in DOMAIN p.blocks |->
        IF p.blocks[n] \in DOMAIN JsonLd THEN JsonLd[p.blocks[n]] ELSE Malformed]

Content(p) ==
    [title |-> p.title, canonical |-> p.canonical, fragments |-> p.visible,
     blocks |-> Blocks(Finish(p))]

-------------------------------------------------------------------------------
\* The counter that decides what is visible counts the ignored elements that are
\* open (ingest/html.py ignored_depth, stack).
DepthCountsTheStack(p) == p.depth = IgnoredFrames(p.stack)

\* The fragments lie in the page's text one behind another, a line break apart,
\* inside its bound (ingest/html.py HtmlArtifactContent, _content).
FragmentsTileTheText(p) ==
    /\ p.chars <= MaxVisibleChars
    /\ \A n \in DOMAIN p.visible :
          /\ p.visible[n].stop = p.visible[n].start + Len(p.visible[n].text)
          /\ p.visible[n].start = IF n = 1 THEN 0 ELSE p.visible[n - 1].stop + 1
          /\ n = Len(p.visible) => p.chars = p.visible[n].stop
=============================================================================
