----------------------------- MODULE MCHtmlEvidence -----------------------------
(* Five pages about the part X or its neighbour Y, one of them parsed in two  *)
(* ways, and every short page: what a page can say about one finish, one      *)
(* height and one range.                                                      *)
EXTENDS HtmlEvidence, TLC

CONSTANTS X, Y, Maker, Page1, Page2, Page3, Page4, Page5, Short

Of(product, mpn, properties) ==
    [list |-> FALSE, product |-> product, bare |-> product, mpn |-> mpn, sku |-> mpn,
     id |-> None, properties |-> properties]
ListNode == [Of(FALSE, {}, << >>) EXCEPT !.list = TRUE]
Named(node, id) == [node EXCEPT !.id = id]

Property(name, owner, value, units) ==
    [complete |-> TRUE, name |-> name, owner |-> owner, value |-> value, units |-> units]

FinishOf(owner, value) == Property("Finish", owner, <<value>>, << >>)
Height(value, units) == Property("Height", None, value, units)

Lamp == Of(TRUE, {X}, <<FinishOf(X, "Black"), FinishOf(Y, "White"), Height(<<"10">>, << >>)>>)
Shade == Of(TRUE, {Y}, <<FinishOf(Y, "White"), Height(<<"12">>, << >>)>>)
OtherLamp == Of(TRUE, {X}, <<FinishOf(X, "White"), Height(<<"10">>, <<"in">>)>>)
TornLamp == Of(TRUE, {X}, <<Height(<<"10">>, << >>), Height(<<"12">>, << >>),
                            [FinishOf(X, "Black") EXCEPT !.complete = FALSE]>>)

\* Lamp at the root; a graph whose main entity is Lamp; two lamps in a list.
MCJsonLd ==
    (<<"{lamp}">> :> (<< >> :> Lamp)) @@
    (<<"{graph}">> :>
        ((<< >> :> Of(FALSE, {}, << >>)) @@ (<<"mainEntity">> :> Named(Of(FALSE, {}, << >>), "#x"))
         @@ (<<"@graph">> :> ListNode) @@ (<<"@graph", "0">> :> Named(Shade, "#y"))
         @@ (<<"@graph", "1">> :> Named(Lamp, "#x")))) @@
    (<<"{lamps}">> :>
        ((<< >> :> ListNode) @@ (<<"0">> :> Lamp) @@ (<<"1">> :> OtherLamp))) @@
    (<<"{torn}">> :> (<< >> :> TornLamp)) @@
    (<<"{shade}">> :> (<< >> :> Shade))

Tag(tag) == Start(tag, FALSE, FALSE, FALSE, None)
HiddenTag(tag) == Start(tag, FALSE, TRUE, FALSE, None)
JsonLdTag == Start(Script, FALSE, FALSE, TRUE, None)
Block(text) == <<JsonLdTag, Data(<<text>>), End(Script)>>

Response(sha, tokens) ==
    [sha |-> sha, media |-> "text/html", bytes |-> 1, pdf |-> FALSE, utf8 |-> TRUE,
     tokens |-> tokens, authority |-> Manufacturer, publisher |-> Maker]

HeightText == <<"Height:", "10", "in">>
InchText == <<"Height:", "x10", "inch">>
RangeText == <<"Fits:", "2-4", "in">>

MCPages ==
    {Response(Page1, Block("{lamp}") \o <<Tag("p"), Data(HeightText), Data(RangeText), End("p")>>),
     Response(Page1, <<Tag("p"), Data(HeightText), Data(<<X>>), End("p")>>),
     Response(Page2, <<Tag(Title), Data(<<X>>), End(Title)>> \o Block("{graph}") \o
                     <<Tag("p"), Data(InchText), End("p")>>),
     Response(Page3, Block("{lamps}")),
     Response(Page4, Block("{torn}") \o
                     <<Tag("p"), Data(<<"Height:", "10", "in", "Height:", "12", "in">>)>>),
     Response(Page5, Block("{lamp}") \o Block("{shade}")),
     [Response(Page2, Block("{lamp}")) EXCEPT !.authority = "MARKETPLACE"],
     [Response(Page2, << >>) EXCEPT !.pdf = TRUE]}

\* Every page of up to four tokens that HTMLParser can hand over.
Alphabet ==
    {Tag("p"), HiddenTag("p"), HiddenTag("b"), Start("p", TRUE, TRUE, FALSE, None),
     JsonLdTag, End("p"), End("b"), End(Script), Data(<<"Height:", "10">>)}

Tokenised(tokens) ==
    \A n \in DOMAIN tokens :
        tokens[n] \in Tokens(FoldLeft(Feed, Parser, SubSeq(tokens, 1, n - 1)), Alphabet)

ShortPages ==
    {Response(Short, tokens) :
        tokens \in {s \in UNION {[1 .. n -> Alphabet] : n \in 0 .. 4} : Tokenised(s)}}

MCSources == MCPages \cup ShortPages

MCRequests ==
    {[brand |-> Maker, mpn |-> X], [brand |-> Maker, mpn |-> Y], [brand |-> None, mpn |-> X]}

MCProfile == <<"finish", "height", "fits">>
MCKindOf == ("finish" :> "ENUM") @@ ("height" :> "NUMBER") @@ ("fits" :> "RANGE")
MCRules ==
    ("finish" :> [names |-> {"Finish"}, own |-> TRUE, labels |-> {}]) @@
    ("height" :> [names |-> {"Height"}, own |-> FALSE, labels |-> {"Height:"}]) @@
    ("fits" :> [names |-> {"Fits"}, own |-> FALSE, labels |-> {"Fits:"}])

Reading(means) == [means |-> means, shown |-> means, uom |-> None]
MCReads ==
    ("TEXT" :> (<<"Black">> :> Reading("Black"))) @@
    ("BOOLEAN" :> (<<"yes">> :> Reading("yes"))) @@
    ("ENUM" :> ((<<"Black">> :> Reading("Black")) @@ (<<"BLACK">> :> Reading("BLACK")) @@
                (<<"White">> :> Reading("White")))) @@
    ("NUMBER" :> ((<<"10">> :> Reading("10")) @@ (<<"12">> :> Reading("12")))) @@
    ("RANGE" :> (<<"2-4">> :> Reading("2 to 4")))
MCCaseFold == ("Black" :> "black") @@ ("BLACK" :> "black") @@ ("White" :> "white")
MCUomAliases == ("in" :> "in") @@ ("inch" :> "in")
MCStartsWith == {<<"inch", "in">>}
MCEndsWith == {<<"x10", "10">>}
MCHolds == MCStartsWith \cup MCEndsWith

Proposal(key, raw, uom, locator, excerpt) ==
    [key |-> key, kind |-> MCKindOf[key], raw |-> raw, uom |-> uom, locator |-> locator,
     excerpt |-> excerpt]

AtRoot(property) == FieldAt(1, << >>, property, "value")

FinishAt(locator, value) == Proposal("finish", <<value>>, None, locator, <<value>>)
HeightIn(start, text, raw) ==
    Proposal("height", <<raw>>, "in", TextAt(start, start + Len(text)), text)

MCAnswers ==
    {<<FinishAt(AtRoot(1), "Black"), HeightIn(0, HeightText, "10"),
       Proposal("fits", <<"2-4">>, "in", TextAt(4, 7), RangeText)>>,
     <<FinishAt(AtRoot(2), "White"),
       Proposal("height", <<"10">>, None, AtRoot(3), <<"10">>)>>,
     <<FinishAt(FieldAt(1, <<"@graph", "1">>, 1, "value"), "Black"),
       Proposal("height", <<"12">>, None, FieldAt(1, <<"@graph", "0">>, 2, "value"), <<"12">>)>>,
     <<FinishAt(FieldAt(1, <<"1">>, 1, "value"), "White"),
       Proposal("height", <<"10">>, None, FieldAt(1, <<"1">>, 2, "value"), <<"10">>)>>,
     <<HeightIn(2, InchText, "10")>>,
     <<FinishAt(AtRoot(3), "Black"),
       Proposal("height", <<"10">>, None, AtRoot(1), <<"10">>)>>,
     <<FinishAt(AtRoot(1), "Black"), FinishAt(AtRoot(1), "Black"),
       HeightIn(0, <<"Height:", "10", "in", "Height:", "12", "in">>, "10"),
       [FinishAt(None, "Black") EXCEPT !.key = "fits"]>>}

\* The bound on the search: a short page is read alone and up to its identity,
\* two pages are on the shelf, two runs have made facts, and what is fetched
\* during a run is the page of the run, parsed as it was or anew.
Handmade(artifact) == artifact.sha # Short
Idle == feed = None /\ page = None /\ facts = {}
MCFetch(source) ==
    /\ Cardinality(shelf) < 2 /\ \A a \in shelf : Handmade(a)
    /\ Fetch(source)
MCFetchAgain(source) ==
    /\ page # None /\ page.sha = source.sha /\ facts = {}
    /\ Fetch(source)
MCLoad(artifact) ==
    /\ page = None /\ feed = None
    /\ Cardinality({f.page : f \in facts}) < 2 /\ Handmade(artifact)
    /\ Load(artifact)

MCNext ==
    \/ Idle /\ \E source \in MCPages : MCFetch(source)
    \/ \E source \in MCPages : MCFetchAgain(source)
    \/ Idle /\ shelf = {} /\ \E source \in ShortPages : Fetch(source)
    \/ Read \/ Refuse \/ Store
    \/ \E artifact \in shelf : MCLoad(artifact)
    \/ \E request \in MCRequests : Resolve(request)
    \/ \E answer \in MCAnswers : Extract(answer)
    \/ Verify

MCSpec == Init /\ [][MCNext]_vars
=================================================================================
