------------------------------ MODULE HtmlIdentity ------------------------------
(* Which product a stored page is about (identity/html.py).                   *)
(*                                                                            *)
(* A JSON-LD block is a function from the addresses of its values, the token  *)
(* sequences of their JSON pointers, to nodes.  A node says whether it is a   *)
(* list, whether its @type makes it a Product (bare: as the plain word), its  *)
(* direct mpn, sku and @id, and its properties.  A part number is a model     *)
(* value, one for each canonical form.  A page is an artifact: its hash, the  *)
(* authority and publisher stored with it, and what the snapshot parser made  *)
(* of it (module HtmlSnapshot).                                               *)
EXTENDS HtmlSnapshot

CONSTANTS Numerals      \* the tokens that index a list

\* --- the products of a block --------------------------------------------------

Products(block) == {at \in DOMAIN block : block[at].product}

DirectProducts(block, at) ==
    CASE at \notin DOMAIN block -> {}
      [] at \in Products(block) -> {at}
      [] OTHER -> IF block[at].list
                  THEN {Append(at, n) : n \in Numerals} \cap Products(block) ELSE {}

\* The @ids by which mainEntity names its object, or its list's objects.
MainEntityIds(block) ==
    LET main == <<"mainEntity">>
        named == IF main \in DOMAIN block /\ block[main].list
                 THEN {Append(main, n) : n \in Numerals} ELSE {main}
    IN  {block[at].id : at \in named \cap DOMAIN block} \ {None}

\* The roots, else what the page embeds as its main entity, else the products of
\* its graph: those the main entity names, or all of them if it names none.
PrimaryProducts(block) ==
    LET roots == DirectProducts(block, << >>)
        embedded == DirectProducts(block, <<"mainEntity">>)
        graph == DirectProducts(block, <<"@graph">>)
        selected == {at \in graph : block[at].id \in MainEntityIds(block)}
    IN  CASE roots # {} \/ block[<< >>].list -> roots
          [] roots = {} /\ ~block[<< >>].list /\ embedded # {} -> embedded
          [] OTHER -> IF selected # {} THEN selected ELSE graph

\* --- what a page lets one observe ---------------------------------------------

Parsed(page) == {b \in DOMAIN page.content.blocks : page.content.blocks[b] # Malformed}

HasMalformed(page) == Parsed(page) # DOMAIN page.content.blocks

Node(page, node) == page.content.blocks[node.block][node.at]

Nodes(page) ==
    UNION {{[block |-> b, at |-> at] : at \in Products(page.content.blocks[b])}
              : b \in Parsed(page)}

PrimaryNodes(page) ==
    {node \in Nodes(page) : node.at \in PrimaryProducts(page.content.blocks[node.block])}

Mpns(page, nodes) == UNION {Node(page, node).mpn : node \in nodes}
Skus(page, nodes) == UNION {Node(page, node).sku : node \in nodes}

\* The part number as a token of the text, in any fragment, the title or the URL.
Signals(page, target) ==
    {s \in {"text", "title", "url"} :
        CASE s = "text" -> \E n \in DOMAIN page.content.fragments :
                              target \in ToSet(page.content.fragments[n].text)
          [] s = "title" -> target \in ToSet(page.content.title)
          [] s = "url" -> page.content.canonical = target}

FallbackReason(signals) ==
    CASE "text" \in signals -> "MPN_ONLY_IN_VISIBLE_TEXT"
      [] "text" \notin signals /\ "title" \in signals -> "MPN_ONLY_IN_TITLE"
      [] signals = {"url"} -> "MPN_ONLY_IN_URL"
      [] signals = {} -> "MPN_ABSENT"

\* --- the decision -------------------------------------------------------------

Invalid == "INVALID"

Manufacturer == "APPROVED_MANUFACTURER"

\* Why a page is not known to be about the target, with the first reason the code
\* meets; EXACT_PRODUCT_MPN if there is none.
Reason(page, brand, target) ==
    LET primary == PrimaryNodes(page)
        mpns == Mpns(page, primary)
        signals == Signals(page, target)
        elsewhere == target \in Mpns(page, Nodes(page) \ primary)
        unnamed == \E node \in primary : Node(page, node).mpn = {}
        Or(reason) == IF elsewhere THEN "TARGET_ONLY_IN_NONPRIMARY_PRODUCT" ELSE reason
    IN  CASE target = Invalid -> "INVALID_TARGET_MPN"
          [] target # Invalid /\ page.authority # Manufacturer ->
                "MANUFACTURER_AUTHORITY_REQUIRED"
          [] OTHER ->
                IF page.publisher # brand \/ brand = None THEN "PUBLISHER_MISMATCH"
                ELSE IF HasMalformed(page) THEN "MALFORMED_JSONLD"
                ELSE IF primary = {}
                     THEN Or(IF signals # {} THEN FallbackReason(signals)
                             ELSE "NO_PRODUCT_IDENTITY_STRUCTURE")
                ELSE IF Cardinality(mpns) > 1 THEN "CONFLICTING_PRODUCT_MPN"
                ELSE IF Cardinality(primary) > 1 /\ unnamed
                     THEN "MULTIPLE_PRODUCTS_AMBIGUOUS"
                ELSE IF target \notin mpns
                     THEN Or(IF mpns # {} THEN "PRODUCT_MPN_MISMATCH"
                             ELSE FallbackReason(signals))
                ELSE "EXACT_PRODUCT_MPN"

Decision(reason) ==
    CASE reason = "EXACT_PRODUCT_MPN" -> "EXACT"
      [] reason \in {"CONFLICTING_PRODUCT_MPN", "MULTIPLE_PRODUCTS_AMBIGUOUS"} -> "REVIEW"
      [] OTHER -> "WITHHOLD"

Warnings(page, target) ==
    LET primary == PrimaryNodes(page)
        skus == Skus(page, primary)
    IN  {w \in {"SKU_DOES_NOT_CORROBORATE_MPN", "DUPLICATE_EQUIVALENT_PRODUCT_NODES"} :
            IF w = "SKU_DOES_NOT_CORROBORATE_MPN"
            THEN skus # {} /\ target \notin skus
            ELSE Cardinality(primary) > 1}

\* Scope and coverage are claimed by an exact decision only; the primary product
\* nodes are among the observations whatever was decided.
ResolveHtmlIdentity(page, brand, target) ==
    LET reason == Reason(page, brand, target)
        exact == Decision(reason) = "EXACT"
    IN  [target |-> target, sha |-> page.sha, decision |-> Decision(reason),
         reason |-> reason, covers |-> IF exact THEN target ELSE None,
         primary |-> IF target = Invalid THEN {} ELSE PrimaryNodes(page),
         warnings |-> IF exact THEN Warnings(page, target) ELSE {}]
=============================================================================
