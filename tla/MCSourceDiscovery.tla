-------------------------- MODULE MCSourceDiscovery --------------------------
(* SourceDiscovery on one maker with two domains, whose binding an operator   *)
(* reviews while two jobs run: u1 and u2 are the maker's, u3 is a shop's and  *)
(* u4 names a private host, to which only a redirect or an operator leads.    *)
(* The registry on its own has two operators and two makers.                  *)
EXTENDS SourceDiscovery, TLC

CONSTANTS o1, o2, m1, m2, n1, l1, n2, maker, media, rival, shop, lan,
          p1, u1, u2, u3, u4, h1, d1, d2

MCDomains == m1 :> {maker, media} @@ m2 :> {rival}
MCNames == m1 :> {n1} @@ m2 :> {n2}
MCLocators == m1 :> {l1} @@ m2 :> {}
MCPublished == [entries |-> <<[key |-> m1, review |-> None]>>, hosts |-> TRUE]
MCTwoUnreviewed ==
    [entries |-> <<[key |-> m1, review |-> None], [key |-> m2, review |-> None]>>, hosts |-> TRUE]
MCHintOf == p1 :> n1
MCHostOf == u1 :> maker @@ u2 :> media @@ u3 :> shop @@ u4 :> lan
MCRelevance == [u \in Urls |-> [p \in Products |-> IF u = u4 THEN "SIBLING" ELSE "EXACT"]]
MCResults == {{u1, u2, u3}}
MCOrder == u1 :> 2 @@ u2 :> 1 @@ u3 :> 3 @@ u4 :> 4
MCKindOf == h1 :> "PDF"
Symmetry == Permutations(Jobs)
==============================================================================
