--------------------------- MODULE MCDiscoveryPilot ---------------------------
(* DiscoveryPilot on two selections: a part number of two manufacturers that *)
(* share a domain, beside a row without one; and a row over the call budget. *)
EXTENDS DiscoveryPilot

CONSTANTS a, b, d1, d2, d3, driver, other, hit, timeout, budget

Two == [mpn |-> a, domains |-> <<d1, d2>>]
One == [mpn |-> a, domains |-> <<d1>>]
Unreviewed == [mpn |-> b, domains |-> << >>]
Many == [mpn |-> b, domains |-> <<d1, d2, d3>>]

MCPilots == {<<Two, Unreviewed, One>>, <<Many>>}
MCKeys == {KeyOf(row) : row \in {Two, One, Many}}
MCOtherKeys == {KeyOf(One)}
MCReplies == [k \in MCKeys |-> Found([mpn |-> k.query, domains |-> k.filters])]
==============================================================================
