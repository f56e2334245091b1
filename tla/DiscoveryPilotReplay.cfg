SPECIFICATION Spec
CONSTANTS
    a = a
    b = b
    d1 = d1
    d2 = d2
    d3 = d3
    driver = driver
    other = other
    hit = hit
    timeout = timeout
    budget = budget
    None = None
    Opaque = Opaque
    Procs = {driver, other}
    Driver = driver
    MPNs = {a, b}
    Domains = {d1, d2, d3}
    Hits = {hit}
    Failures = {timeout}
    Budget = budget
    Errors = {timeout, budget}
    MaxCalls = 2
    Edits = 0
    Pilots <- MCPilots
    Keys <- MCKeys
    Replies <- MCReplies
    OtherKeys <- MCOtherKeys
INVARIANT KeepsItsPlace
