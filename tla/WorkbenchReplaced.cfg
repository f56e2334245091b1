SPECIFICATION Spec
CONSTANTS
    f1 = f1
    f2 = f2
    m0 = m0
    m1 = m1
    r1 = r1
    r2 = r2
    r3 = r3
    k1 = k1
    k2 = k2
    l1 = l1
    l2 = l2
    bad = bad
    man = man
    blank = blank
    Files = {f1, f2}
    Sample = f2
    Products = {man, blank}
    Mappings = {m0, m1}
    Named = {m1}
    Detected <- MCDetected
    Rows = {r1, r2, r3, bad}
    RowsOf <- MCRowsOf
    Invalid = {bad}
    Limit = 2
    Imports = {k1, k2}
    Loops = {l1, l2}
    None = None
SYMMETRY Symmetry
INVARIANT ResultsAreCurrent
