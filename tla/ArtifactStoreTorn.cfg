SPECIFICATION KeepSpec
CONSTANTS
    h1 = h1
    h2 = h2
    a1 = a1
    a2 = a2
    a3 = a3
    p1 = p1
    p2 = p2
    p3 = p3
    t1 = t1
    t2 = t2
    t3 = t3
    Procs = {p1}
    Digests = {h1}
    Artifacts = {a1, a2, a3}
    Texts = {t1, t2, t3}
    ShaOf <- ReparseSha
    KindOf <- ReparseKind
    TextOf <- ReparseText
    None = None
    Garbage = Garbage
SYMMETRY Symmetry
INVARIANT LoadedMetadataDescribesText
