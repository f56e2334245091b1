\* A cell is a rendering of the verified number, "never a conversion".
CONSTANTS
    None = None
    NoUnit = NoUnit
    NoMpn = NoMpn
    NoIdentity = NoIdentity
    NoValue = NoValue
    AnyUnit = AnyUnit
    AnyKind = AnyKind
    B = B
    X = X
    Y = Y
    Maker = Maker
    Coil = Coil
    Dc = Dc
    Kw = Kw
    W = W
    Volt = Volt
    Ac3 = Ac3
    V400 = V400
    Screw = Screw
    Power = Power
    Rating = Rating
    Text = Text
    Brand = Maker
    References <- MCReferences
    Selection <- MCSelection
    Facts <- MCFacts
    DimensionOf <- MCDimensionOf
    Affine = {}
    Wants <- MCWants
    Compound = {}
    Schema <- MCSchema
    Proposals <- MCLongProposals
    Parses <- MCLongParses
    PageCount = 1
    Callers <- MCPlainCallers
    Capacity = 2
SPECIFICATION Spec
CHECK_DEADLOCK FALSE
INVARIANT CellsReadBack
