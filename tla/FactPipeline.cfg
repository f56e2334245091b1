\* The whole path from a reference to a row, with everything that can change
\* meanwhile.
CONSTANTS
    None = None
    NoUnit = NoUnit
    NoMpn = NoMpn
    NoIdentity = NoIdentity
    NoValue = NoValue
    AnyUnit = AnyUnit
    AnyKind = AnyKind
    B = B
    X = X
    Y = Y
    Maker = Maker
    Coil = Coil
    Dc = Dc
    Kw = Kw
    W = W
    Volt = Volt
    Ac3 = Ac3
    V400 = V400
    Screw = Screw
    Power = Power
    Rating = Rating
    Text = Text
    Brand = Maker
    References <- MCReferences
    Selection <- MCSelection
    Facts <- MCFacts
    DimensionOf <- MCDimensionOf
    Affine = {}
    Wants <- MCWants
    Compound = {}
    Schema <- MCSchema
    Proposals <- MCProposals
    Parses <- MCParses
    PageCount = 1
    Callers <- MCCallers
    Capacity = 2
SPECIFICATION MCSpec
CHECK_DEADLOCK FALSE
INVARIANTS
    TypeOK
    ClaimsNameAConfirmedProduct
    CellsAreWitnessed
    NoOccurrenceDisagrees
    RowIsFaithful
PROPERTIES
    ExactIsStable
    GatedRowsAreOfTheProduct
