\* Every short page through the parser, and handmade pages all the way to facts.
CONSTANTS
    None = None
    Malformed = Malformed
    X = X
    Y = Y
    Maker = Maker
    Page1 = Page1
    Page2 = Page2
    Page3 = Page3
    Page4 = Page4
    Page5 = Page5
    Short = Short
    Title = "title"
    Script = "script"
    IgnoredTags = {"head", "nav"}
    VoidTags = {"br"}
    VerbatimTags = {"script"}
    JsonLd <- MCJsonLd
    MaxElements = 3
    MaxJsonLdBlocks = 2
    MaxVisibleChars = 8
    Numerals = {"0", "1"}
    UomAliases <- MCUomAliases
    Reads <- MCReads
    CaseFold <- MCCaseFold
    Profile <- MCProfile
    KindOf <- MCKindOf
    FinishKey = "finish"
    FinishName = "Finish"
    Rules <- MCRules
    Holds <- MCHolds
    EndsWith <- MCEndsWith
    StartsWith <- MCStartsWith
    Relevant = {"Height:", "Fits:"}
    Window = 1
    MaxSelected = 2
    MaxPayload = 5
    Sources <- MCSources
    Requests <- MCRequests
    Answers <- MCAnswers
    MediaTypes = {"text/html"}
    MaxBytes = 1
SPECIFICATION MCSpec
CHECK_DEADLOCK FALSE
INVARIANTS
    TypeOK
    SnapshotIsSound
    FactsAreStated
    FactsAreOfTheTarget
