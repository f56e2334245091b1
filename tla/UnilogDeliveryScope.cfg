\* The same files, for a row that is another product of the same part number.
CONSTANTS
    None = None
    Sentinel = Sentinel
    Hyphen = Hyphen
    Plain = Plain
    Acme = Acme
    Bolt = Bolt
    Inc = Inc
    Dots = Dots
    Upper = Upper
    Double = Double
    Unknown = Unknown
    UomAliases <- MCUomAliases
    Reads <- MCReads
    CaseFold <- MCCaseFold
    Texts <- MCTexts
    Units <- MCUnits
    TokensOf <- MCTokensOf
    FamilyRules <- MCFamilyRules
    Precedence <- MCPrecedence
    InsufficientTokens = 2
    Inputs <- MCInputs
    Headers <- MCHeaders
    Examples <- MCExamples
    Catalogs <- MCCatalogs
    Offers <- MCOffers
    Hints <- MCHints
    MaxOffers = 3
SPECIFICATION MCSpec
CHECK_DEADLOCK FALSE
INVARIANT AttributesStayWithTheirRecord
