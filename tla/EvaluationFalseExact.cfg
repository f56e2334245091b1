\* A split with a case whose truth is not EXACT and that nobody answered.
SPECIFICATION Spec
CONSTANTS
    None = None
    UnitRegistry <- MCUnitRegistry
    Fold <- MCFold
    ConditionKinds = {"USE", "VOLTAGE"}
    CanonicalMpn <- MCCanonicalMpn
    Archive <- MCArchive
    Class = "EC1"
    DemoData <- MCDemoData
    Wanted <- MCWanted
    Payloads <- MCPayloads
    Followed <- MCFollowed
    Pages = 1
    Observations <- MCObservations
    OtherValue <- MCOtherValue
    OtherQualifier = "AC-1"
    Identities <- MCIdentities
    Manifests <- MCManifests
    Splits = {"DEV", "LOCKED_TEST"}
    Baselines <- MCBaselines
    MaxAttributes = 1
CHECK_DEADLOCK FALSE
INVARIANT FalseExactIsOverEveryCase
