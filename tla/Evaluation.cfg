\* One extraction, to one record, to one report; a record of one attribute.
SPECIFICATION Spec
CONSTANTS
    None = None
    UnitRegistry <- MCUnitRegistry
    Fold <- MCFold
    ConditionKinds = {"USE", "VOLTAGE"}
    CanonicalMpn <- MCCanonicalMpn
    Archive <- MCArchive
    Class = "EC1"
    DemoData <- MCDemoData
    Wanted <- MCWanted
    Payloads <- MCPayloads
    Followed <- MCFollowed
    Pages = 1
    Observations <- MCObservations
    OtherValue <- MCOtherValue
    OtherQualifier = "AC-1"
    Identities <- MCIdentities
    Manifests <- MCManifests
    Splits = {"DEV", "LOCKED_TEST"}
    Baselines <- MCBaselines
    MaxAttributes = 1
CHECK_DEADLOCK FALSE
INVARIANTS
    TypeOK
    SchemaAndValidatorAgree
    CandidatesSayWhatWasRead
    AcceptedIsWitnessed
    RecordsAreSupported
    ScoresFollowTheTruth
