SPECIFICATION FairSpec
CONSTANTS
    Text <- MCText
    Blank <- MCBlank
    Partial <- MCPartial
    Lettered <- MCLettered
    Matching <- MCMatching
    Numeric <- MCNumeric
    Beyond <- MCBeyond
    Fit <- MCFit
    Percent <- MCPercent
    Threshold = 2
    Confirm = 2
    Cooldown = 3
    StaleAfter = 2
    PixelSettleEvery = 2
    Configs <- MCConfigs
INVARIANTS
    TypeOK
    PixelSideShown
PROPERTIES
    NoRepeatedAlert
    FireIsConfirmed
    CooldownSpacing
    HeldAlertFires
    SteadyConditionAlerts
