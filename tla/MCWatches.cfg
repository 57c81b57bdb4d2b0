SPECIFICATION Spec
CONSTANTS
    save1 = save1
    save2 = save2
    Names <- MCNames
    Handlers <- MCHandlers
    Settings <- MCSettings
    Fresh <- Upright
    SamplesKept = 2
    Bounds <- MCBounds
INVARIANTS
    Inv
    RunsWhatIsSaved
    PageTruthful
    NoRunForgotten
SYMMETRY EitherHandler
CHECK_DEADLOCK FALSE
