SPECIFICATION Spec
CONSTANTS
    PARTS = 2
    Directories <- MCDirectories
    Options <- MCOptions
    Losses <- MCLosses
    GulLines <- MCGulLines
    SummaryLines <- MCSummaryLines
INVARIANTS
    ValidatorIsExact
    LoadedAsStated
    StartedAsAsked
    TextComesBack
CHECK_DEADLOCK FALSE
