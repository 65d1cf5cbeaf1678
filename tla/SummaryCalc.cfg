CONSTANTS
    Event = {3, 5}
    Output = {1, 2}
    SummarySet = {1}
    MaxSummary = 2
    SampleSize = 1
    LossAt <- MCLossAt
    CoverageStream = FALSE
    Tiv <- MCTiv
    ZeroOutput = FALSE
SPECIFICATION FairSpec
INVARIANTS ReportsAreExact ReportedOnce NothingLost IndexAddressesBlocks
PROPERTIES ImplementsLedger Terminates
CHECK_DEADLOCK FALSE
