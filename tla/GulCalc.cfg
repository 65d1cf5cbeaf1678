SPECIFICATION Spec
CONSTANTS
    Events <- MCEvents
    Keys <- MCKeys
    Item <- MCItem
    Coverage <- MCCoverage
    KeyOf <- MCKeyOf
    CoverageOf <- MCCoverageOf
    GroupOf <- MCGroupOf
    Tiv <- MCTiv
    CdfOf <- MCCdfOf
    PROB = 2
    DAMAGE = 2
    loss_threshold = 10000
    Options <- Documented
INVARIANTS BlocksAreWhole LossesSampled CoverageIsItemSum AllocationBounded
