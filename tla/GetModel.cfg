SPECIFICATION Spec
CONSTANTS
    ZLen <- MCZLen
    MaxRatio = 2
    One = 2
    Cases <- MCCases
INVARIANTS
    CdfsAreOfTheModel
    FilesComeBack
    FailsForAReason
CHECK_DEADLOCK FALSE
