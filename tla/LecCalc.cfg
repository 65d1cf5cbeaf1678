SPECIFICATION Spec
CONSTANTS
    Inputs <- MCInputs
    Options <- MCOptions
INVARIANTS
    NeverWritesUnopened
    CurvesAreExceedance
    CurvesComplete
    MeansAreAverages
