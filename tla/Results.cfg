SPECIFICATION Spec
CONSTANTS
    Inputs <- MCInputs
    Options <- MCOptions
INVARIANTS
    AALIsExact
    TablesAgree
    OneRowPerOccurrence
