SPECIFICATION MCSpec
CONSTANTS
    SampleSize = 2
    Lead <- MCLead
INVARIANTS CalculatedOnce VectorsAreExact
