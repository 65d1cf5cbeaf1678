SPECIFICATION Spec
CONSTANT
    PARTS = 2
    Cases <- MCCases
INVARIANT VectorsHoldTheSample
INVARIANT AllocationConserves
INVARIANT NetIsRemainder
INVARIANT RetainedIsRest
INVARIANT PaymentsBounded
CHECK_DEADLOCK FALSE
