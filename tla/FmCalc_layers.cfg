SPECIFICATION Spec
CONSTANT
    PARTS = 2
    Cases <- MCLayers
INVARIANT AllLossesAllocated
CHECK_DEADLOCK FALSE
