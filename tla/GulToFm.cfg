\* A buffer of a few records, so that fmcalc is given parts of blocks, and
\* catches up with gulcalc in the middle of them.
SPECIFICATION Spec
CONSTANTS
    Events = {1, 2}
    Items = {1, 2}
    Lead <- ItemLead
    SampleSize = 2
    HeaderSize = 1
    RecSize = 1
    BufSize = 5
    Spare = 2
INVARIANTS BufferBound BlocksClosed FmSeesGul
PROPERTIES EventuallyCalculated
