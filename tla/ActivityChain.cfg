SPECIFICATION Spec
CONSTANTS
    Writers = {w1, w2}
    Legacy = 2
    MaxId = 5
    MaxFaults = 2
INVARIANTS TypeOK ChainIntact CheckpointTold QuietVerifyPasses AppendsBreakNoLink
PROPERTIES WindowKept
SYMMETRY WriterSymmetry
