\* Four records; the default, the maximum and the cap in the order of the code.
CONSTANTS
    Keys = {k1, k2, k3, k4}
    Offsets <- ClientOffsets
    Limits <- ClientLimits
    DefaultLimit = 1
    MaxLimit = 2
    OnlineCap = 3
SPECIFICATION Spec
INVARIANTS ScanBracketed PagesPartition PanicNeedsNegativeOffset CountBracketed
SYMMETRY Symmetry
CHECK_DEADLOCK FALSE
