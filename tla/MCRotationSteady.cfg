\* A grace of just two stalls, the sleep and the wait after it; the wait is
\* longer than a stall, so that several callbacks may run ahead of a rotator.
CONSTANTS
    None = None
    Session = {s1, s2}
    Instance = {i1, i2}
    ReloadTime = 1
    DefaultReload = 1
    Grace = 5
    TickInterval = 1
    MaxStall = 1
    MaxLag = 2
    MaxEnds = 1
    MaxFaults = 0
SPECIFICATION Spec
SYMMETRY Symmetry
INVARIANTS TypeOK OneRotator NoGap
PROPERTY RotationIsDue
