\* An end answered by one instance while the other rotates; no fault.
CONSTANTS
    None = None
    Session = {s1}
    Instance = {i1, i2}
    ReloadTime = 2
    DefaultReload = 3
    Grace = 5
    TickInterval = 1
    MaxStall = 1
    MaxLag = 2
    MaxEnds = 2
    MaxFaults = 0
SPECIFICATION Spec
SYMMETRY Symmetry
INVARIANT EndedIsInactive
