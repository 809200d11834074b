\* Two faults; stalls just short of the shortest lease.
CONSTANTS
    None = None
    Session = {s1}
    Instance = {i1, i2}
    ReloadTime = 1
    DefaultReload = 2
    Grace = 2
    TickInterval = 1
    MaxStall = 2
    MaxLag = 1
    MaxEnds = 2
    MaxFaults = 2
SPECIFICATION FairSpec
INVARIANT OneRotator
PROPERTY CodeReturns
