\* One course of two sessions, three calls in flight, four clicks, one failing call.
CONSTANTS
    Course = {c1}
    Number = {n1, n2}
    Slot = {k1, k2, k3}
    None = None
    MaxActs = 4
    MaxErrors = 1
    MaxEdition = 1
SPECIFICATION FairSpec
\* Clicks run out: that is the bound, not a deadlock.
CHECK_DEADLOCK FALSE
INVARIANTS TypeOK TableIsSelected
PROPERTIES LoopKept SettlesOnLatest
