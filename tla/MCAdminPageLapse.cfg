\* A code that expires before another instance replaces it.
CONSTANTS
    Session = {s1}
    Slot = {k1, k2}
    None = None
    MaxActs = 1
    MaxErrors = 0
    Lapsing = {s1}
SPECIFICATION Spec
\* Clicks and reloads run out: that is the bound, not a deadlock.
CHECK_DEADLOCK FALSE
SYMMETRY Symmetry
PROPERTY DropsNoOpenSession
