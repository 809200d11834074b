\* Two sessions, four clicks or reloads, two failing calls; the code of one session may lapse.
CONSTANTS
    Session = {s1, s2}
    Slot = {k1, k2, k3}
    None = None
    MaxActs = 4
    MaxErrors = 2
    Lapsing = {s2}
SPECIFICATION FairSpec
\* Clicks and reloads run out: that is the bound, not a deadlock.
CHECK_DEADLOCK FALSE
INVARIANTS TypeOK ShowsItsSession OneLoop
PROPERTIES DropsOnlyEnded EndedIsLeft
