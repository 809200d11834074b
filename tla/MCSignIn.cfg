\* Two callbacks, two commands and two requests; one account is older than single sign-on.
CONSTANTS
    Identity = {i1, i2}
    Email = {e1, e2}
    Legacy = {l1}
    Callback = {c1, c2}
    Command = {o1, o2}
    Tab = {t1}
    Post = {p1, p2}
    None = None
SPECIFICATION Spec
\* Callbacks, commands and requests run out: that is the bound, not a deadlock.
CHECK_DEADLOCK FALSE
SYMMETRY Symmetry
INVARIANTS TypeOK OneAccount OwnAccount RefusedForCause RetryHelps SignedOutStaysOut ActsAsTold
PROPERTY EditsKept
