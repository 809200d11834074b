\* A claim whose scan failed.
CONSTANTS
    Session = {s1}
    Target = {s1}
    Student = {u1}
    Token = {t1}
    Request = {r1, r2}
    Forged = forged
    Malformed = malformed
    None = None
    Faulty = TRUE
SPECIFICATION Spec
\* Requests, sessions and tokens run out: that is the bound, not a deadlock.
CHECK_DEADLOCK FALSE
SYMMETRY Symmetry
INVARIANT DuplicateMeansRecorded
