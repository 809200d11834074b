\* Two sessions that may both have a code, or one of them a new one; requests
\* about the one session, and what must happen.  No faults.
CONSTANTS
    Session = {s1, s2}
    Target = {s1}
    Student = {u1}
    Token = {t1, t2}
    Request = {r1, r2}
    Forged = forged
    Malformed = malformed
    None = None
    Faulty = FALSE
SPECIFICATION FairSpec
\* Requests, sessions and tokens run out: that is the bound, not a deadlock.
CHECK_DEADLOCK FALSE
INVARIANTS TokenBoundToSession DuplicateMeansRecorded
PROPERTY RequestsFinish
