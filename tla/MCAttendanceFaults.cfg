\* Three requests on one session, with crashes and a Redis that loses its data.
CONSTANTS
    Session = {s1}
    Target = {s1}
    Student = {u1}
    Token = {t1, t2}
    Request = {r1, r2, r3}
    Forged = forged
    Malformed = malformed
    None = None
    Faulty = TRUE
SPECIFICATION Spec
\* Requests, sessions and tokens run out: that is the bound, not a deadlock.
CHECK_DEADLOCK FALSE
SYMMETRY Symmetry
INVARIANTS TypeOK ExactlyOnce AuditBalance CorrectionSeesLatest
PROPERTY ImplementsLedger
