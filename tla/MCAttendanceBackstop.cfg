\* A claim that expired, and the database's own duplicate guard.
CONSTANTS
    Session = {s1}
    Target = {s1}
    Student = {u1}
    Token = {t1}
    Request = {r1, r2}
    Forged = forged
    Malformed = malformed
    None = None
    Faulty = FALSE
SPECIFICATION Spec
\* Requests, sessions and tokens run out: that is the bound, not a deadlock.
CHECK_DEADLOCK FALSE
SYMMETRY Symmetry
PROPERTY DuplicateIsAnswered
