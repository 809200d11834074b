\* One enrollment, four requests, with faults; two migrations and an instance.
CONSTANTS
    Course = {c1}
    Student = {u1}
    Instructor = {i1}
    Request = {r1, r2, r3, r4}
    None = None
    Faulty = TRUE
    Migrator = {m1, m2}
    Instance = {a1}
    Newest = 2
SPECIFICATION ServiceSpec
\* Requests run out: that is the bound, not a deadlock.
CHECK_DEADLOCK FALSE
SYMMETRY Symmetry
INVARIANTS ServiceTypeOK NoRace ServesMigrated StandsAsDecided AuditChain AnswersTrue
PROPERTIES ImplementsEnrollment ApprovalKept
