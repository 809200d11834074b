# head-count in TLA+

head-count takes attendance in class. An instructor starts a session; a page shows a
QR code that changes every few seconds; students scan it, and the scan is recorded
if the code is the current one, the student is enrolled and has not been recorded
before. Several instances of one FastAPI application serve the requests, share one
Postgres and one Redis, and rotate the codes without a leader. This directory holds
the specifications of the parts of that system where the interleaving of requests,
instances, expiring keys and failures decides whether it is right, the
configurations that check them with TLC and the proofs that TLAPS checks.

    tlc -config MCAttendanceFaults.cfg MCAttendance.tla
    tlapm AttendanceProofs.tla

## The system

| Component | Keeps | Operations | What makes it correct |
| --- | --- | --- | --- |
| Scan (`main.py` `/scan`, `scans.py`) | rows of `attendance` and `auditLogs` | `validate_scan`, `claim_scan`, `record_attendance`, audit, commit | counted once, only in an open session, only with its code; row and audit commit together; answered truthfully |
| Corrections (`records.py`) | the same rows | `mark_present`, `void_attendance` | no lost update against scans and each other; the audit tells the history |
| Session life (`main.py`) | `sessions.status`, Redis keys | `/session/start`, `/session/end` | nothing counts after the end; an ended session stays ended |
| Rotator (`main.py` `rotate_tokens`) | due list, code, lock in Redis | one iteration every 0.5 s in every instance | one rotator per round; no code replaced early; never without a code; survives crashes |
| Token store (`tokens.py`) | `active_sessions`, `session:*:live_token`, `scan:*`, `lock:*`, `session_reload_times` | one Redis command or Lua script each | atomicity of the scripts, the TTLs |
| Courses and enrollment (`records.py`, `access.py`) | `courses`, `enrollments` | create, join, decide, roster | only the owner approves; a join asks again after a removal, and takes an approval back only if it read the row before it |
| Sign-in (`auth.py`, `main.py`) | `users`, browser sessions in Redis | OIDC callback, `/auth/me`, logout, the check of every request | one account per identity, never somebody else's; a session ends when it is ended |
| User management (`manage_user.py`) | `users` | grant, link | commands do not undo each other |
| Migration (`db.py`) | `schema_migrations`, the tables' columns | `migrate_db`, `check_schema` | done once, serialised between deployments, before anything is served |
| Instructor page (`static/admin.js`) | session, poll generation, saved session | start, end, poll, restore | shows the code of its session and drops it only when it has ended |
| Records page (`static/records.js`) | selection, drawn tables, one timer | select, decide, correct, refresh | shows the attendance of what is selected, and goes on refreshing it |
| Check-in page (`static/checkin.js`) | its CSRF value | one scan, joins, logout | acts for the student it shows; its messages are true |

The components meet in six places. Scans, corrections and ends of one session
queue for `SELECT ... FOR UPDATE` on its row and hold it until they commit. Scans
and the rotator meet in the code and in `active_sessions`, read by one Lua script.
Rotators of different instances meet in `lock:<session>`, a lease that is taken
again by whoever holds it and never released. Ends and rotators meet in Redis
without any lock. Joins and decisions meet in the row of an enrollment and its unique
index; callbacks and operators in the row of a user. Deployments meet requests in the tables.

## Modules

| Module | Models |
| --- | --- |
| `Ledger` | What is promised: the three tables changed by atomic transactions, no locks, no Redis, no requests in flight. |
| `Attendance` | The handlers of `/scan`, `/session/start`, `/session/end`, `mark_present` and `void_attendance`, one action per step between two awaits, against Postgres with its row lock and Redis with its keys. |
| `MCAttendance` | Its instances for TLC. |
| `AttendanceProofs` | Its invariant and theorems. |
| `TokenRotation` | `rotate_tokens` and the Redis parts of start and end in several instances, with TTLs, due times, sleeps and stalls. |
| `MCTokenRotation` | Its instances for TLC. |
| `TokenRotationProofs` | Its lease invariant and theorems. |
| `RotationTimingProofs` | Its invariants and theorems against the clock. |
| `AdminPage` | The instructor's page: clicks, reloads, its polls of `/current` and the answers, late or failed. |
| `MCAdminPage` | Its instances for TLC. |
| `AdminPageProofs` | Its invariant and theorems. |
| `Enrollment` | `/courses`, `/join` and the owner's decisions, one action per step between two awaits. |
| `EnrollmentProofs` | Its invariant and theorems. |
| `Migration` | `migrate_db` and the start of instances, for images of any version. |
| `Service` | `Enrollment` and `Migration` together: an upgrade under the requests, and its refinement to `Enrollment` alone. |
| `MCService` | Its instance for TLC. |
| `ServiceProofs` | The invariant of both, the refinement and its theorems. |
| `SignIn` | The OIDC callback, `manage_user`, and the requests of one browser's tabs. |
| `MCSignIn` | Its instance for TLC. |
| `SignInProofs` | Its invariant and theorems. |
| `RecordsPage` | The records page: selections, its calls and their answers, its refresh timer. |
| `MCRecordsPage` | Its instance for TLC. |
| `RecordsPageProofs` | Its theorems. |

### Attendance

A request `r` is used once: `req[r]` is its input, `pc[r]` its next step,
`result[r]` what it has decided, `seen[r]` the attendance row a correction read.
The steps of a scan are

    lock -> enroll -> claim -> insert -> log -> done
                                  \-> expired -> done

`lock` is `with_for_update`, which keeps the row until the commit at the end of
`log`; refusals go straight to `log`, which writes the audit row. `expired` is what
follows the rollback in `record_attendance`: every object of the SQLAlchemy session
has expired, the user of the request's `AuthContext` among them, and the handler
reads `context.user.user_id` synchronously. Corrections go `lock -> roster -> read ->
write`, ends `lock -> close -> zrem -> del`. `lock[s]` is the holder of the session's
row; it is released by commit, by rollback and by the death of the connection.
`row` changes only in the step that commits. A row another transaction has flushed
and not committed is `Flushed`: the unique index makes an insert wait for it.

The step `RotToken` and `RotNext` of a rotator, the two Redis writes of a start and
the two of an end are separate actions, since other instances run between them.
Which of the instances rotates is not modelled here, nor is time: a code and a claim
may expire at any moment. `Faulty` allows handlers to abort at any step (an
exception from Postgres or Redis, a crash) and Redis to lose its data.

### TokenRotation

Times are countdowns; `Tick` takes one unit off all of them. An instance is one event
loop: `rotate_tokens` and the Redis writes of the handlers are synchronous, so one of
them runs at a time, and `spent[i]` is how long it has been running. `MaxStall` bounds
that. A rotator whose sleep is over queues behind everything that is ready by then: tails,
other coroutines, callbacks of I/O. Any number of them may run first, each for up to a
stall; `MaxLag` bounds what they take together, and `slept[i]` counts the sleep and the wait.
`opener[s]` and `closer[s]` are handlers that have committed and have their
Redis writes before them, at most `MaxEnds` ends of one session in one instance; a crash
forgets them.

The lock is `lease[s]` and `owner[s]`. `owner` is the instance's name (`HOSTNAME`),
which survives a restart, so an instance takes its own lease again at once.

### AdminPage

`session`, `gen` and `timer` are the page's `session`, `pollGeneration` and `pollTimer`;
`saved` is `localStorage`; `qr` is the session whose code is on the screen. A `pollCurrent`
that waits for its answer is a record in `polls` with the generation and the id it keeps;
what stands after the `await` is `PollAnswered`, which compares both with the page as it is
by then. `call` is the one start or end under way (`busy`). The server is `status` and
`offered`, the sessions for which `/current` says active. `Lapsing` are the sessions whose
code may be missing for a moment or come back after their end; `rotation_crash` and
`rotation_zombie` show that both happen. `NoGap` and one instance per session are what
keep a session out of `Lapsing`. Starts and ends elsewhere are other pages, and calls
this page made before it was reloaded. The browser's storage is taken to work.

### Enrollment

`row` is `enrollments.status` of a course and a user, `log` the audit rows of the decisions
about them. A join goes `course -> read -> flush -> commit`: it reads without a lock, and
its INSERT or UPDATE, sent by the commit, waits for whoever has written or locked the row.
A decision goes `course -> decide -> commit` and holds the row from its read on. The
unique constraint makes the second of two first joins wait and then fail (`JoinConflict`). `since`
is history: the decisions there were when a join read the row. `legacy` are the enrollments
from before there was a status: the migration declares them approved, without a decision.

### Migration and Service

An image is its `MIGRATION_VERSION`. The repository has version 1; what its code does with a
newer or an older database is modelled by letting later versions exist, whose `migrate_db` adds what is
missing of theirs. One run of `migrate_db` is one transaction: `Lock` is
`pg_advisory_xact_lock`, `Leave` both early ends, `Alter` the statements, which nobody sees
before `Commit`. `columns` are the versions whose columns exist. `Boot` is `lifespan` with
its `check_schema`; a failing check keeps the instance down.

`Service` conjoins the two. `DeploymentStep` is a step of `Migration` which, when it adds
the columns of version 1, gives every enrollment the default status (`Backfilled`);
`RequestStep` is one of `Enrollment`, while some instance serves. When it goes away the
requests under way abort. `E` is `Enrollment` with `row` read as already migrated, and
`ImplementsEnrollment` says that the composition is a behaviour of it: deployments are
stuttering steps.

### SignIn

A callback goes `email -> insert -> store -> send`, or from `Find` straight to `store`;
`claims` are what the provider said of the person. A callback is the name of what it makes,
the account, the session token and the CSRF value of that session: all are fresh in the
code. An identity is one value, the subject together with its issuer: all are of the one provider
the application is configured with. With a second provider, two `link-identity` of one account could mix
their columns (`manage_user.py:21`). `account` has both unique indexes, which `Insert` and `CommandCommit` obey. A command of `manage_user`
keeps the row it read, and `Written` is what SQLAlchemy's UPDATE writes: the changed columns
only. `cookie` is the browser's, shared by its tabs, while `csrf` is
what each tab has been told. A `post` carries both as they were when it was sent; `Auth`,
`Act` and `Logout` are its handler. `Send` and `LoggedOut` change the cookie or are lost.
`held`, `before` and `signedOut` are history.

### RecordsPage

A call is the chain of awaits that a click or the timer starts, with the course or session
it was started for. `open` and `audit` are `selectSession` before and after its attendance
arrived, `refresh` the callback of the timer, `decide` and `reload` `decideEnrollment`, `correct`
and `redraw` `correctAttendance`. `table` is the session whose rows are drawn, which stays when
another one is selected; `timer` is the session the one timer is for. `edition` counts the
changes of a session's attendance on the server; an answer carries the one at which it was
served (`Serve`), `shown` is the one drawn.

## Runs

| Run | Configuration | Question | Distinct states |
| --- | --- | --- | --- |
| `attendance_faults` | 1 session, 1 student, 2 codes, 3 requests, `Faulty` | Is every step one transaction of `Ledger`, is a student accepted once, does the audit balance, does a correction overwrite what it read? | 725,678 |
| `attendance_sessions` | 2 sessions, requests about one of them, 1 student, 2 codes, 2 requests, no faults | Is a scan bound to its session's code, is a duplicate recorded, is every request answered? | 1,445,724 |
| `rotation_steady` | 2 sessions, 2 instances, no faults; codes, sleeps and stalls of 1 unit, waits of up to 2, a grace of just two stalls, a sleep and a wait | One rotator, no early replacement, no gap? | 6,512,195 |
| `rotation_crash` | 1 session, 2 instances, 2 faults, stalls just below the lease, 2 ends at once | One rotator still; does the code come back? | 772,748 |
| `admin_page` | 2 sessions, one of them lapsing, 3 calls in flight, 4 clicks or reloads, 2 errors | Is the code on the screen the session's, is there one loop, is a session kept until it has ended and left then? | 310,480 |
| `service` | 1 course, 1 student, 1 instructor, 4 requests, `Faulty`; 2 deployments of images 1 and 2, 1 instance | Does only a decision enroll, is the audit one history, are answers true, what undoes an approval? Are deployments invisible to requests? | 358,170 |
| `sign_in` | 2 identities, 2 emails, 1 old account; 2 callbacks, 2 commands, 1 tab with 2 requests | Has a person one account, is it their own, is a refusal justified, is a logout final, does a request act for whom the page shows? | 2,198,566 |
| `records_page` | 1 course, 2 sessions, 3 calls in flight, 4 clicks, 1 error, 1 change per session | Is the table the selected session's, does refreshing go on, does the table settle on the latest attendance? | 691,986 |
| `attendance_claim` | 1 session, 1 student, 2 requests, `Faulty` | violated: see finding 3 | |
| `attendance_backstop` | the same without faults | violated: see finding 2 | |
| `rotation_zombie` | 1 session, 2 instances, no faults | violated: see finding 1 | |
| `admin_lapse` | 1 session, lapsing; 2 calls, 1 click, no errors | violated: see finding 4 | |

The bounds. One session and one student are enough for what happens on one lock and
one row: no action reads the rows of another pair. Three requests give a scan, a
second one and a correction or an end in any order, which is one more than any two
racing handlers. Two codes are one that is live and one that replaces it, or
one of each session. The second session is there for its codes and, in the rotation, for batches
and for tails that delay a rotator; requests about it (`Target`) would contend for another lock. Requests, sessions and codes run out, so these
runs do not check deadlock; the rotation never stops, and its runs do. In the
rotation the units are small (a code of one or two units), so that a stall, a sleep
and a grace are of the sizes they have in the code relative to each other; a wait of two
stalls is the first that one section alone cannot cause; with a grace one unit
smaller TLC finds a gap;
`TokenRotationProofs` and `RotationTimingProofs` remove the numbers. On the page, three calls of `/current` are one
of the loop and two that are not wanted any more; four clicks are a start, an end, a start
and an end, with reloads in place of any. For an enrollment, four requests are a join, a
removal, and then a join and an approval that race; one instance is enough, since an instance
is only a version and requests do not belong to one. Two deployments are two of
one image that race, or an upgrade. Two callbacks and two commands are any pair that races
for one account; the old account is one that a command can link. Of the two requests one can be a
logout, and the one tab meets other users through callbacks of this browser, which need no
tab. On the records page two sessions are the one selected and the one before; three calls are what one
click leaves in flight, a refresh and one more.

Fairness. `Attendance!FairSpec` has weak fairness of each request's handler, which the
event loop and the thread pool give to a coroutine that can run. That is enough for a
lock too: a handler that waits for it may lose it to another, but each request takes
it once. There is no fairness for starts, codes, expiry or new requests.
`TokenRotation!FairSpec` has weak fairness of the clock and of each event loop that is
up. There is none for restarting an instance (only the production compose file
restarts containers), and `CodeReturns` asks for nothing when all are down. `AdminPage!FairSpec` has weak fairness
of the page's timers and callbacks and of the server's answers to a poll and to an end; there
is none for what the instructor does, for errors or for starts. `RecordsPage!FairSpec` has it of
the timer, of each call's answer in the server and in the page, and of nothing else.

## What the runs found

1. **An ended session comes back** (`main.py:54`). Instance A wins the session's lock;
   instance B answers `/session/end` and removes the session's keys; A sets a code and
   adds the session to `active_sessions` again. It is rotated for ever after, and
   `/current` says it is active. Scans are still refused, because Postgres has the
   session as ended (`ImplementsLedger` holds). With one instance it cannot happen.
2. **The durable duplicate guard answers with an error** (`scans.py:58`). When the claim
   is gone and the unique constraint refuses the row, for instance because an
   instructor marked the student present, the rollback expires the user and the
   handler raises. Nothing wrong is recorded, but the student sees a failure and no
   audit row is written.
3. **A duplicate without a record** (`scans.py:30`). The claim is set before the row is
   written and is not taken back. A scan that fails in between, and its retry before the
   claim expires, leave the student absent and told that they were recorded.
   `DuplicateMeansRecorded` holds without faults.
4. **An open session is dropped** (`admin.js:111`). The page takes one answer without a code
   for the end of the session and forgets it, in the browser's storage too. After a crash
   between winning the lease and writing the code there is a time without one, since the
   lease outlives the code. The session stays open and nothing in the page leads back to it.

What the models also have, and no statement of the code forbids:

- `README.md:45` says the lock lets exactly one instance win each round. Nothing bounds the time
  between winning the lease and writing the code, so an instance that stalls for the whole lease
  shares the round with the next winner. `RotatorIsAlone` proves that this bound is all it needs.
- A join that read a removed enrollment and writes after the owner has approved it puts the
  student back to pending (`records.py:126`). `ApprovalKept` says that no other join does.
- Of two callbacks of one new person, the later may find the account of the earlier by its
  email and tell the person to ask an administrator to link it (`main.py:244`), though it is
  linked; signing in again works.
- The check-in page shows the user its HTML was rendered for (`checkin.html:16`), and scans
  with a CSRF value it asks for later: if another user signs in through another tab in between,
  the page shows one and the scan counts for the other. `ActsAsTold` is about `/auth/me`.
- `main.py:259` asks who meets a conflict to sign in again. `RetryHelps` says that this works
  unless an operator relinks an account meanwhile: with three commands one can link the identity, one
  take it off again, and one give it back between the lookup and the insert of the second
  callback, which then has a conflict of its own.
- A logout's `delete_cookie` that arrives after a new sign-in in another tab removes the new
  cookie. The new session stays in Redis until it expires.
- On the records page, the end of a call of a session that is not selected any more
  takes the timer (`records.js:131`), and the first load of a session that fails sets none
  (`records.js:126`): refreshing stops until the session is selected again. `LoopKept` says that nothing else stops it.
- Until the first answer for a session, and for good if it fails, the rows of the session before stay
  under the new title, with buttons that correct the old one. A late roster or list of sessions
  is drawn under a course selected since (`records.js:76`, `records.js:109`).

## Proofs

Every safety property and every action property that a passing run checks is also a theorem,
for all values of the constants. The assumptions on them are named in the modules that declare them:
`None` is a value of its own, bounds are numbers, sets that the code keeps apart are
apart. Only the rotation needs more, and its theorems say what. Each inductive
invariant was first checked by TLC on the instance of the run.

### Attendance

- `Invariant`, `TypeCorrect`: the inductive invariant `IInv` and the types. `IInv` says of
  every handler what it relies on between two steps. `LockOK`: from `enroll` to its
  commit it holds the row's lock, and the session it found active still is. `DataOK`: the
  row it is about to insert or overwrite is as it read it; the code it claimed with was
  minted for the session. `ClaimsBacked`: without faults a claim belongs to a row or to
  the one scan that is inserting it. None of the properties is inductive alone: what
  keeps a scan's session open is the lock, which only `LockOK` speaks of.
- `CorrectionReads`, `TokenBinding`, `DuplicateIsRecorded`: consequences of `IInv`; the
  last one for `~Faulty`, and finding 3 shows why.
- `Refinement`: `Spec => L!Spec`. `NextLedger` has one step per action: most stutter,
  `ScanLog`, `CorrectionWrite` and `EndClose` are the ledger's transactions, and `IInv`
  gives their guards.
- `OnlyOnce`, `Balance`: from `Refinement`, with an invariant of the ledger
  (`LedgerInv`: an accepted scan has a row; the entries balance).

### The rotation

`TokenRotationProofs` assumes that `MaxStall` is below `ReloadTime + Grace` and below
`DefaultReload + Grace`, the two lengths a lease can have:

- `LeaseInvariant`: `RInv`. An instance that won a lock owns the lease, and what is left of
  it and what the instance has spent add up to at least the lease's length. The second
  part is what makes it inductive: `Tick` moves one unit from one to the other, so a
  lease outlasts the stall.
- `RotatorIsAlone`, `RotationTypes`: `OneRotator` and the types.

`RotationTimingProofs` extends it. Under the same condition, with crashes and failing commands:

- `DueInvariant`: `DueInv`. A rotator works from the list it read when its iteration began. For
  every session on such a list, `DueOK` says that the session is due again no later than its lease
  runs out, and is due now if the lease is the rotator's own: whoever has rotated it since still has
  the lease. `StartOK` keeps the one other writer of due times, the tail of a start,
  away from sessions that a rotator can have.
- `RotatesWhenDue`: `RotationIsDue`.

For `NoGap` it assumes `MaxFaults = 0` and `2 * MaxStall + MaxSleep <= Grace`, where `MaxSleep` is
`TickInterval + MaxLag`. With the 2 seconds of the TTLs and the sleep of 0.5 s, two stalls and a wait
have 1.5 s. Nothing in the code keeps to that: the wait grows with what an instance has to do, sessions
included, and the theorem says how much of it the grace covers, not that it is covered:

- `GapInvariant`: `GapInv`. `KeysPart` says that without a fault the keys agree with the session: one
  that is on has its reload time in the hash, only ended ones lose keys. `LastsPart` compares countdowns.
  `Late(i)` is the longest until the rotator of `i` reads the due list again (what is left of its
  sleep and its wait, after what is left of its stall), and `Outlasts(n, i, s)`
  says that `n` units are more than `i` needs to come to the session. `LeaseLasts`: the
  owner's lease outlasts the owner, so it never runs out while the session is on and
  nobody else takes over. `CodeLasts`: the code outlasts the owner, or every instance
  while nobody has the lease. `NoGap` needs the leases because a
  code is as old as the last visit of the instance that may rotate it: a lease that ran out would
  let in another one, whose next visit can be late.
- `CodeIsThere`: `NoGap`, for any number of sessions and instances.

### AdminPage

- `PageInvariant`: `AInv`. `PageOK` adds to `OneLoop` that no call is of a later generation than
  the page's and that a call of the page's generation asks for the page's session. `OneLoop`
  alone is not inductive: a restarted loop could meet a call of its own number. `ServerOK`
  says that the page only knows sessions that exist, and that an answer without a code is
  about a session that has ended, unless it lapses.
- `ShowsOwnCode`, `LoopIsOne`, `LeavesEndedOnly`, `PageTypes`: the run's safety properties.

### Enrollment and Service

- `Invariant` of `EnrollmentProofs`: `EInv` adds to the properties that a request takes the
  steps of its operation (`RequestOK`) and that who is about to commit holds the row
  (`CommitOK`): a decision finds the row as it read it, and a join that has missed no decision finds
  it unapproved. A decision's audit entry takes `before` from what it read, so without the lock
  `AuditChain` would not survive its commit.
- `Decided`, `Chain`, `Answers`, `TypeCorrect`: parts of `EInv`. `Approval`: the action property.
- `ServiceInvariant`: `SInv` is `EInv` of the enrollments as migrated, and `DInv`: who has the
  advisory lock has read the versions and nobody has added one since; a version is there
  with all the columns of the images up to it.
- `Implements`: `ServiceSpec => E!Spec`, a step of a migration stuttering, the one that adds
  the status column included, since `Enrollment` has the rows as that step leaves them.
- `ServesWhatIsMigrated`, `NoMigrationRaces` and the `Service...` theorems: the properties of the
  run, those of `Enrollment` through every deployment.

### SignIn

- `Invariant`: `IInv`. `OneAccount` is kept by the unique indexes. `CallbackOK` says how far a callback's
  account, token and answer agree with its step; `Known` that a token is in a
  browser's hands only after it was stored, and whose it is does not change from then on. `RetryOK` has
  what a second callback knows at each lookup: `RetryHelps` speaks of its answer only. What it says of
  `held` is there because an identity can be taken off and given back. `PostOK`: past the CSRF check,
  both tokens of a request are of one session, so it acts for whom its tab was told.
- `Unique`, `Own`, `Refused`, `Retry`, `SignedOut`, `AsTold`, `TypeCorrect`, and `Edited`, the
  action property: what a command writes are changed columns only, so that no other one takes a
  role or a link back.

### RecordsPage

- `TypeCorrect`, `DrawnIsSelected`: the types, with the kinds of calls that carry a course or a
  session, are all that `TableIsSelected` needs to be inductive: each answer is compared with the selection
  as it is when it arrives.
- `Loop`: `LoopKept`, each action in turn.

Only model-checked: the liveness properties (`RequestsFinish`, `CodeReturns`, `EndedIsLeft`,
`SettlesOnLatest`), since fairness is out of the prover's reach. The properties that the code violates
have counterexamples in the runs above.

## Not modelled

- The read-only endpoints, metrics, pages' markup, deployment and seed data.
- Timestamps (`marked_at`, `started_at`, `ends_at`): ending a session twice moves
  `ends_at`, which the models do not show and no step decides on.
- `student_not_found` (`scans.py:46`): the student of a scan is the signed-in user, whose row
  is never deleted.
- A start that dies between its commit and its first Redis writes leaves a session that
  is active in Postgres and in no list in Redis; nothing in the code repairs it, and no
  property says it should be.
- The connection pool. A waiter for the lock holds a connection, and so does the holder,
  which needs no second one.
- On the instructor's page, the live count, the list of courses, logout and a second tab
  that shares the storage. A start whose answer is lost leaves a session no page knows;
  `AdminPage` has the case, and nothing in the code deals with it.
- The redirect to the identity provider and its state cookie, which the library keeps, and
  the routing of pages by role. What the check-in page shows: one message per answer.
- On the records page, the list of courses, the audit list and logout.
- A fresh database whose tables `create_all` makes is one whose migration finds no enrollments;
  the migration's other columns are one set, since nothing tells them apart.
- Ownership of courses: every correction and end in `Attendance` comes from the owner;
  `Enrollment` has the check for decisions.

## Plan

1. `Enrollment` against an abstract register of requests and decisions, in which a late
   join is a step of its own, and the refinement proved as `Refinement` is.
2. `AdminPage` without `Lapsing`, from `NoGap`: the two models share `/current`, and the assumption
   on one is a theorem about the other.
3. `OneRotator` with failing commands against the weakest bound on stalls, that of the session's own lease.
