----------------------------- MODULE RecordsPage -----------------------------
(***************************************************************************)
(* The records page (static/records.js): the course and the session that   *)
(* are selected, what is drawn for them, the one refresh timer, and calls  *)
(* whose answers come in any order, late or not at all.                    *)
(*                                                                         *)
(* A call is the chain of awaits that a click or the timer starts; it      *)
(* keeps the course or the session it was started for.  Of the attendance  *)
(* only its edition matters, which every scan and correction makes a new   *)
(* one: an answer brings that of the moment it was served.                 *)
(***************************************************************************)
EXTENDS FiniteSets, Integers

CONSTANTS
    Course,
    Number,     \* sessions of a course
    Slot,       \* calls in flight
    None,
    MaxActs,    \* clicks
    MaxErrors,  \* failing calls
    MaxEdition  \* scans and corrections in a session

Session == Course \X Number

OfCourse == {"roster", "sessions", "decide", "reload"}
OfSession == {"open", "audit", "refresh", "correct", "redraw"}
Edition == 0..MaxEdition
Call ==
    [kind : OfCourse, of : Course, at : {None}]
    \cup [kind : OfSession, of : Session, at : Edition \cup {None}]

ASSUME PageAssumption ==
    /\ None \notin Course \cup Session \cup Call
    /\ MaxActs \in Nat
    /\ MaxErrors \in Nat
    /\ MaxEdition \in Nat
    /\ None \notin Nat

VARIABLES
    edition,    \* the server: a session's attendance
    course,     \* courseSelect
    session,    \* selectedSession
    roster,     \* the course whose roster is drawn
    list,       \* the course whose sessions are listed
    table,      \* the session whose attendance is drawn
    shown,      \* the edition drawn
    timer,      \* the session refreshTimer is for
    call,       \* the calls in flight
    acts,       \* clicks made
    errors,     \* calls failed
    loaded      \* history: the selected session has been drawn

attendance == <<table, shown, loaded>>
drawn == <<roster, list, attendance>>
vars == <<edition, course, session, drawn, timer, call, acts, errors>>

TypeOK ==
    /\ edition \in [Session -> Edition]
    /\ course \in Course \cup {None}
    /\ session \in Session \cup {None}
    /\ roster \in Course \cup {None}
    /\ list \in Course \cup {None}
    /\ table \in Session \cup {None}
    /\ shown \in Edition
    /\ timer \in Session \cup {None}
    /\ call \in [Slot -> Call \cup {None}]
    /\ acts \in 0..MaxActs
    /\ errors \in 0..MaxErrors
    /\ loaded \in BOOLEAN

Init ==
    /\ edition = [s \in Session |-> 0]
    /\ course = None /\ session = None
    /\ roster = None /\ list = None /\ table = None /\ shown = 0
    /\ timer = None
    /\ call = [k \in Slot |-> None]
    /\ acts = 0 /\ errors = 0
    /\ loaded = FALSE

-----------------------------------------------------------------------------
(* Building blocks. *)

Asked(kind, x) == [kind |-> kind, of |-> x, at |-> None]

Under(k, kind) == call[k] # None /\ call[k].kind = kind

(* The next await of the same call, or its end. *)
Then(k, kind, x) == call' = [call EXCEPT ![k] = Asked(kind, x)]
Over(k) == call' = [call EXCEPT ![k] = None]

Act == acts < MaxActs /\ acts' = acts + 1

(* loadAttendance without its guard *)
DrawTableOfAny(k) ==
    /\ call[k].at # None
    /\ table' = call[k].of
    /\ shown' = call[k].at
    /\ loaded' = TRUE

(* loadAttendance draws for the selected session only. *)
DrawTable(k) ==
    /\ call[k].at # None
    /\ IF session = call[k].of
         THEN table' = call[k].of /\ shown' = call[k].at /\ loaded' = TRUE
         ELSE UNCHANGED attendance

-----------------------------------------------------------------------------
(* Clicks. *)

(* selectCourse, by hand or after a course was created *)
SelectCourse(c, j, k) ==
    /\ Act
    /\ j # k /\ call[j] = None /\ call[k] = None
    /\ course' = c
    /\ session' = None /\ timer' = None
    /\ roster' = None /\ list' = None
    /\ loaded' = FALSE
    /\ call' = [call EXCEPT ![j] = Asked("roster", c), ![k] = Asked("sessions", c)]
    /\ UNCHANGED <<edition, table, shown, errors>>

(* selectCourse when "Select a course" is chosen *)
SelectNone ==
    /\ Act
    /\ course # None
    /\ course' = None
    /\ session' = None /\ timer' = None
    /\ roster' = None /\ list' = None
    /\ loaded' = FALSE
    /\ UNCHANGED <<edition, table, shown, call, errors>>

(* selectSession.  The table keeps what it shows until the answer. *)
SelectSession(s, k) ==
    /\ Act
    /\ call[k] = None
    /\ s[1] = list
    /\ session' = s /\ timer' = None
    /\ loaded' = FALSE
    /\ Then(k, "open", s)
    /\ UNCHANGED <<edition, course, roster, list, table, shown, errors>>

(* The course of the decision is taken from what is selected. *)
DecideOfSession(k) ==
    /\ Act
    /\ call[k] = None /\ roster # None
    /\ Then(k, "decide", session)
    /\ UNCHANGED <<edition, course, session, drawn, timer, errors>>

(* decideEnrollment: the button knows the course it was drawn for. *)
Decide(k) ==
    /\ Act
    /\ call[k] = None /\ roster # None
    /\ Then(k, "decide", roster)
    /\ UNCHANGED <<edition, course, session, drawn, timer, errors>>

(* correctAttendance; the section is hidden while no session is selected. *)
Correct(k) ==
    /\ Act
    /\ call[k] = None /\ session # None /\ table # None
    /\ Then(k, "correct", table)
    /\ UNCHANGED <<edition, course, session, drawn, timer, errors>>

-----------------------------------------------------------------------------
(* The server. *)

(* A scan, or a correction by somebody else. *)
Scan(s) ==
    /\ edition[s] < MaxEdition
    /\ edition' = [edition EXCEPT ![s] = @ + 1]
    /\ UNCHANGED <<course, session, drawn, timer, call, acts, errors>>

(* attendance_data *)
Serve(k) ==
    /\ Under(k, "open") \/ Under(k, "refresh") \/ Under(k, "redraw")
    /\ call[k].at = None
    /\ call' = [call EXCEPT ![k].at = edition[call[k].of]]
    /\ UNCHANGED <<edition, course, session, drawn, timer, acts, errors>>

(* mark_present, void_attendance *)
ServeCorrection(k) ==
    LET s == call[k].of
    IN  /\ Under(k, "correct")
        /\ call[k].at = None
        /\ edition[s] < MaxEdition
        /\ edition' = [edition EXCEPT ![s] = @ + 1]
        /\ call' = [call EXCEPT ![k].at = edition'[s]]
        /\ UNCHANGED <<course, session, drawn, timer, acts, errors>>

-----------------------------------------------------------------------------
(* The timer and the answers. *)

(* The callback of scheduleRefresh. *)
Fire(k) ==
    /\ timer # None
    /\ timer' = None
    /\ IF session = timer
         THEN call[k] = None /\ Then(k, "refresh", timer)
         ELSE UNCHANGED call
    /\ UNCHANGED <<edition, course, session, drawn, acts, errors>>

RosterAnswered(k) ==
    /\ Under(k, "roster")
    /\ roster' = call[k].of
    /\ Over(k)
    /\ UNCHANGED <<edition, course, session, list, attendance, timer, acts, errors>>

SessionsAnswered(k) ==
    /\ Under(k, "sessions")
    /\ list' = call[k].of
    /\ Over(k)
    /\ UNCHANGED <<edition, course, session, roster, attendance, timer, acts, errors>>

DecideAnswered(k) ==
    /\ Under(k, "decide")
    /\ Then(k, "reload", call[k].of)
    /\ UNCHANGED <<edition, course, session, drawn, timer, acts, errors>>

(* The roster is drawn again, then the attendance of what is selected. *)
ReloadAnswered(k) ==
    /\ Under(k, "reload")
    /\ roster' = call[k].of
    /\ IF session = None THEN Over(k) ELSE Then(k, "redraw", session)
    /\ UNCHANGED <<edition, course, session, list, attendance, timer, acts, errors>>

CorrectAnswered(k) ==
    /\ Under(k, "correct")
    /\ call[k].at # None
    /\ Then(k, "redraw", call[k].of)
    /\ UNCHANGED <<edition, course, session, drawn, timer, acts, errors>>

RedrawAnswered(k) ==
    /\ Under(k, "redraw")
    /\ DrawTable(k)
    /\ Over(k)
    /\ UNCHANGED <<edition, course, session, roster, list, timer, acts, errors>>

(* The audit may come before; nothing but the end of both is awaited. *)
OpenAnswered(k) ==
    /\ Under(k, "open")
    /\ DrawTable(k)
    /\ Then(k, "audit", call[k].of)
    /\ UNCHANGED <<edition, course, session, roster, list, timer, acts, errors>>

(* scheduleRefresh replaces whatever timer there is. *)
AuditAnswered(k) ==
    /\ Under(k, "audit")
    /\ timer' = call[k].of
    /\ Over(k)
    /\ UNCHANGED <<edition, course, session, drawn, acts, errors>>

(* What is drawn for the session already stays. *)
RefreshAnsweredOnce(k) ==
    /\ Under(k, "refresh")
    /\ call[k].at # None
    /\ IF loaded THEN UNCHANGED attendance ELSE DrawTable(k)
    /\ timer' = call[k].of
    /\ Over(k)
    /\ UNCHANGED <<edition, course, session, roster, list, acts, errors>>

RefreshAnswered(k) ==
    /\ Under(k, "refresh")
    /\ DrawTable(k)
    /\ timer' = call[k].of
    /\ Over(k)
    /\ UNCHANGED <<edition, course, session, roster, list, acts, errors>>

(* The attendance of a session that was opened may still come when its     *)
(* audit has failed, but nothing is scheduled after it.                    *)
AuditFailed(k) ==
    /\ errors < MaxErrors /\ errors' = errors + 1
    /\ Under(k, "open")
    /\ call' = [call EXCEPT ![k].kind = "redraw"]
    /\ UNCHANGED <<edition, course, session, drawn, timer, acts>>

(* A refresh that fails ends the loop. *)
FailNotScheduled(k) ==
    /\ errors < MaxErrors /\ errors' = errors + 1
    /\ call[k] # None
    /\ Over(k)
    /\ UNCHANGED <<edition, course, session, drawn, timer, acts>>

(* An error ends the call, but for a refresh, which is scheduled again. *)
Fail(k) ==
    /\ errors < MaxErrors /\ errors' = errors + 1
    /\ call[k] # None
    /\ timer' = IF Under(k, "refresh") THEN call[k].of ELSE timer
    /\ Over(k)
    /\ UNCHANGED <<edition, course, session, drawn, acts>>

Answered(k) ==
    \/ RosterAnswered(k) \/ SessionsAnswered(k)
    \/ DecideAnswered(k) \/ ReloadAnswered(k)
    \/ CorrectAnswered(k) \/ RedrawAnswered(k)
    \/ OpenAnswered(k) \/ AuditAnswered(k) \/ RefreshAnswered(k)

Next ==
    \/ \E s \in Session : Scan(s)
    \/ SelectNone
    \/ \E c \in Course, j, k \in Slot : SelectCourse(c, j, k)
    \/ \E k \in Slot :
        \/ \E s \in Session : SelectSession(s, k)
        \/ Decide(k) \/ Correct(k) \/ Serve(k) \/ ServeCorrection(k)
        \/ Fire(k) \/ Answered(k) \/ Fail(k) \/ AuditFailed(k)

Spec == Init /\ [][Next]_vars

(* The browser's timers and callbacks run, and the server serves what it   *)
(* is asked for.                                                           *)
FairSpec ==
    /\ Spec
    /\ WF_vars(\E k \in Slot : Fire(k))
    /\ \A k \in Slot : WF_vars(Serve(k) \/ ServeCorrection(k)) /\ WF_vars(Answered(k))

-----------------------------------------------------------------------------
(* Properties.                                                             *)

(* Whatever answers are late, the rows drawn since a session was selected  *)
(* are its own, and so are the corrections that their buttons send.  Until *)
(* its first answer the rows are those of the session before.              *)
TableIsSelected == session # None /\ loaded => table = session

(* The selected session has a timer, or a call that will set it. *)
Looping ==
    \/ timer = session
    \/ \E k \in Slot : call[k] # None /\ call[k].of = session /\ call[k].kind \in {"open", "audit", "refresh"}

(* "its live roster" (records.html:41): the refreshing of the selected     *)
(* session survives failing refreshes.  Two things stop it: its opening    *)
(* fails, or a call of another session comes to its end and takes the      *)
(* timer, since scheduleRefresh does not look at what is selected.         *)
LoopKept ==
    [][session # None /\ session' = session /\ Looping /\ ~Looping' =>
        \E k \in Slot :
            /\ call[k] # None /\ call'[k] # call[k]
            /\ \/ call[k].of # session /\ call[k].kind \in {"audit", "refresh"}
               \/ call[k].kind \in {"open", "audit"} /\ errors' > errors]_vars

(* However answers overtake each other, the table ends up with the latest  *)
(* attendance of the session the page stays on, as long as it refreshes.   *)
SettlesOnLatest ==
    \A s \in Session :
        <>[](session = s /\ Looping) => <>[](table = s /\ shown = edition[s])
=============================================================================
