-------------------------- MODULE RecordsPageProofs --------------------------
(***************************************************************************)
(* Proofs about RecordsPage, for every number of courses, sessions, calls  *)
(* in flight, clicks and failing calls.                                    *)
(***************************************************************************)
EXTENDS RecordsPage, TLAPS

USE PageAssumption DEF attendance, drawn, vars

-----------------------------------------------------------------------------
(* Lemmas about calls.                                                     *)

LEMMA CallOf ==
    ASSUME TypeOK, NEW k \in Slot, call[k] # None
    PROVE  /\ call[k] \in Call
           /\ call[k].kind \in OfCourse => call[k].of \in Course /\ call[k].at = None
           /\ call[k].kind \in OfSession =>
                 call[k].of \in Session /\ call[k].at \in Edition \cup {None}
           /\ call[k].kind \in OfCourse \cup OfSession
  BY DEF TypeOK, Call, OfCourse, OfSession

LEMMA AskedCall ==
    /\ \A kind \in OfCourse, c \in Course : Asked(kind, c) \in Call
    /\ \A kind \in OfSession, s \in Session : Asked(kind, s) \in Call
  BY DEF Asked, Call

LEMMA ServedCall ==
    ASSUME NEW x \in Call, x.kind \in OfSession, NEW e \in Edition
    PROVE  [x EXCEPT !.at = e] \in Call
  BY DEF Call, OfCourse, OfSession

LEMMA EditionType == 0 \in Edition /\ \A e \in Edition : e < MaxEdition => e + 1 \in Edition
  BY DEF Edition

(* The calls after a step. *)
LEMMA ThenType ==
    ASSUME TypeOK, NEW k \in Slot, NEW kind, NEW x,
           (kind \in OfCourse /\ x \in Course) \/ (kind \in OfSession /\ x \in Session),
           Then(k, kind, x)
    PROVE  call' \in [Slot -> Call \cup {None}]
<1>1. Asked(kind, x) \in Call
  BY AskedCall
<1> QED BY <1>1 DEF TypeOK, Then

LEMMA OverType ==
    ASSUME TypeOK, NEW k \in Slot, Over(k)
    PROVE  call' \in [Slot -> Call \cup {None}]
  BY DEF TypeOK, Over

-----------------------------------------------------------------------------
(* Type correctness, one lemma per group of actions.                       *)

LEMMA ClickType ==
    ASSUME TypeOK, NEW k \in Slot,
           \/ \E s \in Session : SelectSession(s, k)
           \/ Decide(k) \/ Correct(k)
    PROVE  TypeOK'
<1>1. acts' \in 0..MaxActs
  BY DEF TypeOK, SelectSession, Decide, Correct, Act
<1>2. ASSUME NEW s \in Session, SelectSession(s, k) PROVE TypeOK'
  <2>1. call' \in [Slot -> Call \cup {None}]
    BY <1>2, ThenType DEF SelectSession, OfSession
  <2> QED BY <1>1, <1>2, <2>1 DEF TypeOK, SelectSession
<1>3. ASSUME Decide(k) PROVE TypeOK'
  <2>1. call' \in [Slot -> Call \cup {None}]
    BY <1>3, ThenType DEF TypeOK, Decide, OfCourse
  <2> QED BY <1>1, <1>3, <2>1 DEF TypeOK, Decide
<1>4. ASSUME Correct(k) PROVE TypeOK'
  <2>1. call' \in [Slot -> Call \cup {None}]
    BY <1>4, ThenType DEF TypeOK, Correct, OfSession
  <2> QED BY <1>1, <1>4, <2>1 DEF TypeOK, Correct
<1> QED BY <1>2, <1>3, <1>4

LEMMA SelectType ==
    ASSUME TypeOK,
           SelectNone \/ \E c \in Course, j, k \in Slot : SelectCourse(c, j, k)
    PROVE  TypeOK'
<1>1. ASSUME NEW c \in Course, NEW j \in Slot, NEW k \in Slot, SelectCourse(c, j, k)
      PROVE  TypeOK'
  <2>1. Asked("roster", c) \in Call /\ Asked("sessions", c) \in Call
    BY AskedCall DEF OfCourse
  <2>2. call' \in [Slot -> Call \cup {None}]
    BY <1>1, <2>1 DEF TypeOK, SelectCourse
  <2>3. acts' \in 0..MaxActs
    BY <1>1 DEF TypeOK, SelectCourse, Act
  <2> QED BY <1>1, <2>2, <2>3 DEF TypeOK, SelectCourse
<1>2. ASSUME SelectNone PROVE TypeOK'
  <2>1. acts' \in 0..MaxActs
    BY <1>2 DEF TypeOK, SelectNone, Act
  <2> QED BY <1>2, <2>1 DEF TypeOK, SelectNone
<1> QED BY <1>1, <1>2

LEMMA ServerType ==
    ASSUME TypeOK,
           \/ \E s \in Session : Scan(s)
           \/ \E k \in Slot : Serve(k) \/ ServeCorrection(k)
    PROVE  TypeOK'
<1>1. ASSUME NEW s \in Session, Scan(s) PROVE TypeOK'
  <2>1. edition[s] + 1 \in Edition
    BY <1>1, EditionType DEF TypeOK, Scan
  <2> QED BY <1>1, <2>1 DEF TypeOK, Scan
<1>2. ASSUME NEW k \in Slot, Serve(k) PROVE TypeOK'
  <2>1. call[k] \in Call /\ call[k].kind \in OfSession /\ call[k].of \in Session
    BY <1>2, CallOf DEF Serve, Under, OfSession
  <2>2. [call[k] EXCEPT !.at = edition[call[k].of]] \in Call
    BY <2>1, ServedCall DEF TypeOK
  <2> QED BY <1>2, <2>2 DEF TypeOK, Serve
<1>3. ASSUME NEW k \in Slot, ServeCorrection(k) PROVE TypeOK'
  <2>1. call[k] \in Call /\ call[k].kind \in OfSession /\ call[k].of \in Session
    BY <1>3, CallOf DEF ServeCorrection, Under, OfSession
  <2>2. edition' \in [Session -> Edition] /\ edition'[call[k].of] \in Edition
    BY <1>3, <2>1, EditionType DEF TypeOK, ServeCorrection
  <2>3. [call[k] EXCEPT !.at = edition'[call[k].of]] \in Call
    BY <2>1, <2>2, ServedCall
  <2> QED BY <1>3, <2>2, <2>3 DEF TypeOK, ServeCorrection
<1> QED BY <1>1, <1>2, <1>3

LEMMA AnswerType ==
    ASSUME TypeOK, NEW k \in Slot, Answered(k)
    PROVE  TypeOK'
<1>1. call[k] # None
  BY DEF Answered, RosterAnswered, SessionsAnswered, DecideAnswered, ReloadAnswered,
         CorrectAnswered, RedrawAnswered, OpenAnswered, AuditAnswered, RefreshAnswered, Under
<1>2. ASSUME DrawTable(k), call[k].kind \in OfSession
      PROVE  table' \in Session \cup {None} /\ shown' \in Edition /\ loaded' \in BOOLEAN
  BY <1>1, <1>2, CallOf DEF TypeOK, DrawTable
<1>3. ASSUME RosterAnswered(k) \/ SessionsAnswered(k) PROVE TypeOK'
  BY <1>1, <1>3, CallOf, OverType DEF TypeOK, RosterAnswered, SessionsAnswered, Under, OfCourse
<1>4. ASSUME DecideAnswered(k) PROVE TypeOK'
  <2>1. call' \in [Slot -> Call \cup {None}]
    BY <1>1, <1>4, CallOf, ThenType DEF DecideAnswered, Under, OfCourse
  <2> QED BY <1>4, <2>1 DEF TypeOK, DecideAnswered
<1>5. ASSUME ReloadAnswered(k) PROVE TypeOK'
  <2>1. call[k].of \in Course
    BY <1>1, <1>5, CallOf DEF ReloadAnswered, Under, OfCourse
  <2>2. call' \in [Slot -> Call \cup {None}]
    BY <1>5, OverType, ThenType DEF TypeOK, ReloadAnswered, OfSession
  <2> QED BY <1>5, <2>1, <2>2 DEF TypeOK, ReloadAnswered
<1>6. ASSUME CorrectAnswered(k) PROVE TypeOK'
  <2>1. call' \in [Slot -> Call \cup {None}]
    BY <1>1, <1>6, CallOf, ThenType DEF CorrectAnswered, Under, OfSession
  <2> QED BY <1>6, <2>1 DEF TypeOK, CorrectAnswered
<1>7. ASSUME RedrawAnswered(k) PROVE TypeOK'
  BY <1>2, <1>7, OverType DEF TypeOK, RedrawAnswered, Under, OfSession
<1>8. ASSUME OpenAnswered(k) PROVE TypeOK'
  <2>1. call' \in [Slot -> Call \cup {None}]
    BY <1>1, <1>8, CallOf, ThenType DEF OpenAnswered, Under, OfSession
  <2> QED BY <1>2, <1>8, <2>1 DEF TypeOK, OpenAnswered, Under, OfSession
<1>9. ASSUME AuditAnswered(k) PROVE TypeOK'
  BY <1>1, <1>9, CallOf, OverType DEF TypeOK, AuditAnswered, Under, OfSession
<1>10. ASSUME RefreshAnswered(k) PROVE TypeOK'
  BY <1>1, <1>2, <1>10, CallOf, OverType DEF TypeOK, RefreshAnswered, Under, OfSession
<1> QED BY <1>3, <1>4, <1>5, <1>6, <1>7, <1>8, <1>9, <1>10 DEF Answered

LEMMA TimerType ==
    ASSUME TypeOK, NEW k \in Slot, Fire(k) \/ Fail(k) \/ AuditFailed(k)
    PROVE  TypeOK'
<1>1. ASSUME Fire(k) PROVE TypeOK'
  <2>1. call' \in [Slot -> Call \cup {None}]
    BY <1>1, ThenType DEF TypeOK, Fire, OfSession
  <2> QED BY <1>1, <2>1 DEF TypeOK, Fire
<1>2. ASSUME Fail(k) PROVE TypeOK'
  <2>1. errors' \in 0..MaxErrors /\ timer' \in Session \cup {None}
    BY <1>2, CallOf DEF TypeOK, Fail, Under, OfSession
  <2> QED BY <1>2, <2>1, OverType DEF TypeOK, Fail
<1>3. ASSUME AuditFailed(k) PROVE TypeOK'
  <2>1. call[k] \in Call /\ call[k].kind \in OfSession
    BY <1>3, CallOf DEF AuditFailed, Under, OfSession
  <2>2. [call[k] EXCEPT !.kind = "redraw"] \in Call
    BY <2>1 DEF Call, OfCourse, OfSession
  <2>3. errors' \in 0..MaxErrors
    BY <1>3 DEF TypeOK, AuditFailed
  <2> QED BY <1>3, <2>2, <2>3 DEF TypeOK, AuditFailed
<1> QED BY <1>1, <1>2, <1>3

(* The variables have the types that the model declares: a call of a       *)
(* course never carries a session, or the other way round.                 *)
THEOREM TypeCorrect == Spec => []TypeOK
<1>1. Init => TypeOK
  <2>1. 0 \in 0..MaxActs /\ 0 \in 0..MaxErrors
    OBVIOUS
  <2> QED BY <2>1, EditionType DEF Init, TypeOK
<1>2. TypeOK /\ [Next]_vars => TypeOK'
  <2>1. ASSUME TypeOK, Next PROVE TypeOK'
    BY <2>1, ClickType, SelectType, ServerType, AnswerType, TimerType DEF Next
  <2>2. ASSUME TypeOK, UNCHANGED vars PROVE TypeOK'
    BY <2>2 DEF TypeOK
  <2> QED BY <2>1, <2>2
<1> QED BY <1>1, <1>2, PTL DEF Spec

-----------------------------------------------------------------------------
(* What is drawn.                                                          *)

(* An answer draws rows only for the session that is selected. *)
LEMMA DrawsSelected ==
    ASSUME TypeOK, TableIsSelected, NEW k \in Slot, DrawTable(k), UNCHANGED session
    PROVE  TableIsSelected'
  BY DEF TypeOK, TableIsSelected, DrawTable

LEMMA TableStep ==
    ASSUME TypeOK, TableIsSelected, Next
    PROVE  TableIsSelected'
<1>1. ASSUME NEW k \in Slot, RedrawAnswered(k) \/ OpenAnswered(k) \/ RefreshAnswered(k)
      PROVE  TableIsSelected'
  BY <1>1, DrawsSelected DEF RedrawAnswered, OpenAnswered, RefreshAnswered
<1>2. ASSUME loaded' = FALSE PROVE TableIsSelected'
  BY <1>2 DEF TableIsSelected
<1>3. ASSUME UNCHANGED <<session, table, loaded>> PROVE TableIsSelected'
  BY <1>3 DEF TableIsSelected
<1> QED BY <1>1, <1>2, <1>3 DEF Next, Scan, SelectNone, SelectCourse, SelectSession, Decide,
        Correct, Serve, ServeCorrection, Fire, Answered, RosterAnswered, SessionsAnswered,
        DecideAnswered, ReloadAnswered, CorrectAnswered, AuditAnswered, Fail, AuditFailed

(* In whatever order answers come, the rows that the selected session has  *)
(* got so far are its own.                                                 *)
THEOREM DrawnIsSelected == Spec => []TableIsSelected
<1>1. Init => TableIsSelected
  BY DEF Init, TableIsSelected
<1>2. TypeOK /\ TableIsSelected /\ [Next]_vars => TableIsSelected'
  <2>1. ASSUME TableIsSelected, UNCHANGED vars PROVE TableIsSelected'
    BY <2>1 DEF TableIsSelected
  <2> QED BY <2>1, TableStep
<1> QED BY TypeCorrect, <1>1, <1>2, PTL DEF Spec

-----------------------------------------------------------------------------
(* The refreshing of the selected session.                                 *)

Keeps(k) ==
    call[k] # None /\ call[k].of = session /\ call[k].kind \in {"open", "audit", "refresh"}

(* What ends the loop of the selected session: a call of another one, or   *)
(* the failing of its opening. *)
Stops ==
    \E k \in Slot :
        /\ call[k] # None /\ call'[k] # call[k]
        /\ \/ call[k].of # session /\ call[k].kind \in {"audit", "refresh"}
           \/ call[k].kind \in {"open", "audit"} /\ errors' > errors

LEMMA LoopingIs == Looping <=> timer = session \/ \E k \in Slot : Keeps(k)
  BY DEF Looping, Keeps

(* A step of one slot that leaves the timer, or sets it for the session. *)
LEMMA LoopFrame ==
    ASSUME TypeOK, NEW k \in Slot, session' = session, Looping,
           timer' = timer \/ timer' = session,
           \A j \in Slot \ {k} : call'[j] = call[j],
           Keeps(k) => Keeps(k)' \/ timer' = session
    PROVE  Looping'
<1>1. CASE timer = session
  BY <1>1 DEF Looping
<1>2. ASSUME NEW j \in Slot, Keeps(j)
      PROVE  Looping'
  BY <1>2 DEF Looping, Keeps
<1> QED BY <1>1, <1>2, LoopingIs

LEMMA LoopStep ==
    ASSUME TypeOK, Next, session # None, session' = session, Looping, ~Looping'
    PROVE  Stops
<1>1. \A k \in Slot : call[k] # None => call[k] \in Call
  BY CallOf
<1>2. ASSUME NEW k \in Slot, NEW kind, NEW x, Then(k, kind, x) \/ Over(k)
      PROVE  /\ \A j \in Slot \ {k} : call'[j] = call[j]
             /\ Then(k, kind, x) => call'[k] = Asked(kind, x)
             /\ Over(k) => call'[k] = None
  BY <1>2 DEF TypeOK, Then, Over
<1>3. ASSUME NEW s \in Session, Scan(s) PROVE FALSE
  BY <1>3 DEF Scan, Looping
<1>4. SelectNone => FALSE
  BY DEF SelectNone
<1>5. ASSUME NEW c \in Course, NEW j \in Slot, NEW k \in Slot, SelectCourse(c, j, k)
      PROVE  FALSE
  BY <1>5 DEF SelectCourse
<1>6. ASSUME NEW k \in Slot, NEW s \in Session, SelectSession(s, k)
      PROVE  FALSE
  <2>1. call'[k] = Asked("open", session) /\ session \in Session
    BY <1>2, <1>6 DEF SelectSession
  <2>2. call'[k] # None
    BY <2>1, AskedCall DEF OfSession
  <2> QED BY <2>1, <2>2, <1>6 DEF Looping, Asked, SelectSession
<1>7. ASSUME NEW k \in Slot, Decide(k) \/ Correct(k)
      PROVE  FALSE
  <2>1. call[k] = None /\ timer' = timer /\ \A j \in Slot \ {k} : call'[j] = call[j]
    BY <1>2, <1>7 DEF Decide, Correct
  <2> QED BY <2>1, LoopFrame DEF Keeps
<1>8. ASSUME NEW k \in Slot, Serve(k) \/ ServeCorrection(k)
      PROVE  FALSE
  <2>1. call[k] # None /\ timer' = timer /\ \A j \in Slot \ {k} : call'[j] = call[j]
    BY <1>8 DEF TypeOK, Serve, ServeCorrection, Under
  <2>2. call[k] \in Call /\ call[k].kind \in OfSession
    BY <1>1, <1>8, <2>1 DEF Serve, ServeCorrection, Under, OfSession
  <2>3. PICK e \in Edition : call'[k] = [call[k] EXCEPT !.at = e]
    <3>1. CASE Serve(k)
      BY <2>2, <3>1 DEF TypeOK, Serve, Call, OfCourse, OfSession
    <3>2. CASE ServeCorrection(k)
      <4>1. edition'[call[k].of] \in Edition
        BY <3>2, <2>2, ServerType DEF TypeOK, Call, OfCourse, OfSession
      <4> QED BY <3>2, <4>1 DEF TypeOK, ServeCorrection
    <3> QED BY <1>8, <3>1, <3>2
  <2>4. call'[k] # None /\ call'[k].kind = call[k].kind /\ call'[k].of = call[k].of
    <3>1. call'[k] \in Call
      BY <2>2, <2>3, ServedCall
    <3> QED BY <2>2, <2>3, <3>1 DEF Call
  <2> QED BY <2>1, <2>4, LoopFrame DEF Keeps
<1>9. ASSUME NEW k \in Slot, Fire(k)
      PROVE  FALSE
  <2>1. CASE timer = session
    <3>1. call'[k] = Asked("refresh", session) /\ session \in Session
      BY <1>2, <1>9, <2>1 DEF TypeOK, Fire
    <3>2. call'[k] # None
      BY <3>1, AskedCall DEF OfSession
    <3> QED BY <3>1, <3>2 DEF Looping, Asked
  <2>2. CASE timer # session
    BY <1>9, <2>2 DEF Fire, Looping
  <2> QED BY <2>1, <2>2
<1>10. ASSUME NEW k \in Slot,
              \/ RosterAnswered(k) \/ SessionsAnswered(k) \/ DecideAnswered(k)
              \/ ReloadAnswered(k) \/ CorrectAnswered(k) \/ RedrawAnswered(k)
       PROVE  FALSE
  <2>1. /\ ~Keeps(k) /\ timer' = timer
        /\ \A j \in Slot \ {k} : call'[j] = call[j]
    BY <1>2, <1>10 DEF RosterAnswered, SessionsAnswered, DecideAnswered, ReloadAnswered,
       CorrectAnswered, RedrawAnswered, Under, Keeps
  <2> QED BY <2>1, LoopFrame
<1>11. ASSUME NEW k \in Slot, OpenAnswered(k)
       PROVE  FALSE
  <2>1. call[k] # None /\ call[k].of \in Session
    BY <1>11, CallOf DEF OpenAnswered, Under, OfSession
  <2>2. /\ call'[k] = Asked("audit", call[k].of) /\ timer' = timer
        /\ \A j \in Slot \ {k} : call'[j] = call[j]
    BY <1>2, <1>11 DEF OpenAnswered
  <2>3. call'[k] # None
    BY <2>1, <2>2, AskedCall DEF OfSession
  <2>4. Keeps(k) => Keeps(k)'
    BY <2>2, <2>3 DEF Keeps, Asked
  <2> QED BY <2>2, <2>4, LoopFrame
<1>12. ASSUME NEW k \in Slot, AuditAnswered(k) \/ RefreshAnswered(k)
       PROVE  Stops
  <2>1. /\ call[k] # None /\ call[k].kind \in {"audit", "refresh"}
        /\ call'[k] = None /\ timer' = call[k].of
    BY <1>2, <1>12 DEF AuditAnswered, RefreshAnswered, Under
  <2>2. call[k].of # session
    BY <2>1 DEF Looping
  <2> QED BY <2>1, <2>2 DEF Stops
<1>13. ASSUME NEW k \in Slot, Fail(k)
       PROVE  Stops
  <2>1. /\ call[k] # None /\ call'[k] = None /\ errors' > errors
        /\ \A j \in Slot \ {k} : call'[j] = call[j]
    BY <1>2, <1>13 DEF TypeOK, Fail
  <2>2. CASE Under(k, "refresh")
    <3>1. call[k].of # session
      BY <1>13, <2>2 DEF Fail, Looping
    <3> QED BY <2>1, <2>2, <3>1 DEF Stops, Under
  <2>3. CASE ~Under(k, "refresh")
    <3>1. Keeps(k)
      BY <1>13, <2>1, <2>3, LoopFrame DEF Fail
    <3> QED BY <2>1, <2>3, <3>1 DEF Stops, Keeps, Under
  <2> QED BY <2>2, <2>3
<1>14. ASSUME NEW k \in Slot, AuditFailed(k)
       PROVE  Stops
  <2>1. call[k] \in Call /\ call[k].kind = "open" /\ errors' > errors /\ call[k] # None
    BY <1>1, <1>14 DEF TypeOK, AuditFailed, Under
  <2>2. call'[k] # call[k]
    BY <1>14, <2>1 DEF TypeOK, AuditFailed, Call
  <2> QED BY <2>1, <2>2 DEF Stops
<1> QED BY <1>3, <1>4, <1>5, <1>6, <1>7, <1>8, <1>9, <1>10, <1>11, <1>12, <1>13, <1>14
        DEF Next, Answered

(* The selected session keeps being refreshed, unless its opening fails or *)
(* a call of another session takes the timer.                              *)
THEOREM Loop == Spec => LoopKept
<1> DEFINE A == session # None /\ session' = session /\ Looping /\ ~Looping' =>
        \E k \in Slot :
            /\ call[k] # None /\ call'[k] # call[k]
            /\ \/ call[k].of # session /\ call[k].kind \in {"audit", "refresh"}
               \/ call[k].kind \in {"open", "audit"} /\ errors' > errors
<1>1. TypeOK /\ [Next]_vars => [A]_vars
  BY LoopStep DEF Stops
<1> QED BY TypeCorrect, <1>1, PTL DEF Spec, LoopKept
=============================================================================
