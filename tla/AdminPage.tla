----------------------------- MODULE AdminPage ------------------------------
(***************************************************************************)
(* The instructor's page (app/static/admin.js): it starts and ends a       *)
(* session, remembers it across reloads and polls /current for the code    *)
(* to show.  Every call is answered later, or never wanted any more; a     *)
(* generation number tells the polls of the loop that is on from the rest. *)
(*                                                                         *)
(* The server is what the calls see of it: the status of a session and     *)
(* whether /current offers a code.  TokenRotation says when the two agree: *)
(* they do while no instance fails and one instance serves a session.      *)
(*                                                                         *)
(* pollCount runs under the same generations and only writes a text; it is *)
(* left out, and so are the texts.                                         *)
(***************************************************************************)
EXTENDS Naturals

CONSTANTS
    Session, None,
    Slot,       \* calls of /current that may be in flight: a bound
    MaxActs,    \* bound on clicks and reloads
    MaxErrors,  \* bound on calls that fail
    Lapsing     \* sessions whose code may lapse while they are open, and be
                \* issued once more when they have ended

(* A call of /current: its pollCurrent's generation and id, and its answer. *)
Poll == [gen : Nat, id : Session, answer : {"none", "active", "inactive", "error"}]

ASSUME PageAssumption ==
    /\ None \notin Session \cup Poll
    /\ MaxActs \in Nat
    /\ MaxErrors \in Nat
    /\ Lapsing \subseteq Session

VARIABLES
    \* the server
    status,     \* sessions.status
    offered,    \* sessions /current calls active
    \* the page
    session,    \* session, its id
    saved,      \* localStorage[STORAGE_KEY]
    gen,        \* pollGeneration
    timer,      \* pollTimer is set; it carries the generation gen
    polls,      \* calls of /current in flight
    qr,         \* the session whose code is shown
    call,       \* the form's call: what was asked, or what was answered
    made,       \* the session a start was answered with
    \* bounds
    acts, errors

server == <<status, offered>>
poller == <<gen, timer, polls, qr>>
bounds == <<acts, errors>>
vars == <<server, session, saved, poller, call, made, bounds>>

TypeOK ==
    /\ status \in [Session -> {"absent", "active", "ended"}]
    /\ offered \subseteq Session
    /\ session \in Session \cup {None}
    /\ saved \in Session \cup {None}
    /\ gen \in Nat
    /\ timer \in BOOLEAN
    /\ polls \in [Slot -> Poll \cup {None}]
    /\ qr \in Session \cup {None}
    /\ call \in {"idle", "start", "started", "failed", "end", "ended", "unended"}
    /\ made \in Session \cup {None}
    /\ acts \in 0..MaxActs
    /\ errors \in 0..MaxErrors

(* The page as it is first opened. *)
Init ==
    /\ status = [s \in Session |-> "absent"]
    /\ offered = {}
    /\ session = None
    /\ saved = None
    /\ gen = 0
    /\ timer = FALSE
    /\ polls = [k \in Slot |-> None]
    /\ qr = None
    /\ call = "idle"
    /\ made = None
    /\ acts = 0
    /\ errors = 0

Idle == [k \in Slot |-> None]

-----------------------------------------------------------------------------
(* Polling.                                                                *)

(* The timer is cleared, but an answer under way still counts. *)
StopTimerOnly == timer' = FALSE /\ gen' = gen

(* stopPolling *)
StopPolling == timer' = FALSE /\ gen' = gen + 1

(* A call of /current for the session of the page. *)
Ask(calls, g, s) ==
    \E k \in Slot :
        /\ calls[k] = None
        /\ polls' = [calls EXCEPT ![k] = [gen |-> g, id |-> s, answer |-> "none"]]

(* The generation is read before stopPolling ends it. *)
StartPollingStale(s) ==
    /\ StopPolling
    /\ Ask(polls, gen, s)

(* startPolling: the first call is made at once. *)
StartPolling(s) ==
    /\ StopPolling
    /\ Ask(polls, gen', s)

(* closeSession without hideQr, and with JSON.stringify(null) saved. *)
CloseSessionShown ==
    /\ StopPolling
    /\ session' = None
    /\ saved' = None
    /\ UNCHANGED qr

CloseSessionNull ==
    /\ StopPolling
    /\ session' = None
    /\ saved' = "null"
    /\ qr' = None

(* closeSession *)
CloseSession ==
    /\ StopPolling
    /\ session' = None
    /\ saved' = None
    /\ qr' = None

-----------------------------------------------------------------------------
(* What the instructor does.                                               *)

Act == acts < MaxActs /\ acts' = acts + 1

(* The page is loaded: nothing of the one before is left but what it saved *)
(* and what its calls still do to the server.                              *)
Load ==
    /\ Act
    /\ session' = saved
    /\ timer' = FALSE
    /\ qr' = None
    /\ call' = "idle"
    /\ made' = None
    /\ IF saved = None
         THEN gen' = 0 /\ polls' = Idle
         ELSE gen' = 1 /\ Ask(Idle, 1, saved)
    /\ UNCHANGED <<server, saved, errors>>

ClickStart ==
    /\ Act
    /\ call = "idle"
    /\ session = None
    /\ call' = "start"
    /\ UNCHANGED <<server, session, saved, poller, made, errors>>

ClickEnd ==
    /\ Act
    /\ call = "idle"
    /\ session # None
    /\ call' = "end"
    /\ StopPolling
    /\ UNCHANGED <<server, session, saved, polls, qr, made, errors>>

-----------------------------------------------------------------------------
(* What the server answers.                                                *)

Fails == errors < MaxErrors /\ errors' = errors + 1

StartServed(s) ==
    /\ call = "start"
    /\ status[s] = "absent"
    /\ status' = [status EXCEPT ![s] = "active"]
    /\ offered' = offered \cup {s}
    /\ made' = s
    /\ call' = "started"
    /\ UNCHANGED <<session, saved, poller, bounds>>

(* The call fails before its commit, or at one of its Redis writes. *)
StartFails ==
    /\ call = "start"
    /\ Fails
    /\ call' = "failed"
    /\ \/ UNCHANGED server
       \/ \E s \in Session :
            /\ status[s] = "absent"
            /\ status' = [status EXCEPT ![s] = "active"]
            /\ offered' \in {offered, offered \cup {s}}
    /\ UNCHANGED <<session, saved, poller, made, acts>>

EndServed ==
    /\ call = "end"
    /\ status' = [status EXCEPT ![session] = "ended"]
    /\ offered' = offered \ {session}
    /\ call' = "ended"
    /\ UNCHANGED <<session, saved, poller, made, bounds>>

(* The call fails before its commit, or between it and the Redis writes. *)
EndFails ==
    /\ call = "end"
    /\ Fails
    /\ status' \in {status, [status EXCEPT ![session] = "ended"]}
    /\ call' = "unended"
    /\ UNCHANGED <<offered, session, saved, poller, made, acts>>

(* GET /current *)
PollServed(k) ==
    /\ polls[k] # None
    /\ polls[k].answer = "none"
    /\ polls' = [polls EXCEPT ![k].answer =
                    IF polls[k].id \in offered THEN "active" ELSE "inactive"]
    /\ UNCHANGED <<server, session, saved, gen, timer, qr, call, made, bounds>>

PollFails(k) ==
    /\ polls[k] # None
    /\ polls[k].answer = "none"
    /\ Fails
    /\ polls' = [polls EXCEPT ![k].answer = "error"]
    /\ UNCHANGED <<server, session, saved, gen, timer, qr, call, made, acts>>

(* Another page, or a call this one made before it was reloaded; it may    *)
(* fail at its Redis writes.                                               *)
StartElsewhere(s) ==
    /\ status[s] = "absent"
    /\ status' = [status EXCEPT ![s] = "active"]
    /\ offered' \in {offered, offered \cup {s}}
    /\ UNCHANGED <<session, saved, poller, call, made, bounds>>

EndElsewhere(s) ==
    /\ status[s] # "absent"
    /\ status' = [status EXCEPT ![s] = "ended"]
    /\ offered' \in {offered, offered \ {s}}
    /\ UNCHANGED <<session, saved, poller, call, made, bounds>>

(* A code that expires before an instance replaces it, and one that an     *)
(* instance issues late.                                                   *)
Rotate(s) ==
    /\ s \in Lapsing
    /\ status[s] # "absent"
    /\ offered' \in {offered \ {s}, offered \cup {s}}
    /\ UNCHANGED <<status, session, saved, poller, call, made, bounds>>

-----------------------------------------------------------------------------
(* How the page takes the answers.                                         *)

StartAnswered ==
    /\ call = "started"
    /\ session' = made
    /\ saved' = made
    /\ StartPolling(made)
    /\ call' = "idle"
    /\ made' = None
    /\ UNCHANGED <<server, qr, bounds>>

StartRefused ==
    /\ call = "failed"
    /\ call' = "idle"
    /\ UNCHANGED <<server, session, saved, poller, made, bounds>>

EndAnswered ==
    /\ call = "ended"
    /\ CloseSession
    /\ call' = "idle"
    /\ UNCHANGED <<server, polls, made, bounds>>

(* The session is closed whatever the answer. *)
EndRefusedClosed ==
    /\ call = "unended"
    /\ CloseSession
    /\ call' = "idle"
    /\ UNCHANGED <<server, polls, made, bounds>>

EndRefused ==
    /\ call = "unended"
    /\ StartPolling(session)
    /\ call' = "idle"
    /\ UNCHANGED <<server, session, saved, qr, made, bounds>>

(* setTimeout(() => pollCurrent(generation)) *)
TimerFires ==
    /\ timer
    /\ timer' = FALSE
    /\ Ask(polls, gen, session)
    /\ UNCHANGED <<server, session, saved, gen, qr, call, made, bounds>>

(* generation === pollGeneration *)
Current(p) == p.gen = gen

(* The answer is taken if the page is where it was when it asked; then the *)
(* loop goes on, unless the answer has closed the session.                 *)
PollAnswered(k) ==
    LET p == polls[k]
        wanted == Current(p) /\ session = p.id
        closed == wanted /\ p.answer = "inactive"
    IN  /\ p # None
        /\ p.answer # "none"
        /\ polls' = [polls EXCEPT ![k] = None]
        /\ \/ closed /\ CloseSession
           \/ /\ ~closed
              /\ qr' = IF wanted /\ p.answer = "active" THEN p.id
                        ELSE IF Current(p) /\ p.answer = "error" THEN None ELSE qr
              /\ timer' = (timer \/ (Current(p) /\ session # None))
              /\ UNCHANGED <<session, saved, gen>>
        /\ UNCHANGED <<server, call, made, bounds>>

-----------------------------------------------------------------------------
PageNext ==
    \/ StartAnswered \/ StartRefused \/ EndAnswered \/ EndRefused \/ TimerFires
    \/ \E k \in Slot : PollAnswered(k)

ServerNext ==
    \/ StartFails \/ EndServed \/ EndFails
    \/ \E s \in Session : StartServed(s)
    \/ \E k \in Slot : PollServed(k) \/ PollFails(k)

Next ==
    \/ Load \/ ClickStart \/ ClickEnd
    \/ PageNext
    \/ ServerNext
    \/ \E s \in Session : StartElsewhere(s) \/ EndElsewhere(s) \/ Rotate(s)

Spec == Init /\ [][Next]_vars

(* Calls are answered, answers are handled, timers fire. *)
FairSpec ==
    /\ Spec
    /\ WF_vars(TimerFires)
    /\ WF_vars(StartAnswered \/ StartRefused \/ EndAnswered \/ EndRefused)
    /\ WF_vars(EndServed)
    /\ \A k \in Slot : WF_vars(PollServed(k)) /\ WF_vars(PollAnswered(k))

-----------------------------------------------------------------------------
(* Properties.                                                             *)

Live(k) == polls[k] # None /\ polls[k].gen = gen

(* The page never shows a code of a session it has left, however late an   *)
(* answer of /current comes: only the answer to the loop that is on counts *)
(* (pollGeneration).                                                       *)
ShowsItsSession == qr # None => session = qr

(* While the page is on a session, and is not ending it, exactly one loop  *)
(* polls for its code: no click, error or late answer stops the loop for   *)
(* good or starts a second one beside it.                                  *)
OneLoop ==
    /\ (session # None /\ call = "idle") <=> (timer \/ \E k \in Slot : Live(k))
    /\ timer => \A k \in Slot : ~Live(k)
    /\ \A j, k \in Slot : Live(j) /\ Live(k) => j = k

(* The page drops a session, from the screen and from its storage, only    *)
(* when the session has ended, if its code does not lapse before: no error *)
(* and no answer to an older question makes it drop one.                   *)
DropsOnlyEnded ==
    [][session # None /\ session \notin Lapsing /\ session' # session
         => status[session] = "ended"]_vars

(* "This attendance session is no longer active." (admin.js:112): so says  *)
(* the page whenever it drops a session.                                   *)
DropsNoOpenSession ==
    [][session # None /\ session' # session => status[session] = "ended"]_vars

(* A session that has ended, here or elsewhere, and that /current does not *)
(* offer any more is left by the page.                                     *)
EndedIsLeft ==
    \A s \in Session :
        (status[s] = "ended" /\ s \notin offered) ~> (session # s \/ s \in offered)

-----------------------------------------------------------------------------
(* The inductive invariant AdminPageProofs proves.                         *)

PageOK ==
    /\ saved = session
    /\ ShowsItsSession
    /\ OneLoop
    /\ \A k \in Slot : polls[k] # None =>
          /\ polls[k].gen <= gen
          /\ polls[k].gen = gen => polls[k].id = session

CallOK ==
    /\ call \in {"end", "ended", "unended"} => session # None
    /\ call \in {"start", "started", "failed"} => session = None
    /\ call = "started" => made # None
    /\ call = "ended" => status[session] = "ended"

(* A session the page has heard of; while it is open, /current offers it, *)
(* unless its code lapses.                                                *)
Heard(s) ==
    \/ s \in Lapsing
    \/ status[s] # "absent" /\ (status[s] = "active" => s \in offered)

ServerOK ==
    /\ session # None => Heard(session)
    /\ made # None => Heard(made)
    /\ \A k \in Slot : polls[k] # None =>
          /\ Heard(polls[k].id)
          /\ polls[k].answer = "inactive" =>
                polls[k].id \in Lapsing \/ status[polls[k].id] = "ended"

AInv ==
    /\ TypeOK
    /\ PageOK
    /\ CallOK
    /\ ServerOK
=============================================================================
