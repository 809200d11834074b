-------------------------- MODULE AdminPageProofs ---------------------------
(***************************************************************************)
(* Proofs about AdminPage, for every set of sessions, any number of calls  *)
(* in flight, clicks, reloads and errors.                                  *)
(***************************************************************************)
EXTENDS AdminPage, TLAPS

USE PageAssumption DEF server, poller, bounds

-----------------------------------------------------------------------------
(* The loop.                                                               *)

(* The two states of the loop: stopped, and on with one call in flight. *)
Stopped == ~timer /\ \A k \in Slot : ~Live(k)

Past(calls, g) == \A k \in Slot : calls[k] # None => calls[k].gen < g

(* stopPolling leaves nothing of the loop that was on. *)
LEMMA StopStep ==
    ASSUME TypeOK, PageOK, StopPolling, UNCHANGED polls
    PROVE  Stopped' /\ gen' \in Nat /\ Past(polls, gen')
  BY DEF TypeOK, Poll, PageOK, StopPolling, Stopped, Live, Past

(* A call made when every other is of the past is the only one of its      *)
(* generation.                                                             *)
LEMMA AskStep ==
    ASSUME NEW calls \in [Slot -> Poll \cup {None}], NEW g \in Nat, NEW s \in Session,
           \A k \in Slot : calls[k] # None => calls[k].gen <= g /\ calls[k].gen # g,
           NEW c \in Slot, NEW new,
           new = [calls EXCEPT ![c] = [gen |-> g, id |-> s, answer |-> "none"]]
    PROVE  /\ new \in [Slot -> Poll \cup {None}]
           /\ \A k \in Slot : new[k] # None /\ new[k].gen = g <=> k = c
           /\ \A k \in Slot : new[k] # None =>
                /\ new[k].gen <= g
                /\ new[k].gen = g => new[k].id = s
                /\ new[k] = calls[k] \/ (new[k].id = s /\ new[k].answer = "none")
<1> DEFINE p == [gen |-> g, id |-> s, answer |-> "none"]
<1>1. p \in Poll /\ p.gen = g /\ p.id = s /\ p.answer = "none"
  BY DEF Poll
<1>2. p # None
  BY <1>1
<1> HIDE DEF p
<1>3. new = [calls EXCEPT ![c] = p]
  BY DEF p
<1>4. new[c] = p /\ \A k \in Slot \ {c} : new[k] = calls[k]
  BY <1>3
<1>5. new \in [Slot -> Poll \cup {None}]
  BY <1>1, <1>3
<1> QED BY <1>1, <1>2, <1>4, <1>5

-----------------------------------------------------------------------------
(* The invariant after a step, by the state the loop is left in.           *)

(* No loop: the page is on no session, or is ending it. *)
LEMMA StoppedOK ==
    ASSUME Stopped', saved' = session', ShowsItsSession',
           session' = None \/ call' # "idle",
           \A k \in Slot : polls'[k] # None => polls'[k].gen <= gen'
    PROVE  PageOK'
  BY DEF Stopped, PageOK, OneLoop, Live

(* A loop has just begun. *)
LEMMA BegunOK ==
    ASSUME saved' = session', ShowsItsSession', session' # None, call' = "idle", timer' = FALSE,
           \E k \in Slot : Live(k)',
           \A j, k \in Slot : Live(j)' /\ Live(k)' => j = k,
           \A k \in Slot : polls'[k] # None =>
              /\ polls'[k].gen <= gen'
              /\ polls'[k].gen = gen' => polls'[k].id = session'
    PROVE  PageOK'
  BY DEF PageOK, OneLoop

(* The page's session and its loop are what they were. *)
LEMMA PageKept ==
    ASSUME PageOK, UNCHANGED <<session, saved, gen, timer, qr, polls>>,
           (call' = "idle") = (call = "idle") \/ session = None
    PROVE  PageOK'
  BY DEF PageOK, OneLoop, Live, ShowsItsSession

(* A session the page has heard of stays one. *)
LEMMA HeardKept ==
    ASSUME TypeOK, ServerOK,
           \A s \in Session : Heard(s) => Heard(s)',
           \A s \in Session : status[s] = "ended" => status'[s] = "ended",
           session' # None => session' = session \/ session' = made,
           made' # None => made' = made \/ Heard(made)',
           \A k \in Slot : polls'[k] # None =>
              \/ polls[k] # None /\ polls'[k] = polls[k]
              \/ Heard(polls[k].id)' /\ polls'[k].answer # "inactive"
    PROVE  ServerOK'
<1>1. \A k \in Slot : polls[k] # None => polls[k].id \in Session
  BY DEF TypeOK, Poll
<1>2. session \in Session \cup {None} /\ made \in Session \cup {None}
  BY DEF TypeOK
<1>3. session' # None => Heard(session)'
  BY <1>2 DEF ServerOK, Heard
<1>4. made' # None => Heard(made)'
  BY <1>2 DEF ServerOK, Heard
<1>5. ASSUME NEW k \in Slot, polls'[k] # None
      PROVE  /\ Heard(polls[k].id)'
             /\ polls'[k].answer = "inactive" =>
                  polls'[k].id \in Lapsing \/ status'[polls'[k].id] = "ended"
  BY <1>1, <1>5 DEF ServerOK, Heard
<1> QED BY <1>3, <1>4, <1>5 DEF ServerOK

-----------------------------------------------------------------------------
(* The instructor's steps.                                                 *)

LEMMA LoadStep ==
    ASSUME AInv, Load
    PROVE  AInv'
<1>0. TypeOK /\ PageOK /\ CallOK
  BY DEF AInv
<1>1. CASE saved = None
  <2>1. /\ session' = None /\ saved' = None /\ timer' = FALSE /\ qr' = None
        /\ call' = "idle" /\ made' = None /\ gen' = 0 /\ polls' = Idle
        /\ UNCHANGED <<status, offered, errors>> /\ acts' \in 0..MaxActs
    BY <1>0, <1>1 DEF Load, Act, TypeOK
  <2>2. \A k \in Slot : polls'[k] = None
    BY <2>1 DEF Idle
  <2>3. TypeOK'
    BY <1>0, <2>1 DEF TypeOK, Idle
  <2>4. PageOK'
    BY <2>1, <2>2, StoppedOK DEF Stopped, Live, ShowsItsSession
  <2> QED BY <2>1, <2>2, <2>3, <2>4 DEF AInv, CallOK, ServerOK
<1>2. CASE saved # None
  <2>1. /\ session' = saved /\ saved' = saved /\ timer' = FALSE /\ qr' = None
        /\ call' = "idle" /\ made' = None /\ gen' = 1 /\ Ask(Idle, 1, saved)
        /\ UNCHANGED <<status, offered, errors>> /\ acts' \in 0..MaxActs
    BY <1>0, <1>2 DEF Load, Act, TypeOK
  <2>2. saved \in Session /\ saved = session
    BY <1>0, <1>2 DEF TypeOK, PageOK
  <2>3. Idle \in [Slot -> Poll \cup {None}] /\ \A k \in Slot : Idle[k] = None
    BY DEF Idle
  <2>4. PICK c \in Slot :
          polls' = [Idle EXCEPT ![c] = [gen |-> 1, id |-> saved, answer |-> "none"]]
    BY <2>1 DEF Ask
  <2>5. /\ polls' \in [Slot -> Poll \cup {None}]
        /\ \A k \in Slot : polls'[k] # None /\ polls'[k].gen = 1 <=> k = c
        /\ \A k \in Slot : polls'[k] # None =>
              /\ polls'[k].gen <= 1
              /\ polls'[k].gen = 1 => polls'[k].id = saved
              /\ polls'[k] = Idle[k] \/ (polls'[k].id = saved /\ polls'[k].answer = "none")
    BY <2>2, <2>3, <2>4, AskStep
  <2>6. (\E k \in Slot : Live(k)') /\ \A j, k \in Slot : Live(j)' /\ Live(k)' => j = k
    BY <2>1, <2>5 DEF Live
  <2>7. TypeOK'
    BY <1>0, <2>1, <2>2, <2>5 DEF TypeOK
  <2>8. PageOK'
    BY <1>2, <2>1, <2>5, <2>6, BegunOK DEF ShowsItsSession
  <2>9. ServerOK => ServerOK'
    BY <1>2, <2>1, <2>2, <2>3, <2>5 DEF ServerOK, Heard
  <2> QED BY <2>1, <2>7, <2>8, <2>9 DEF AInv, CallOK
<1> QED BY <1>1, <1>2

LEMMA ClickStartStep ==
    ASSUME AInv, ClickStart
    PROVE  AInv'
<1>1. /\ call = "idle" /\ call' = "start" /\ session = None
      /\ UNCHANGED <<status, offered, session, saved, gen, timer, polls, qr, made, errors>>
      /\ acts' \in 0..MaxActs
  BY DEF ClickStart, Act, AInv, TypeOK
<1>2. TypeOK'
  BY <1>1 DEF AInv, TypeOK
<1>3. PageOK'
  BY <1>1, PageKept DEF AInv
<1> QED BY <1>1, <1>2, <1>3 DEF AInv, CallOK, ServerOK, Heard

LEMMA ClickEndStep ==
    ASSUME AInv, ClickEnd
    PROVE  AInv'
<1>1. /\ call = "idle" /\ call' = "end" /\ session # None /\ StopPolling
      /\ UNCHANGED <<status, offered, session, saved, polls, qr, made, errors>>
      /\ acts' \in 0..MaxActs
  BY DEF ClickEnd, Act, AInv, TypeOK
<1>2. Stopped' /\ gen' \in Nat /\ Past(polls, gen')
  BY <1>1, StopStep DEF AInv
<1>3. TypeOK'
  BY <1>1, <1>2 DEF AInv, TypeOK, StopPolling
<1>4. PageOK'
  <2>1. \A k \in Slot : polls'[k] # None => polls'[k].gen <= gen'
    BY <1>1, <1>2 DEF Past, AInv, TypeOK, Poll
  <2> QED BY <1>1, <1>2, <2>1, StoppedOK DEF AInv, PageOK, ShowsItsSession
<1> QED BY <1>1, <1>3, <1>4 DEF AInv, CallOK, ServerOK, Heard

-----------------------------------------------------------------------------
(* The server's steps.                                                     *)

(* A step of the server that only the status, the offer and the call's     *)
(* progress show.                                                          *)
LEMMA ServerStep ==
    ASSUME AInv, TypeOK',
           UNCHANGED <<session, saved, gen, timer, qr, polls>>,
           (call' = "idle") = (call = "idle") \/ session = None,
           CallOK', made' # None => made' = made \/ Heard(made)',
           \A s \in Session : Heard(s) => Heard(s)',
           \A s \in Session : status[s] = "ended" => status'[s] = "ended"
    PROVE  AInv'
<1>1. PageOK'
  BY PageKept DEF AInv
<1>2. ServerOK'
  BY HeardKept DEF AInv
<1> QED BY <1>1, <1>2 DEF AInv

LEMMA StartServedStep ==
    ASSUME AInv, NEW s \in Session, StartServed(s)
    PROVE  AInv'
<1>1. TypeOK' /\ CallOK'
  BY DEF AInv, TypeOK, StartServed, CallOK
<1>2. Heard(made)' /\ \A x \in Session : Heard(x) => Heard(x)'
  BY DEF AInv, TypeOK, StartServed, Heard
<1> QED BY <1>1, <1>2, ServerStep DEF StartServed, AInv, TypeOK

LEMMA StartFailsStep ==
    ASSUME AInv, StartFails
    PROVE  AInv'
<1>1. TypeOK' /\ CallOK'
  BY DEF AInv, TypeOK, StartFails, Fails, CallOK
<1>2. \A x \in Session : (Heard(x) => Heard(x)') /\ (status[x] = "ended" => status'[x] = "ended")
  BY DEF AInv, TypeOK, StartFails, Heard
<1> QED BY <1>1, <1>2, ServerStep DEF StartFails

LEMMA EndServedStep ==
    ASSUME AInv, EndServed
    PROVE  AInv'
<1>1. TypeOK' /\ CallOK'
  BY DEF AInv, TypeOK, EndServed, CallOK
<1>2. \A x \in Session : (Heard(x) => Heard(x)') /\ (status[x] = "ended" => status'[x] = "ended")
  BY DEF AInv, TypeOK, EndServed, Heard
<1> QED BY <1>1, <1>2, ServerStep DEF EndServed

LEMMA EndFailsStep ==
    ASSUME AInv, EndFails
    PROVE  AInv'
<1>1. TypeOK' /\ CallOK'
  BY DEF AInv, TypeOK, EndFails, Fails, CallOK
<1>2. \A x \in Session : (Heard(x) => Heard(x)') /\ (status[x] = "ended" => status'[x] = "ended")
  BY DEF AInv, TypeOK, EndFails, Heard
<1> QED BY <1>1, <1>2, ServerStep DEF EndFails

LEMMA ElsewhereStep ==
    ASSUME AInv, NEW s \in Session, StartElsewhere(s) \/ EndElsewhere(s) \/ Rotate(s)
    PROVE  AInv'
<1>1. TypeOK' /\ CallOK'
  BY DEF AInv, TypeOK, StartElsewhere, EndElsewhere, Rotate, CallOK
<1>2. \A x \in Session : (Heard(x) => Heard(x)') /\ (status[x] = "ended" => status'[x] = "ended")
  BY DEF AInv, TypeOK, StartElsewhere, EndElsewhere, Rotate, Heard
<1> QED BY <1>1, <1>2, ServerStep DEF StartElsewhere, EndElsewhere, Rotate

LEMMA PollServedStep ==
    ASSUME AInv, NEW k \in Slot, PollServed(k) \/ PollFails(k)
    PROVE  AInv'
<1>0. TypeOK /\ PageOK /\ CallOK /\ ServerOK /\ polls[k] \in Poll
  BY DEF AInv, TypeOK, PollServed, PollFails
<1>1. PICK a \in {"active", "inactive", "error"} :
        /\ polls' = [polls EXCEPT ![k].answer = a]
        /\ a = "inactive" => polls[k].id \notin offered
  BY DEF PollServed, PollFails
<1>2. /\ UNCHANGED <<status, offered, session, saved, gen, timer, qr, call, made, acts>>
      /\ errors' \in 0..MaxErrors
  BY <1>0 DEF PollServed, PollFails, Fails, TypeOK
<1>3. /\ polls'[k] \in Poll /\ polls'[k] # None
      /\ polls'[k].gen = polls[k].gen /\ polls'[k].id = polls[k].id /\ polls'[k].answer = a
      /\ \A j \in Slot \ {k} : polls'[j] = polls[j]
      /\ polls' \in [Slot -> Poll \cup {None}]
  BY <1>0, <1>1 DEF TypeOK, Poll
<1>4. TypeOK'
  BY <1>0, <1>2, <1>3 DEF TypeOK
<1>5. PageOK'
  <2>1. \A j \in Slot : Live(j)' = Live(j)
    BY <1>0, <1>2, <1>3 DEF Live
  <2>2. OneLoop'
    BY <1>0, <1>2, <2>1 DEF PageOK, OneLoop
  <2>3. \A j \in Slot : polls'[j] # None =>
           polls'[j].gen <= gen' /\ (polls'[j].gen = gen' => polls'[j].id = session')
    BY <1>0, <1>2, <1>3 DEF PageOK
  <2> QED BY <1>0, <1>2, <2>2, <2>3 DEF PageOK, ShowsItsSession
<1>6. ServerOK'
  <2>1. \A s \in Session : Heard(s)' = Heard(s)
    BY <1>2 DEF Heard
  <2>2. session \in Session \cup {None} /\ made \in Session \cup {None} /\ polls[k].id \in Session
    BY <1>0 DEF TypeOK, Poll
  <2>3. a = "inactive" => polls[k].id \in Lapsing \/ status[polls[k].id] = "ended"
    BY <1>0, <1>1, <2>2 DEF ServerOK, Heard, TypeOK
  <2> QED BY <1>0, <1>2, <1>3, <2>2, <2>3 DEF ServerOK, Heard
<1>7. CallOK'
  BY <1>0, <1>2 DEF CallOK
<1> QED BY <1>4, <1>5, <1>6, <1>7 DEF AInv

-----------------------------------------------------------------------------
(* The page's steps.                                                       *)

(* A loop is begun for a session the page has heard of. *)
LEMMA BeginStep ==
    ASSUME AInv, StartPolling(session'), UNCHANGED <<status, offered, acts, errors>>,
           session' \in Session, saved' = session', call' = "idle", made' \in {made, None},
           qr' = qr, qr # None => session' = qr,
           session' = session \/ session' = made
    PROVE  AInv'
<1>0. TypeOK /\ PageOK /\ ServerOK
  BY DEF AInv
<1>1. gen' = gen + 1 /\ timer' = FALSE /\ Ask(polls, gen', session') /\ gen' \in Nat
  BY <1>0 DEF StartPolling, StopPolling, TypeOK
<1>call. PICK c \in Slot :
        polls' = [polls EXCEPT ![c] = [gen |-> gen', id |-> session', answer |-> "none"]]
  BY <1>1 DEF Ask
<1>2. polls \in [Slot -> Poll \cup {None}]
  BY <1>0 DEF TypeOK
<1>3. \A k \in Slot : polls[k] # None => polls[k].gen <= gen' /\ polls[k].gen # gen'
  BY <1>0, <1>1, <1>2 DEF PageOK, TypeOK, Poll
<1>4. /\ polls' \in [Slot -> Poll \cup {None}]
      /\ \A k \in Slot : polls'[k] # None /\ polls'[k].gen = gen' <=> k = c
      /\ \A k \in Slot : polls'[k] # None =>
            /\ polls'[k].gen <= gen'
            /\ polls'[k].gen = gen' => polls'[k].id = session'
            /\ polls'[k] = polls[k] \/ (polls'[k].id = session' /\ polls'[k].answer = "none")
  BY <1>1, <1>2, <1>3, <1>call, AskStep
<1>loop. (\E k \in Slot : Live(k)') /\ \A j, k \in Slot : Live(j)' /\ Live(k)' => j = k
  BY <1>4 DEF Live
<1>5. TypeOK'
  BY <1>0, <1>1, <1>4 DEF TypeOK
<1>6. PageOK'
  BY <1>1, <1>4, <1>loop, BegunOK DEF ShowsItsSession
<1>7. ServerOK'
  <2>1. Heard(session)'
    BY <1>0 DEF ServerOK, Heard
  <2> QED BY <1>0, <1>4, <2>1 DEF ServerOK, Heard
<1>8. CallOK'
  BY DEF CallOK
<1> QED BY <1>5, <1>6, <1>7, <1>8 DEF AInv

LEMMA StartAnsweredStep ==
    ASSUME AInv, StartAnswered
    PROVE  AInv'
<1>1. made \in Session /\ session = None /\ qr = None
  BY DEF AInv, TypeOK, CallOK, StartAnswered, PageOK, ShowsItsSession
<1> QED BY <1>1, BeginStep DEF StartAnswered

LEMMA EndRefusedStep ==
    ASSUME AInv, EndRefused
    PROVE  AInv'
<1>1. session \in Session /\ saved = session /\ (qr # None => session = qr)
  BY DEF AInv, TypeOK, CallOK, EndRefused, PageOK, ShowsItsSession
<1> QED BY <1>1, BeginStep DEF EndRefused

LEMMA StartRefusedStep ==
    ASSUME AInv, StartRefused
    PROVE  AInv'
<1>1. TypeOK' /\ CallOK' /\ session = None
  BY DEF AInv, TypeOK, StartRefused, CallOK
<1> QED BY <1>1, ServerStep DEF StartRefused, Heard

(* The page leaves its session. *)
LEMMA CloseStep ==
    ASSUME AInv, CloseSession, UNCHANGED <<status, offered, made, acts, errors>>,
           polls' \in [Slot -> Poll \cup {None}],
           \A k \in Slot : polls'[k] # None => polls'[k] = polls[k],
           call' = "idle"
    PROVE  AInv'
<1>0. TypeOK /\ PageOK /\ ServerOK
  BY DEF AInv
<1>1. /\ gen' = gen + 1 /\ gen' \in Nat /\ timer' = FALSE
      /\ session' = None /\ saved' = None /\ qr' = None
  BY <1>0 DEF CloseSession, StopPolling, TypeOK
<1>2. TypeOK'
  BY <1>0, <1>1 DEF TypeOK
<1>3. \A k \in Slot : polls'[k] # None => polls'[k].gen <= gen' /\ polls'[k].gen # gen'
  BY <1>0, <1>1 DEF PageOK, TypeOK, Poll
<1>4. PageOK'
  BY <1>1, <1>3, StoppedOK DEF Stopped, Live, ShowsItsSession
<1>5. ServerOK'
  BY <1>0, <1>1 DEF ServerOK, Heard
<1>6. CallOK'
  BY DEF CallOK
<1> QED BY <1>2, <1>4, <1>5, <1>6 DEF AInv

LEMMA EndAnsweredStep ==
    ASSUME AInv, EndAnswered
    PROVE  AInv'
  BY CloseStep DEF EndAnswered, AInv, TypeOK

LEMMA TimerFiresStep ==
    ASSUME AInv, TimerFires
    PROVE  AInv'
<1>0. TypeOK /\ PageOK /\ ServerOK /\ CallOK
  BY DEF AInv
<1>1. /\ timer /\ timer' = FALSE /\ Ask(polls, gen, session)
      /\ UNCHANGED <<status, offered, session, saved, gen, qr, call, made, acts, errors>>
  BY DEF TimerFires
<1>2. session \in Session /\ call = "idle" /\ \A k \in Slot : ~Live(k)
  BY <1>0, <1>1 DEF PageOK, OneLoop, TypeOK
<1>3. \A k \in Slot : polls[k] # None => polls[k].gen <= gen /\ polls[k].gen # gen
  BY <1>0, <1>2 DEF PageOK, Live
<1>call. PICK c \in Slot :
        polls' = [polls EXCEPT ![c] = [gen |-> gen, id |-> session, answer |-> "none"]]
  BY <1>1 DEF Ask
<1>4. /\ polls' \in [Slot -> Poll \cup {None}]
      /\ \A k \in Slot : polls'[k] # None /\ polls'[k].gen = gen <=> k = c
      /\ \A k \in Slot : polls'[k] # None =>
            /\ polls'[k].gen <= gen
            /\ polls'[k].gen = gen => polls'[k].id = session
            /\ polls'[k] = polls[k] \/ (polls'[k].id = session /\ polls'[k].answer = "none")
  BY <1>0, <1>1, <1>2, <1>3, <1>call, AskStep DEF TypeOK
<1>loop. (\E k \in Slot : Live(k)') /\ \A j, k \in Slot : Live(j)' /\ Live(k)' => j = k
  BY <1>1, <1>4 DEF Live
<1>5. TypeOK'
  BY <1>0, <1>1, <1>4 DEF TypeOK
<1>6. PageOK'
  <2>1. saved' = session' /\ ShowsItsSession' /\ session' # None
    BY <1>0, <1>1, <1>2 DEF PageOK, ShowsItsSession
  <2> QED BY <1>1, <1>2, <1>4, <1>loop, <2>1, BegunOK
<1>7. ServerOK' /\ CallOK'
  BY <1>0, <1>1, <1>2, <1>4 DEF ServerOK, Heard, CallOK
<1> QED BY <1>5, <1>6, <1>7 DEF AInv

LEMMA PollAnsweredStep ==
    ASSUME AInv, NEW k \in Slot, PollAnswered(k)
    PROVE  AInv'
<1> DEFINE p == polls[k]
           wanted == Current(p) /\ session = p.id
           closed == wanted /\ p.answer = "inactive"
<1>0. TypeOK /\ PageOK /\ ServerOK /\ CallOK
  BY DEF AInv
<1>1. /\ p # None /\ p \in Poll
      /\ polls' = [polls EXCEPT ![k] = None]
      /\ UNCHANGED <<status, offered, call, made, acts, errors>>
  BY <1>0 DEF PollAnswered, TypeOK
<1>2. /\ polls' \in [Slot -> Poll \cup {None}] /\ polls'[k] = None
      /\ \A j \in Slot \ {k} : polls'[j] = polls[j]
  BY <1>0, <1>1 DEF TypeOK
<1>3. Current(p) => Live(k) /\ session = p.id /\ session # None /\ call = "idle" /\ ~timer
                    /\ \A j \in Slot \ {k} : ~Live(j)
  BY <1>0, <1>1 DEF PageOK, OneLoop, Current, Live, Poll, TypeOK
<1>4. CASE closed /\ CloseSession
  BY <1>1, <1>2, <1>3, <1>4, CloseStep
<1>5. CASE /\ ~closed
           /\ qr' = IF wanted /\ p.answer = "active" THEN p.id
                      ELSE IF Current(p) /\ p.answer = "error" THEN None ELSE qr
           /\ timer' = (timer \/ (Current(p) /\ session # None))
           /\ UNCHANGED <<session, saved, gen>>
  <2>1. qr' \in Session \cup {None} /\ (qr' # None => session = qr')
    BY <1>0, <1>1, <1>5 DEF TypeOK, Poll, PageOK, ShowsItsSession
  <2>2. timer' \in BOOLEAN
    BY <1>0, <1>5 DEF TypeOK
  <2>3. TypeOK'
    BY <1>0, <1>1, <1>2, <1>5, <2>1, <2>2 DEF TypeOK
  <2>4. OneLoop'
    <3>1. ~Live(k)' /\ \A j \in Slot \ {k} : Live(j)' = Live(j)
      BY <1>2, <1>5 DEF Live
    <3>2. CASE Current(p)
      BY <1>1, <1>3, <1>5, <3>1, <3>2 DEF OneLoop
    <3>3. CASE ~Current(p)
      <4>1. ~Live(k)
        BY <3>3 DEF Live, Current
      <4>2. timer' = timer
        BY <1>0, <1>5, <3>3 DEF TypeOK
      <4> QED BY <1>0, <1>1, <1>5, <3>1, <4>1, <4>2 DEF PageOK, OneLoop
    <3> QED BY <3>2, <3>3
  <2>5. PageOK'
    BY <1>0, <1>2, <1>5, <2>1, <2>4 DEF PageOK, ShowsItsSession
  <2>6. ServerOK' /\ CallOK'
    BY <1>0, <1>1, <1>2, <1>5 DEF ServerOK, Heard, CallOK
  <2> QED BY <2>3, <2>5, <2>6 DEF AInv
<1> QED BY <1>4, <1>5 DEF PollAnswered

-----------------------------------------------------------------------------
(* The theorems.                                                           *)

LEMMA InitOK == Init => AInv
<1> SUFFICES ASSUME Init PROVE AInv
  OBVIOUS
<1>1. polls \in [Slot -> Poll \cup {None}] /\ status \in [Session -> {"absent", "active", "ended"}]
  BY DEF Init
<1>2. acts \in 0..MaxActs /\ errors \in 0..MaxErrors
  BY DEF Init
<1>3. TypeOK
  BY <1>1, <1>2 DEF Init, TypeOK
<1> QED BY <1>3 DEF Init, AInv, PageOK, ShowsItsSession, OneLoop, Live, CallOK, ServerOK

LEMMA NextOK == AInv /\ [Next]_vars => AInv'
<1> SUFFICES ASSUME AInv, [Next]_vars PROVE AInv'
  OBVIOUS
<1>1. CASE Load \/ ClickStart \/ ClickEnd
  BY <1>1, LoadStep, ClickStartStep, ClickEndStep
<1>2. CASE PageNext
  BY <1>2, StartAnsweredStep, StartRefusedStep, EndAnsweredStep, EndRefusedStep,
     TimerFiresStep, PollAnsweredStep DEF PageNext
<1>3. CASE ServerNext
  BY <1>3, StartFailsStep, EndServedStep, EndFailsStep, StartServedStep, PollServedStep
     DEF ServerNext
<1>4. CASE \E s \in Session : StartElsewhere(s) \/ EndElsewhere(s) \/ Rotate(s)
  BY <1>4, ElsewhereStep
<1>5. CASE UNCHANGED vars
  BY <1>5 DEF vars, AInv, TypeOK, PageOK, ShowsItsSession, OneLoop, Live, CallOK, ServerOK, Heard
<1> QED BY <1>1, <1>2, <1>3, <1>4, <1>5 DEF Next

(* The inductive invariant: the page's loop, its pending call and what it  *)
(* has heard of the server agree with its session.                         *)
THEOREM PageInvariant == Spec => []AInv
  BY InitOK, NextOK, PTL DEF Spec

(* The page's state is always of its types. *)
THEOREM PageTypes == Spec => []TypeOK
<1>1. AInv => TypeOK
  BY DEF AInv
<1> QED BY <1>1, PageInvariant, PTL

(* No answer of /current, however late, shows a code of a session the page *)
(* has left.                                                               *)
THEOREM ShowsOwnCode == Spec => []ShowsItsSession
<1>1. AInv => ShowsItsSession
  BY DEF AInv, PageOK
<1> QED BY <1>1, PageInvariant, PTL

(* While the page is on a session and is not ending it, exactly one loop   *)
(* polls.                                                                  *)
THEOREM LoopIsOne == Spec => []OneLoop
<1>1. AInv => OneLoop
  BY DEF AInv, PageOK
<1> QED BY <1>1, PageInvariant, PTL

(* The page drops a session whose code does not lapse only when it has     *)
(* ended.                                                                  *)
THEOREM LeavesEndedOnly == Spec => DropsOnlyEnded
<1>1. AInv /\ [Next]_vars =>
        [session # None /\ session \notin Lapsing /\ session' # session
           => status[session] = "ended"]_vars
  <2> SUFFICES ASSUME AInv, Next, session # None, session \notin Lapsing, session' # session
               PROVE  status[session] = "ended"
    BY DEF vars
  <2>1. CASE Load
    BY <2>1 DEF Load, AInv, PageOK
  <2>2. CASE ClickStart \/ ClickEnd
    BY <2>2 DEF ClickStart, ClickEnd
  <2>3. CASE StartAnswered
    BY <2>3 DEF StartAnswered, AInv, CallOK
  <2>4. CASE EndAnswered
    BY <2>4 DEF EndAnswered, AInv, CallOK
  <2>5. CASE \E k \in Slot : PollAnswered(k)
    BY <2>5 DEF PollAnswered, AInv, ServerOK
  <2>6. CASE StartRefused \/ EndRefused \/ TimerFires
    BY <2>6 DEF StartRefused, EndRefused, TimerFires
  <2>7. CASE ServerNext
    BY <2>7 DEF ServerNext, StartFails, EndServed, EndFails, StartServed, PollServed, PollFails
  <2>8. CASE \E s \in Session : StartElsewhere(s) \/ EndElsewhere(s) \/ Rotate(s)
    BY <2>8 DEF StartElsewhere, EndElsewhere, Rotate
  <2> QED BY <2>1, <2>2, <2>3, <2>4, <2>5, <2>6, <2>7, <2>8 DEF Next, PageNext
<1> QED BY <1>1, PageInvariant, PTL DEF Spec, DropsOnlyEnded
=============================================================================
