--------------------------- MODULE TokenRotation ----------------------------
(***************************************************************************)
(* The rotation of a session's code by the instances of the application,   *)
(* against the clock: rotate_tokens, the parts of /session/start and       *)
(* /session/end that run after their commit, and the Redis keys they share *)
(* (app/main.py, app/tokens.py).                                           *)
(*                                                                         *)
(* An instance is one event loop.  rotate_tokens and the tails of the two  *)
(* handlers call Redis synchronously, so one of them runs at a time in an  *)
(* instance, while the commands of different instances interleave.         *)
(*                                                                         *)
(* Times are countdowns: what is left of a TTL, of the delay to a due      *)
(* time, of the sleep between two iterations.  Tick lets one unit pass for *)
(* all of them at once.                                                    *)
(***************************************************************************)
EXTENDS Integers

CONSTANTS
    Session, Instance, None,
    ReloadTime,     \* sessions.reload_time, for the model's sessions
    DefaultReload,  \* RELOAD_TIME, used when the hash has no entry
    Grace,          \* the 2 seconds every TTL adds
    TickInterval,   \* TICK_INTERVAL, the sleep of the rotator
    MaxStall,       \* the longest an instance takes from one await to the next
    MaxLag,         \* the longest a rotator that has slept waits for control
    MaxEnds,        \* bound on the unfinished /session/end calls of an instance
    MaxFaults       \* bound on crashes and on Redis commands that raise

NoScore == -1       \* ZSCORE of a session that is not in active_sessions

ASSUME TimeAssumption ==
    /\ ReloadTime \in Nat \ {0}
    /\ DefaultReload \in Nat \ {0}
    /\ Grace \in Nat
    /\ TickInterval \in Nat \ {0}
    /\ MaxStall \in Nat
    /\ MaxLag \in Nat
    /\ MaxEnds \in Nat
    /\ MaxFaults \in Nat
    /\ None \notin Instance \cup Session

VARIABLES
    \* Postgres
    status,     \* sessions.status
    \* Redis
    due,        \* score in active_sessions, less the time now; at least 0
    token,      \* what is left of live_token's TTL, 0 when there is none
    lease,      \* what is left of lock:<session>'s TTL
    owner,      \* the instance id in lock:<session>
    reload,     \* sessions with an entry in session_reload_times
    \* instances
    pc,         \* next step of the event loop
    at,         \* session that step is about
    batch,      \* due sessions the rotator has still to handle
    times,      \* their reload times, as read by get_reload_times
    spent,      \* time since the event loop was last given control
    slept,      \* how long rotate_tokens has slept, the wait after it included
    opener,     \* instance whose /session/start committed and has to go on
    closer,     \* how many /session/end calls of an instance committed and
                \* have to go on
    faults      \* how many faults have happened

redis == <<due, token, lease, owner, reload>>
loop == <<pc, at, batch, times, spent, slept>>
handlers == <<opener, closer>>
vars == <<status, redis, loop, handlers, faults>>

MaxOf(a, b) == IF a > b THEN a ELSE b
Down(n) == MaxOf(n - 1, 0)

MaxReload == MaxOf(ReloadTime, DefaultReload)
MaxSleep == TickInterval + MaxLag

Rotating == {"times", "lock", "token", "next"}
Tails == {"mark", "first", "del", "hdel"}

TypeOK ==
    /\ status \in [Session -> {"absent", "active", "ended"}]
    /\ due \in [Session -> {NoScore} \cup 0..MaxReload]
    /\ token \in [Session -> 0..(MaxReload + Grace)]
    /\ lease \in [Session -> 0..(MaxReload + Grace)]
    /\ owner \in [Session -> Instance \cup {None}]
    /\ reload \subseteq Session
    /\ pc \in [Instance -> {"idle", "down"} \cup Rotating \cup Tails]
    /\ at \in [Instance -> Session \cup {None}]
    /\ batch \in [Instance -> SUBSET Session]
    /\ times \in [Instance -> [Session -> {ReloadTime, DefaultReload}]]
    /\ spent \in [Instance -> 0..MaxStall]
    /\ slept \in [Instance -> 0..MaxSleep]
    /\ opener \in [Session -> Instance \cup {None}]
    /\ closer \in [Session -> [Instance -> 0..MaxEnds]]
    /\ faults \in 0..MaxFaults

Init ==
    /\ status = [s \in Session |-> "absent"]
    /\ due = [s \in Session |-> NoScore]
    /\ token = [s \in Session |-> 0]
    /\ lease = [s \in Session |-> 0]
    /\ owner = [s \in Session |-> None]
    /\ reload = {}
    /\ pc = [i \in Instance |-> "idle"]
    /\ at = [i \in Instance |-> None]
    /\ batch = [i \in Instance |-> {}]
    /\ times = [i \in Instance |-> [s \in Session |-> DefaultReload]]
    /\ spent = [i \in Instance |-> 0]
    /\ slept = [i \in Instance |-> TickInterval]
    /\ opener = [s \in Session |-> None]
    /\ closer = [s \in Session |-> [i \in Instance |-> 0]]
    /\ faults = 0

-----------------------------------------------------------------------------
(* The event loop.                                                         *)

(* The loop gives a handler's tail control, which runs to its end.  A       *)
(* rotator whose sleep is over queues behind everything that is ready by    *)
(* then, tails and other coroutines alike, and behind the I/O of the same   *)
(* round: any number of them run first, until its wait is used up.          *)
Begin(i, step, s) ==
    /\ pc[i] = "idle"
    /\ slept[i] < MaxSleep
    /\ pc' = [pc EXCEPT ![i] = step]
    /\ at' = [at EXCEPT ![i] = s]

Continue(i, step) ==
    /\ pc' = [pc EXCEPT ![i] = step]
    /\ UNCHANGED <<at, batch, times, spent, slept>>

(* The section awaits or returns. *)
Finish(i) ==
    /\ pc' = [pc EXCEPT ![i] = "idle"]
    /\ at' = [at EXCEPT ![i] = None]
    /\ spent' = [spent EXCEPT ![i] = 0]
    /\ UNCHANGED <<batch, times, slept>>

-----------------------------------------------------------------------------
(* The two TTLs: EX reload_time + 2 and PX (reload_time + 2) * 1000.       *)

(* Without the two seconds. *)
CodeTtlExact(t) == t

CodeTtl(t) == t + Grace

(* The parentheses lost: milliseconds for the grace only. *)
LeaseTtlUnscaled(t) == t + 1000 * Grace

(* A lock for the moment of the rotation, not for the round. *)
LeaseTtlMoment(t) == 1

LeaseTtl(t) == t + Grace

-----------------------------------------------------------------------------
(* rotate_tokens.                                                          *)

(* One iteration ends; the rotator sleeps. *)
Sleep(i) ==
    /\ pc' = [pc EXCEPT ![i] = "idle"]
    /\ at' = [at EXCEPT ![i] = None]
    /\ batch' = [batch EXCEPT ![i] = {}]
    /\ times' = [times EXCEPT ![i] = [s \in Session |-> DefaultReload]]
    /\ spent' = [spent EXCEPT ![i] = 0]
    /\ slept' = [slept EXCEPT ![i] = 0]

(* On to the next due session, or to sleep after the last one. *)
Advance(i, s) ==
    LET rest == batch[i] \ {s}
    IN  \/ rest = {} /\ Sleep(i)
        \/ /\ rest # {}
           /\ pc' = [pc EXCEPT ![i] = "lock"]
           /\ at' = [at EXCEPT ![i] = None]
           /\ batch' = [batch EXCEPT ![i] = rest]
           /\ UNCHANGED <<times, spent, slept>>

(* Only sessions whose code is still there. *)
DueAndLive == {s \in Session : due[s] = 0 /\ token[s] > 0}

(* now = time.time(); get_due_sessions(now) *)
Due == {s \in Session : due[s] = 0}

RotateRead(i) ==
    /\ pc[i] = "idle"
    /\ slept[i] >= TickInterval
    /\ \/ /\ Due = {}
          /\ Sleep(i)
       \/ /\ Due # {}
          /\ pc' = [pc EXCEPT ![i] = "times"]
          /\ batch' = [batch EXCEPT ![i] = Due]
          /\ UNCHANGED <<at, times, spent, slept>>
    /\ UNCHANGED <<status, redis, handlers, faults>>

(* get_reload_times: HMGET, with the default where the hash has nothing. *)
RotateTimes(i) ==
    /\ pc[i] = "times"
    /\ pc' = [pc EXCEPT ![i] = "lock"]
    /\ times' = [times EXCEPT ![i] =
          [s \in Session |-> IF s \in batch[i] \cap reload THEN ReloadTime ELSE DefaultReload]]
    /\ UNCHANGED <<at, batch, spent, slept>>
    /\ UNCHANGED <<status, redis, handlers, faults>>

(* No lock at all. *)
FreeAlways(i, s) == TRUE

(* ACQUIRE_LUA: free, or mine already. *)
Free(i, s) == lease[s] = 0 \/ owner[s] = i

RotateLock(i, s) ==
    /\ pc[i] = "lock"
    /\ s \in batch[i]
    /\ Free(i, s)
    /\ lease' = [lease EXCEPT ![s] = LeaseTtl(times[i][s])]
    /\ owner' = [owner EXCEPT ![s] = i]
    /\ pc' = [pc EXCEPT ![i] = "token"]
    /\ at' = [at EXCEPT ![i] = s]
    /\ UNCHANGED <<batch, times, spent, slept>>
    /\ UNCHANGED <<status, due, token, reload, handlers, faults>>

RotateLost(i, s) ==
    /\ pc[i] = "lock"
    /\ s \in batch[i]
    /\ ~Free(i, s)
    /\ Advance(i, s)
    /\ UNCHANGED <<status, redis, handlers, faults>>

(* set_current_token *)
RotateToken(i) ==
    /\ pc[i] = "token"
    /\ token' = [token EXCEPT ![at[i]] = CodeTtl(times[i][at[i]])]
    /\ Continue(i, "next")
    /\ UNCHANGED <<status, due, lease, owner, reload, handlers, faults>>

(* set_next_due(now + reload_time), now being when the iteration began. *)
RotateNext(i) ==
    /\ pc[i] = "next"
    /\ due' = [due EXCEPT ![at[i]] = MaxOf(times[i][at[i]] - spent[i], 0)]
    /\ Advance(i, at[i])
    /\ UNCHANGED <<status, token, lease, owner, reload, handlers, faults>>

(* A Redis command raises: the inner except goes on with the next session, *)
(* the outer one gives the iteration up.                                   *)
RotateError(i) ==
    /\ faults < MaxFaults
    /\ faults' = faults + 1
    /\ \/ pc[i] = "idle" /\ slept[i] >= TickInterval /\ Sleep(i)
       \/ pc[i] = "times" /\ Sleep(i)
       \/ pc[i] = "lock" /\ \E s \in batch[i] : Advance(i, s)
       \/ pc[i] \in {"token", "next"} /\ Advance(i, at[i])
    /\ UNCHANGED <<status, redis, handlers>>

-----------------------------------------------------------------------------
(* /session/start after its commit: HSET, ZADD, SET.                       *)

StartCommit(i, s) ==
    /\ status[s] = "absent"
    /\ pc[i] # "down"
    /\ status' = [status EXCEPT ![s] = "active"]
    /\ opener' = [opener EXCEPT ![s] = i]
    /\ UNCHANGED <<redis, loop, closer, faults>>

StartReload(i, s) ==
    /\ opener[s] = i
    /\ Begin(i, "mark", s)
    /\ reload' = reload \cup {s}
    /\ UNCHANGED <<batch, times, spent, slept>>
    /\ UNCHANGED <<status, due, token, lease, owner, handlers, faults>>

(* mark_session_active(now + reload_time), now being when the tail began. *)
StartMark(i) ==
    /\ pc[i] = "mark"
    /\ due' = [due EXCEPT ![at[i]] = MaxOf(ReloadTime - spent[i], 0)]
    /\ Continue(i, "first")
    /\ UNCHANGED <<status, token, lease, owner, reload, handlers, faults>>

StartToken(i) ==
    /\ pc[i] = "first"
    /\ token' = [token EXCEPT ![at[i]] = CodeTtl(ReloadTime)]
    /\ opener' = [opener EXCEPT ![at[i]] = None]
    /\ Finish(i)
    /\ UNCHANGED <<status, due, lease, owner, reload, closer, faults>>

-----------------------------------------------------------------------------
(* /session/end after its commit: ZREM, DEL, HDEL.  Only a session whose   *)
(* start has answered is ended here; nothing keeps it from being ended     *)
(* again, by several calls whose tails are all still to run.               *)

EndCommit(i, s) ==
    /\ status[s] # "absent"
    /\ opener[s] = None
    /\ closer[s][i] < MaxEnds
    /\ pc[i] # "down"
    /\ status' = [status EXCEPT ![s] = "ended"]
    /\ closer' = [closer EXCEPT ![s][i] = @ + 1]
    /\ UNCHANGED <<redis, loop, opener, faults>>

EndZrem(i, s) ==
    /\ closer[s][i] > 0
    /\ Begin(i, "del", s)
    /\ due' = [due EXCEPT ![s] = NoScore]
    /\ UNCHANGED <<batch, times, spent, slept>>
    /\ UNCHANGED <<status, token, lease, owner, reload, handlers, faults>>

EndDelete(i) ==
    /\ pc[i] = "del"
    /\ token' = [token EXCEPT ![at[i]] = 0]
    /\ Continue(i, "hdel")
    /\ UNCHANGED <<status, due, lease, owner, reload, handlers, faults>>

EndHdel(i) ==
    /\ pc[i] = "hdel"
    /\ reload' = reload \ {at[i]}
    /\ closer' = [closer EXCEPT ![at[i]][i] = Down(@)]
    /\ Finish(i)
    /\ UNCHANGED <<status, due, token, lease, owner, opener, faults>>

-----------------------------------------------------------------------------
(* A Redis command of a tail raises: the handler answers 500 and what is   *)
(* left of the tail is never done.                                         *)
TailError(i) ==
    /\ faults < MaxFaults
    /\ faults' = faults + 1
    /\ \/ /\ pc[i] \in {"mark", "first"}
          /\ opener' = [opener EXCEPT ![at[i]] = None]
          /\ UNCHANGED closer
       \/ /\ pc[i] \in {"del", "hdel"}
          /\ closer' = [closer EXCEPT ![at[i]][i] = Down(@)]
          /\ UNCHANGED opener
    /\ Finish(i)
    /\ UNCHANGED <<status, redis>>

(* An instance dies with everything its event loop held, and comes back    *)
(* under the same name (HOSTNAME).                                         *)
Crash(i) ==
    /\ faults < MaxFaults
    /\ faults' = faults + 1
    /\ pc[i] # "down"
    /\ pc' = [pc EXCEPT ![i] = "down"]
    /\ at' = [at EXCEPT ![i] = None]
    /\ batch' = [batch EXCEPT ![i] = {}]
    /\ times' = [times EXCEPT ![i] = [s \in Session |-> DefaultReload]]
    /\ spent' = [spent EXCEPT ![i] = 0]
    /\ slept' = [slept EXCEPT ![i] = 0]
    /\ opener' = [s \in Session |-> IF opener[s] = i THEN None ELSE opener[s]]
    /\ closer' = [s \in Session |-> [closer[s] EXCEPT ![i] = 0]]
    /\ UNCHANGED <<status, redis>>

(* rotate_tokens starts without a sleep. *)
Restart(i) ==
    /\ pc[i] = "down"
    /\ pc' = [pc EXCEPT ![i] = "idle"]
    /\ slept' = [slept EXCEPT ![i] = TickInterval]
    /\ UNCHANGED <<status, redis, at, batch, times, spent, handlers, faults>>

-----------------------------------------------------------------------------
(* Time passes, unless an instance has used up its stall, or its rotator   *)
(* has waited for as long as it may.  The time an event loop is idle here  *)
(* is also that of all its other callbacks.                                *)

MayWait(i) ==
    \/ pc[i] = "down"
    \/ /\ pc[i] # "idle" => spent[i] < MaxStall
       /\ pc[i] \notin Rotating => slept[i] < MaxSleep

Tick ==
    /\ \A i \in Instance : MayWait(i)
    /\ due' = [s \in Session |-> IF due[s] = NoScore THEN NoScore ELSE Down(due[s])]
    /\ token' = [s \in Session |-> Down(token[s])]
    /\ lease' = [s \in Session |-> Down(lease[s])]
    /\ owner' = [s \in Session |-> IF lease[s] <= 1 THEN None ELSE owner[s]]
    /\ spent' = [i \in Instance |->
                   IF pc[i] \in {"idle", "down"} THEN spent[i] ELSE spent[i] + 1]
    /\ slept' = [i \in Instance |->
                   IF pc[i] = "down" \/ pc[i] \in Rotating
                     THEN slept[i] ELSE slept[i] + 1]
    /\ UNCHANGED <<status, reload, pc, at, batch, times, handlers, faults>>

-----------------------------------------------------------------------------
RotateNow(i) ==
    \/ RotateRead(i) \/ RotateTimes(i) \/ RotateToken(i) \/ RotateNext(i)
    \/ \E s \in Session : RotateLock(i, s) \/ RotateLost(i, s)

TailNow(i) ==
    \/ \E s \in Session : StartReload(i, s) \/ EndZrem(i, s)
    \/ StartMark(i) \/ StartToken(i) \/ EndDelete(i) \/ EndHdel(i)

Step(i) == RotateNow(i) \/ TailNow(i)

Next ==
    \/ Tick
    \/ \E i \in Instance :
        \/ Step(i) \/ RotateError(i) \/ TailError(i) \/ Crash(i) \/ Restart(i)
        \/ \E s \in Session : StartCommit(i, s) \/ EndCommit(i, s)

Spec == Init /\ [][Next]_vars

(* The clock advances and an event loop that is up goes on; nothing says   *)
(* that an instance which died is ever started again.                      *)
FairSpec ==
    /\ Spec
    /\ WF_vars(Tick)
    /\ \A i \in Instance : WF_vars(Step(i))
-----------------------------------------------------------------------------
(* Properties.                                                             *)

(* "Exactly one instance wins each rotation round" (README.md:45): between *)
(* winning a session's lock and setting its next due time an instance is   *)
(* alone, although the lock is a lease that nobody checks again.           *)
OneRotator ==
    \A i, j \in Instance :
        (/\ pc[i] \in {"token", "next"} /\ pc[j] \in {"token", "next"}
         /\ at[i] = at[j]) => i = j

(* A code is replaced only when the session is due at that moment, not     *)
(* when it was due as the rotator read its list: no student's fresh code   *)
(* is invalidated by an instance that lags behind.                         *)
RotationIsDue ==
    [][\A i \in Instance :
        (pc[i] = "token" /\ pc'[i] = "next") => due[at[i]] \in {NoScore, 0}]_vars

(* The two extra seconds of the code's TTL bridge the rotator's sleep, its *)
(* wait for the event loop and its own delays: without a fault a session   *)
(* that is on has a code at every moment, and the instructor's page never  *)
(* sees it as closed.                                                      *)
NoGap ==
    \A s \in Session :
        (status[s] = "active" /\ opener[s] = None /\ due[s] # NoScore)
            => token[s] > 0

(* What GET /current answers: is_session_active and a code. *)
CurrentActive(s) == due[s] # NoScore /\ token[s] > 0

(* Once every /session/end has answered, /current says that the session is *)
(* not active (tests/e2e.py:156).                                          *)
EndedIsInactive ==
    \A s \in Session :
        (status[s] = "ended" /\ \A i \in Instance : closer[s][i] = 0)
            => ~CurrentActive(s)

(* The rotation has no single point of failure (README.md:45): a session   *)
(* left without a code by a crash or an error gets one again from any      *)
(* instance that is up, once the lease of the one that died has run out.   *)
CodeReturns ==
    \A s \in Session :
        due[s] # NoScore ~>
            (token[s] > 0 \/ due[s] = NoScore \/ \A i \in Instance : pc[i] = "down")

-----------------------------------------------------------------------------
(* The inductive invariant TokenRotationProofs proves: an instance between *)
(* winning a session's lock and setting its next due time owns the lease,  *)
(* and the lease outlives the longest stall that is left to it.            *)

Holds(i) ==
    pc[i] \in {"token", "next"} =>
        /\ at[i] \in Session
        /\ owner[at[i]] = i
        /\ lease[at[i]] + spent[i] >= LeaseTtl(times[i][at[i]])

InTail(i) == pc[i] \in Tails => at[i] \in Session

RInv ==
    /\ TypeOK
    /\ \A i \in Instance : Holds(i) /\ InTail(i)
=============================================================================
