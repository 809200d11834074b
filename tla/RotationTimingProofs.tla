------------------------ MODULE RotationTimingProofs -------------------------
(***************************************************************************)
(* Proofs about TokenRotation against the clock, for every code lifetime   *)
(* and any number of sessions and instances: a code is replaced only when  *)
(* it is due, and, where the grace covers the delays, always in time.      *)
(***************************************************************************)
EXTENDS TokenRotationProofs

USE TimeAssumption DEF CodeTtl, LeaseTtl, MaxSleep

-----------------------------------------------------------------------------
(* The invariant behind RotationIsDue.                                     *)

(* No rotator has seen the session yet. *)
Untouched(s) ==
    /\ due[s] = NoScore
    /\ lease[s] = 0
    /\ \A i \in Instance : s \notin batch[i]

(* A session is started once: it gets its first due time from the tail of  *)
(* its start, and no rotator has it before.                                *)
StartOK(s) ==
    /\ status[s] = "absent" => opener[s] = None /\ Untouched(s)
    /\ \A i \in Instance :
          /\ opener[s] = i => Untouched(s) \/ (pc[i] = "first" /\ at[i] = s)
          /\ pc[i] \in {"mark", "first"} /\ at[i] = s => opener[s] = i

AtOK(i) == pc[i] \in {"token", "next"} => at[i] \in batch[i]

(* Whoever has rotated a session that others still have in their batch     *)
(* holds its lease for at least as long as the session is not due again.   *)
DueOK(i, s) ==
    s \in batch[i] =>
        /\ due[s] <= lease[s]
        /\ owner[s] = i => due[s] \in {NoScore, 0}

DuePart ==
    /\ \A s \in Session : StartOK(s)
    /\ \A i \in Instance : AtOK(i)
    /\ \A i \in Instance, s \in Session : DueOK(i, s)

DueInv == RInv /\ DuePart

-----------------------------------------------------------------------------
(* Steps that leave the leases alone and set no due time. *)

BatchKept(i) ==
    \A j \in Instance \ {i} : pc'[j] = pc[j] /\ at'[j] = at[j] /\ batch'[j] = batch[j]

(* The tail of a start is begun, ended or given up by its instance only. *)
OpenerKept(i) ==
    \A s \in Session :
        /\ opener'[s] = opener[s] \/ (opener[s] = i /\ opener'[s] = None)
        /\ opener'[s] = i => ~(pc[i] = "first" /\ at[i] = s)

LEMMA DueFrame ==
    ASSUME RInv, DuePart, NEW i \in Instance, BatchKept(i), OpenerKept(i),
           UNCHANGED <<status, lease, owner>>,
           \A s \in Session : due'[s] \in {due[s], NoScore},
           batch'[i] \subseteq batch[i] \cup Due,
           pc'[i] # "first", pc'[i] = "mark" => opener'[at'[i]] = i,
           AtOK(i)'
    PROVE  DuePart'
<1>1. \A s \in Session : lease[s] \in Nat /\ due[s] \in {NoScore} \cup Nat
  BY Bounds DEF RInv, TypeOK
<1>2. ASSUME NEW s \in Session, Untouched(s)
      PROVE  Untouched(s)'
  BY <1>2 DEF Untouched, BatchKept, Due, NoScore
<1>3. ASSUME NEW s \in Session
      PROVE  StartOK(s)'
  <2>1. StartOK(s)
    BY DEF DuePart
  <2>2. status'[s] = "absent" => opener'[s] = None /\ Untouched(s)'
    BY <1>2, <2>1 DEF StartOK, OpenerKept
  <2>3. ASSUME NEW j \in Instance, opener'[s] = j
        PROVE  Untouched(s)' \/ (pc'[j] = "first" /\ at'[j] = s)
    <3>1. opener[s] = j
      BY <2>3 DEF OpenerKept
    <3>2. CASE j = i
      BY <1>2, <2>1, <2>3, <3>1, <3>2 DEF StartOK, OpenerKept
    <3>3. CASE j # i
      BY <1>2, <2>1, <3>1, <3>3 DEF StartOK, BatchKept
    <3> QED BY <3>2, <3>3
  <2>4. ASSUME NEW j \in Instance, pc'[j] \in {"mark", "first"}, at'[j] = s
        PROVE  opener'[s] = j
    <3>1. CASE j = i
      BY <2>4, <3>1
    <3>2. CASE j # i
      BY <2>1, <2>4, <3>2 DEF StartOK, BatchKept, OpenerKept
    <3> QED BY <3>1, <3>2
  <2> QED BY <2>2, <2>3, <2>4 DEF StartOK
<1>4. \A j \in Instance : AtOK(j)'
  BY DEF DuePart, AtOK, BatchKept
<1>5. ASSUME NEW j \in Instance, NEW s \in Session, s \in batch'[j]
      PROVE  due'[s] <= lease'[s] /\ (owner'[s] = j => due'[s] \in {NoScore, 0})
  <2>1. s \in batch[j] \/ due[s] = 0
    BY <1>5 DEF BatchKept, Due
  <2>2. due[s] <= lease[s] /\ (owner[s] = j => due[s] \in {NoScore, 0})
    BY <1>1, <2>1 DEF DuePart, DueOK
  <2> QED BY <1>1, <2>2 DEF NoScore
<1> QED BY <1>3, <1>4, <1>5 DEF DuePart, DueOK

(* What an event loop that sleeps or advances does to its own variables. *)
LEMMA OwnSleep ==
    ASSUME TypeOK, NEW i \in Instance, Sleep(i)
    PROVE  /\ BatchKept(i) /\ pc'[i] = "idle" /\ batch'[i] = {}
           /\ spent'[i] = 0 /\ slept'[i] = 0 /\ at'[i] = None
  BY DEF TypeOK, Sleep, BatchKept

LEMMA OwnAdvance ==
    ASSUME TypeOK, NEW i \in Instance, NEW s, Advance(i, s)
    PROVE  /\ BatchKept(i) /\ pc'[i] \in {"idle", "lock"}
           /\ batch'[i] = batch[i] \ {s}
           /\ pc'[i] = "idle" => Sleep(i)
           /\ pc'[i] = "lock" =>
                 UNCHANGED <<times, spent, slept>>
  BY OwnSleep DEF TypeOK, Advance, BatchKept

LEMMA OwnFinish ==
    ASSUME TypeOK, NEW i \in Instance, Finish(i)
    PROVE  BatchKept(i) /\ pc'[i] = "idle" /\ batch' = batch /\ UNCHANGED slept
  BY DEF TypeOK, Finish, BatchKept

LEMMA QuietStep ==
    ASSUME RInv, DuePart, NEW i \in Instance,
           \/ RotateRead(i) \/ RotateTimes(i) \/ RotateToken(i) \/ RotateError(i)
           \/ \E s \in Session : RotateLost(i, s)
           \/ EndDelete(i) \/ EndHdel(i) \/ Restart(i)
    PROVE  DuePart'
<1>1. TypeOK /\ AtOK(i)
  BY DEF RInv, DuePart
<1>2. UNCHANGED <<status, lease, owner, opener, due>>
  BY DEF RotateRead, RotateTimes, RotateToken, RotateError, RotateLost, EndDelete, EndHdel,
         Restart, redis, handlers
<1>3. /\ BatchKept(i) /\ pc'[i] \notin {"mark", "first"} /\ pc[i] # "first"
      /\ batch'[i] \subseteq batch[i] \cup Due
      /\ AtOK(i)'
  <2>1. CASE RotateRead(i)
    BY <1>1, <2>1, OwnSleep DEF TypeOK, RotateRead, AtOK, BatchKept
  <2>2. CASE RotateTimes(i)
    BY <1>1, <2>2 DEF TypeOK, RotateTimes, AtOK, BatchKept
  <2>3. CASE RotateToken(i)
    BY <1>1, <2>3 DEF TypeOK, RotateToken, Continue, AtOK, BatchKept
  <2>4. CASE RotateError(i)
    BY <1>1, <2>4, OwnSleep, OwnAdvance DEF RotateError, AtOK
  <2>5. CASE \E s \in Session : RotateLost(i, s)
    BY <1>1, <2>5, OwnAdvance DEF RotateLost, AtOK
  <2>6. CASE EndDelete(i)
    BY <1>1, <2>6 DEF TypeOK, EndDelete, Continue, AtOK, BatchKept
  <2>7. CASE EndHdel(i)
    BY <1>1, <2>7, OwnFinish DEF EndHdel, AtOK
  <2>8. CASE Restart(i)
    BY <1>1, <2>8 DEF TypeOK, Restart, AtOK, BatchKept
  <2> QED BY <2>1, <2>2, <2>3, <2>4, <2>5, <2>6, <2>7, <2>8
<1>4. OpenerKept(i)
  BY <1>2, <1>3 DEF OpenerKept
<1> QED BY <1>2, <1>3, <1>4, DueFrame

LEMMA TailStep ==
    ASSUME RInv, DuePart, NEW i \in Instance,
           \/ \E s \in Session : StartReload(i, s) \/ EndZrem(i, s)
           \/ StartToken(i) \/ TailError(i) \/ Crash(i)
    PROVE  DuePart'
<1>1. TypeOK /\ InTail(i)
  BY DEF RInv
<1>2. pc[i] \in {"mark", "first"} => at[i] \in Session /\ opener[at[i]] = i
  BY <1>1 DEF InTail, Tails, DuePart, StartOK
<1>3. ASSUME NEW s \in Session, StartReload(i, s)
      PROVE  DuePart'
  <2>1. /\ BatchKept(i) /\ OpenerKept(i) /\ AtOK(i)' /\ batch' = batch
        /\ pc'[i] = "mark" /\ at'[i] = s /\ opener'[s] = i
        /\ UNCHANGED <<status, lease, owner, due>>
    BY <1>1, <1>3 DEF TypeOK, StartReload, Begin, BatchKept, OpenerKept, AtOK, handlers
  <2> QED BY <2>1, DueFrame
<1>4. ASSUME NEW s \in Session, EndZrem(i, s)
      PROVE  DuePart'
  <2>1. /\ BatchKept(i) /\ OpenerKept(i) /\ AtOK(i)' /\ batch' = batch
        /\ pc'[i] = "del"
        /\ UNCHANGED <<status, lease, owner>>
        /\ \A t \in Session : due'[t] \in {due[t], NoScore}
    BY <1>1, <1>4 DEF TypeOK, EndZrem, Begin, BatchKept, OpenerKept, AtOK, handlers
  <2> QED BY <2>1, DueFrame
<1>5. ASSUME StartToken(i) \/ TailError(i)
      PROVE  DuePart'
  <2>1. BatchKept(i) /\ pc'[i] = "idle" /\ batch' = batch
    BY <1>1, <1>5, OwnFinish DEF StartToken, TailError
  <2>2. OpenerKept(i)
    BY <1>1, <1>2, <1>5 DEF TypeOK, StartToken, TailError, OpenerKept
  <2>3. UNCHANGED <<status, lease, owner, due>>
    BY <1>5 DEF StartToken, TailError, redis
  <2> QED BY <2>1, <2>2, <2>3, DueFrame DEF AtOK
<1>6. ASSUME Crash(i)
      PROVE  DuePart'
  <2>1. BatchKept(i) /\ pc'[i] = "down" /\ batch'[i] = {} /\ OpenerKept(i)
    BY <1>1, <1>6 DEF TypeOK, Crash, BatchKept, OpenerKept
  <2>2. UNCHANGED <<status, lease, owner, due>>
    BY <1>6 DEF Crash, redis
  <2> QED BY <2>1, <2>2, DueFrame DEF AtOK
<1> QED BY <1>3, <1>4, <1>5, <1>6

-----------------------------------------------------------------------------
(* Steps that set a lease or a due time, and the passing of time. *)

(* The loops other than i, and the tails, are as they were. *)
LEMMA StartKept ==
    ASSUME DuePart, NEW i \in Instance, NEW s \in Session, BatchKept(i),
           batch'[i] \subseteq batch[i], pc[i] # "first", pc'[i] \notin {"mark", "first"},
           UNCHANGED <<status, opener>>,
           Untouched(s) => due'[s] = due[s] /\ lease'[s] = lease[s]
    PROVE  StartOK(s)'
  BY DEF DuePart, StartOK, Untouched, BatchKept

LEMMA LockStep ==
    ASSUME RInv, DuePart, NEW i \in Instance, NEW s \in Session, RotateLock(i, s)
    PROVE  DuePart'
<1>1. TypeOK
  BY DEF RInv
<1>2. /\ BatchKept(i) /\ batch' = batch
      /\ pc[i] = "lock" /\ pc'[i] = "token" /\ at'[i] = s /\ s \in batch[i]
      /\ UNCHANGED <<status, opener, due>>
  BY <1>1 DEF TypeOK, RotateLock, BatchKept, handlers
<1>3. \A t \in Session : StartOK(t)'
  <2>1. \A t \in Session : Untouched(t) => lease'[t] = lease[t]
    BY <1>1, <1>2 DEF TypeOK, RotateLock, Untouched
  <2> QED BY <1>2, <2>1, StartKept
<1>4. \A j \in Instance : AtOK(j)'
  BY <1>2 DEF DuePart, AtOK, BatchKept
<1>5. due[s] \in {NoScore, 0} /\ due[s] <= 0
  <2>1. due[s] <= lease[s] /\ (owner[s] = i => due[s] \in {NoScore, 0})
    BY <1>2 DEF DuePart, DueOK
  <2>2. lease[s] = 0 \/ owner[s] = i
    BY DEF RotateLock, Free
  <2> QED BY <1>1, <2>1, <2>2, Bounds DEF TypeOK, NoScore
<1>6. ASSUME NEW j \in Instance, NEW t \in Session
      PROVE  DueOK(j, t)'
  <2>1. CASE t = s
    <3>1. times[i][s] + Grace \in Nat
      BY <1>1, Bounds DEF TypeOK
    <3>2. lease'[s] = times[i][s] + Grace
      BY <1>1 DEF TypeOK, RotateLock
    <3> QED BY <1>1, <1>2, <1>5, <2>1, <3>1, <3>2, Bounds DEF DueOK, TypeOK, NoScore
  <2>2. CASE t # s
    <3>1. lease'[t] = lease[t] /\ owner'[t] = owner[t] /\ due'[t] = due[t]
      BY <1>1, <1>2, <2>2 DEF TypeOK, RotateLock
    <3> QED BY <1>2, <3>1 DEF DuePart, DueOK
  <2> QED BY <2>1, <2>2
<1> QED BY <1>3, <1>4, <1>6 DEF DuePart

(* The lease is at least as long as the time to the new due time. *)
LEMMA NextStep ==
    ASSUME RInv, DuePart, NEW i \in Instance, RotateNext(i)
    PROVE  DuePart'
<1> DEFINE s == at[i]
<1>1. TypeOK /\ Holds(i) /\ AtOK(i)
  BY DEF RInv, DuePart
<1>2. /\ pc[i] = "next" /\ s \in Session /\ s \in batch[i] /\ owner[s] = i
      /\ lease[s] + spent[i] >= times[i][s] + Grace
  BY <1>1 DEF RotateNext, Holds, AtOK
<1>3. /\ BatchKept(i) /\ batch'[i] \subseteq batch[i] \ {s}
      /\ pc'[i] \in {"idle", "lock"}
      /\ UNCHANGED <<status, opener, lease, owner>>
  BY <1>1, OwnAdvance DEF RotateNext, handlers
<1>4. due' = [due EXCEPT ![s] = MaxOf(times[i][s] - spent[i], 0)]
  BY DEF RotateNext
<1>5. due'[s] \in Nat /\ due'[s] <= lease[s]
  <2>1. /\ times[i][s] \in {ReloadTime, DefaultReload}
        /\ spent[i] \in Nat /\ lease[s] \in Nat
    BY <1>1, <1>2, Bounds DEF TypeOK
  <2>2. due'[s] = MaxOf(times[i][s] - spent[i], 0)
    BY <1>1, <1>2, <1>4 DEF TypeOK
  <2> QED BY <1>2, <2>1, <2>2 DEF MaxOf
<1>6. \A t \in Session \ {s} : due'[t] = due[t]
  BY <1>1, <1>2, <1>4 DEF TypeOK
<1>7. ~Untouched(s)
  BY <1>2 DEF Untouched
<1>8. \A t \in Session : StartOK(t)'
  BY <1>2, <1>3, <1>6, <1>7, StartKept
<1>9. \A j \in Instance : AtOK(j)'
  BY <1>3 DEF DuePart, AtOK, BatchKept
<1>10. ASSUME NEW j \in Instance, NEW t \in Session
       PROVE  DueOK(j, t)'
  <2>1. CASE t = s
    BY <1>2, <1>3, <1>5, <2>1 DEF DueOK
  <2>2. CASE t # s
    BY <1>3, <1>6, <2>2 DEF DuePart, DueOK, BatchKept
  <2> QED BY <2>1, <2>2
<1> QED BY <1>8, <1>9, <1>10 DEF DuePart

(* The first due time is set while nobody else knows the session. *)
LEMMA MarkStep ==
    ASSUME RInv, DuePart, NEW i \in Instance, StartMark(i)
    PROVE  DuePart'
<1> DEFINE s == at[i]
<1>1. TypeOK /\ InTail(i)
  BY DEF RInv
<1>2. pc[i] = "mark" /\ s \in Session
  BY <1>1 DEF StartMark, InTail, Tails
<1>3. StartOK(s) /\ opener[s] = i
  BY <1>2 DEF DuePart, StartOK
<1>4. Untouched(s) /\ status[s] # "absent"
  BY <1>1, <1>2, <1>3 DEF StartOK, TypeOK
<1>5. /\ UNCHANGED <<at, batch, status, opener, lease, owner>>
      /\ pc'[i] = "first" /\ \A j \in Instance \ {i} : pc'[j] = pc[j]
      /\ \A t \in Session \ {s} : due'[t] = due[t]
  BY <1>1, <1>2 DEF TypeOK, StartMark, Continue, handlers
<1>6. ASSUME NEW t \in Session
      PROVE  StartOK(t)'
  <2>1. CASE t = s
    BY <1>2, <1>3, <1>4, <1>5, <2>1 DEF StartOK
  <2>2. CASE t # s
    BY <1>2, <1>5, <2>2 DEF DuePart, StartOK, Untouched
  <2> QED BY <2>1, <2>2
<1>7. \A j \in Instance : AtOK(j)'
  BY <1>5 DEF DuePart, AtOK
<1>8. ASSUME NEW j \in Instance, NEW t \in Session
      PROVE  DueOK(j, t)'
  BY <1>4, <1>5 DEF DuePart, DueOK, Untouched
<1> QED BY <1>6, <1>7, <1>8 DEF DuePart

LEMMA DueCommitStep ==
    ASSUME RInv, DuePart, NEW i \in Instance, NEW s \in Session,
           StartCommit(i, s) \/ EndCommit(i, s)
    PROVE  DuePart'
<1>1. TypeOK
  BY DEF RInv
<1>2. UNCHANGED <<pc, at, batch, due, lease, owner>>
  BY DEF StartCommit, EndCommit, redis, loop
<1>3. ASSUME NEW t \in Session
      PROVE  StartOK(t)'
  <2>1. StartOK(t) /\ (Untouched(t)' <=> Untouched(t))
    BY <1>2 DEF DuePart, Untouched
  <2>2. CASE t = s
    <3>1. CASE StartCommit(i, s)
      BY <1>1, <1>2, <2>1, <2>2, <3>1 DEF TypeOK, StartCommit, StartOK
    <3>2. CASE EndCommit(i, s)
      BY <1>1, <1>2, <2>1, <2>2, <3>2 DEF TypeOK, EndCommit, StartOK
    <3> QED BY <3>1, <3>2
  <2>3. CASE t # s
    BY <1>1, <1>2, <2>1, <2>3 DEF TypeOK, StartCommit, EndCommit, StartOK
  <2> QED BY <2>2, <2>3
<1> QED BY <1>2, <1>3 DEF DuePart, AtOK, DueOK

LEMMA DueTickStep ==
    ASSUME RInv, DuePart, Tick
    PROVE  DuePart'
<1>1. TypeOK
  BY DEF RInv
<1>2. UNCHANGED <<status, pc, at, batch, opener>>
  BY DEF Tick, handlers
<1>3. ASSUME NEW s \in Session
      PROVE  /\ due[s] \in {NoScore} \cup Nat /\ lease[s] \in Nat
             /\ due'[s] = IF due[s] = NoScore THEN NoScore ELSE Down(due[s])
             /\ lease'[s] = Down(lease[s])
             /\ \A j \in Instance : owner'[s] = j => owner[s] = j
  BY <1>1, Bounds DEF TypeOK, Tick
<1>4. ASSUME NEW s \in Session
      PROVE  StartOK(s)'
  <2>1. Untouched(s) => Untouched(s)'
    BY <1>2, <1>3 DEF Untouched, Down, MaxOf
  <2> QED BY <1>2, <2>1 DEF DuePart, StartOK
<1>5. ASSUME NEW j \in Instance, NEW s \in Session
      PROVE  DueOK(j, s)'
  BY <1>2, <1>3 DEF DuePart, DueOK, Down, MaxOf, NoScore
<1> QED BY <1>2, <1>4, <1>5 DEF DuePart, AtOK

-----------------------------------------------------------------------------
(* The theorems. *)

LEMMA InitDue == Init => DueInv
<1> SUFFICES ASSUME Init PROVE DueInv
  OBVIOUS
<1>1. \A s \in Session : StartOK(s)
  BY DEF Init, StartOK, Untouched
<1> QED BY <1>1, InitRotation DEF Init, DueInv, DuePart, AtOK, DueOK

LEMMA NextDue ==
    ASSUME MaxStall < ReloadTime + Grace, MaxStall < DefaultReload + Grace
    PROVE  DueInv /\ [Next]_vars => DueInv'
<1> SUFFICES ASSUME DueInv, [Next]_vars PROVE DueInv'
  OBVIOUS
<1> USE DEF DueInv
<1>1. RInv'
  BY NextRotation
<1>2. CASE Tick
  BY <1>1, <1>2, DueTickStep
<1>3. ASSUME NEW i \in Instance, Step(i)
      PROVE  DuePart'
  BY <1>3, QuietStep, TailStep, LockStep, NextStep, MarkStep DEF Step, RotateNow, TailNow
<1>4. ASSUME NEW i \in Instance, RotateError(i) \/ TailError(i) \/ Crash(i) \/ Restart(i)
      PROVE  DuePart'
  BY <1>4, QuietStep, TailStep
<1>5. ASSUME NEW i \in Instance, NEW s \in Session, StartCommit(i, s) \/ EndCommit(i, s)
      PROVE  DuePart'
  BY <1>5, DueCommitStep
<1>6. ASSUME UNCHANGED vars
      PROVE  DuePart'
  BY <1>6 DEF vars, redis, loop, handlers, DuePart, StartOK, Untouched, AtOK, DueOK
<1> QED BY <1>1, <1>2, <1>3, <1>4, <1>5, <1>6 DEF Next

(* A session in the list of a rotator that lags behind is due no later     *)
(* than its lease runs out, and due now when the lease is the rotator's    *)
(* own: what it reads as free is really due.                               *)
THEOREM DueInvariant ==
    ASSUME MaxStall < ReloadTime + Grace, MaxStall < DefaultReload + Grace
    PROVE  Spec => []DueInv
<1> QED BY InitDue, NextDue, PTL DEF Spec

(* A code is replaced only when the session is due at that moment, however *)
(* many instances work from lists they read before, with crashes, restarts *)
(* and failing Redis commands.                                             *)
THEOREM RotatesWhenDue ==
    ASSUME MaxStall < ReloadTime + Grace, MaxStall < DefaultReload + Grace
    PROVE  Spec => RotationIsDue
<1>1. ASSUME DueInv, [Next]_vars, NEW i \in Instance, pc[i] = "token", pc'[i] = "next"
      PROVE  due[at[i]] \in {NoScore, 0}
  BY <1>1 DEF DueInv, RInv, Holds, DuePart, AtOK, DueOK
<1>2. DueInv /\ [Next]_vars =>
        [\A i \in Instance :
            (pc[i] = "token" /\ pc'[i] = "next") => due[at[i]] \in {NoScore, 0}]_vars
  BY <1>1
<1> QED BY <1>2, DueInvariant, PTL DEF Spec, RotationIsDue

-----------------------------------------------------------------------------
(* The invariant behind NoGap, part one: without a fault the keys agree    *)
(* with the state of the session.                                          *)

(* A session that is on has its reload time in the hash. *)
KeysOK(s) ==
    /\ status[s] = "active" /\ due[s] # NoScore => s \in reload /\ due[s] <= ReloadTime
    /\ \A i \in Instance : closer[s][i] > 0 => status[s] = "ended"
    /\ lease[s] > 0 => owner[s] # None
    /\ status[s] # "absent" => Instance # {}

(* What an event loop has read of it is right. *)
SeenOK(i, s) ==
    /\ pc[i] \in {"del", "hdel"} /\ at[i] = s => status[s] = "ended"
    /\ status[s] = "active" =>
         /\ pc[i] \in {"mark", "first"} /\ at[i] = s => s \in reload
         /\ s \in batch[i] => s \in reload /\ due[s] # NoScore
         /\ s \in batch[i] /\ pc[i] \in {"lock", "token", "next"} => times[i][s] = ReloadTime

UpOK(i) ==
    /\ pc[i] # "down"
    /\ pc[i] \notin Rotating => batch[i] = {}

KeysPart ==
    /\ \A s \in Session : KeysOK(s)
    /\ \A i \in Instance : UpOK(i)
    /\ \A i \in Instance, s \in Session : SeenOK(i, s)

(* A step of one event loop leaves the others' variables alone. *)
LoopsKept(i) ==
    \A j \in Instance \ {i} :
        /\ pc'[j] = pc[j] /\ at'[j] = at[j] /\ batch'[j] = batch[j]
        /\ times'[j] = times[j] /\ spent'[j] = spent[j] /\ slept'[j] = slept[j]

LEMMA LoopsSleep ==
    ASSUME TypeOK, NEW i \in Instance, Sleep(i)
    PROVE  /\ LoopsKept(i) /\ pc'[i] = "idle" /\ batch'[i] = {}
           /\ spent'[i] = 0 /\ slept'[i] = 0 /\ at'[i] = None
  BY DEF TypeOK, Sleep, LoopsKept

LEMMA LoopsAdvance ==
    ASSUME TypeOK, NEW i \in Instance, NEW s, Advance(i, s)
    PROVE  /\ LoopsKept(i) /\ batch'[i] = batch[i] \ {s}
           /\ \/ pc'[i] = "idle" /\ batch'[i] = {} /\ spent'[i] = 0 /\ slept'[i] = 0
              \/ pc'[i] = "lock" /\ UNCHANGED <<times, spent, slept>>
  BY LoopsSleep DEF TypeOK, Advance, LoopsKept

LEMMA LoopsFinish ==
    ASSUME TypeOK, NEW i \in Instance, Finish(i)
    PROVE  /\ LoopsKept(i) /\ pc'[i] = "idle" /\ spent'[i] = 0
           /\ UNCHANGED <<batch, times, slept>>
  BY DEF TypeOK, Finish, LoopsKept

LEMMA LoopsBegin ==
    ASSUME TypeOK, NEW i \in Instance, NEW s \in Session, NEW step, Begin(i, step, s),
           UNCHANGED <<batch, times, spent, slept>>
    PROVE  /\ LoopsKept(i) /\ pc[i] = "idle" /\ slept[i] < MaxSleep
           /\ pc'[i] = step /\ at'[i] = s
  BY DEF TypeOK, Begin, LoopsKept

LEMMA LoopsContinue ==
    ASSUME TypeOK, NEW i \in Instance, NEW step, Continue(i, step)
    PROVE  /\ LoopsKept(i) /\ pc'[i] = step
           /\ UNCHANGED <<at, batch, times, spent, slept>>
  BY DEF TypeOK, Continue, LoopsKept

(* The other loops' part of the invariant survives a step that neither     *)
(* takes the keys of an active session away nor brings one back to life.   *)
LEMMA KeysFrame ==
    ASSUME KeysPart, NEW i \in Instance, LoopsKept(i),
           \A s \in Session :
              /\ status'[s] \in {status[s], "ended"}
              /\ status'[s] = "active" =>
                    /\ s \in reload => s \in reload'
                    /\ due[s] # NoScore => due'[s] # NoScore
              /\ KeysOK(s)'
              /\ SeenOK(i, s)',
           UpOK(i)'
    PROVE  KeysPart'
<1>1. ASSUME NEW j \in Instance, j # i
      PROVE  UpOK(j)' /\ \A s \in Session : SeenOK(j, s)'
  BY <1>1 DEF KeysPart, UpOK, SeenOK, LoopsKept
<1> QED BY <1>1 DEF KeysPart

(* Steps of rotate_tokens that read. *)
LEMMA KeysRead ==
    ASSUME RInv, KeysPart, NEW i \in Instance,
           \/ RotateRead(i) \/ RotateTimes(i)
           \/ \E s \in Session : RotateLost(i, s)
    PROVE  KeysPart'
<1>1. TypeOK
  BY DEF RInv
<1>2. UNCHANGED <<status, due, lease, owner, reload, closer>>
  BY DEF RotateRead, RotateTimes, RotateLost, redis, handlers
<1>3. \A s \in Session : KeysOK(s)'
  BY <1>2 DEF KeysPart, KeysOK
<1>4. LoopsKept(i) /\ UpOK(i)' /\ \A s \in Session : SeenOK(i, s)'
  <2>1. CASE RotateRead(i)
    <3>1. CASE Sleep(i)
      BY <1>1, <3>1, LoopsSleep DEF UpOK, SeenOK, Rotating
    <3>2. CASE ~Sleep(i)
      <4>1. /\ LoopsKept(i) /\ pc'[i] = "times" /\ batch'[i] = Due
        BY <1>1, <2>1, <3>2 DEF TypeOK, RotateRead, LoopsKept
      <4> QED BY <1>2, <4>1 DEF KeysPart, KeysOK, UpOK, SeenOK, Due, NoScore, Rotating
    <3> QED BY <3>1, <3>2
  <2>2. CASE RotateTimes(i)
    <3>1. /\ LoopsKept(i) /\ pc'[i] = "lock" /\ batch' = batch
          /\ \A s \in Session : s \in batch[i] \cap reload => times'[i][s] = ReloadTime
      BY <1>1, <2>2 DEF TypeOK, RotateTimes, LoopsKept
    <3> QED BY <1>2, <3>1 DEF KeysPart, UpOK, SeenOK, Rotating
  <2>3. CASE \E s \in Session : RotateLost(i, s)
    <3>1. PICK s \in Session : pc[i] = "lock" /\ Advance(i, s)
      BY <2>3 DEF RotateLost
    <3> QED BY <1>1, <1>2, <3>1, LoopsAdvance DEF KeysPart, UpOK, SeenOK, Rotating
  <2> QED BY <2>1, <2>2, <2>3
<1> QED BY <1>2, <1>3, <1>4, KeysFrame

(* Steps of rotate_tokens that write. *)
LEMMA KeysRotate ==
    ASSUME RInv, DuePart, KeysPart, NEW i \in Instance,
           \/ \E s \in Session : RotateLock(i, s)
           \/ RotateToken(i) \/ RotateNext(i)
    PROVE  KeysPart'
<1>1. TypeOK /\ Holds(i) /\ AtOK(i)
  BY DEF RInv, DuePart
<1>2. UNCHANGED <<status, reload, closer>>
  BY DEF RotateLock, RotateToken, RotateNext, handlers
<1>3. CASE \E s \in Session : RotateLock(i, s)
  <2>1. PICK s \in Session : RotateLock(i, s)
    BY <1>3
  <2>2. LoopsKept(i) /\ pc[i] = "lock" /\ pc'[i] = "token" /\ UNCHANGED <<batch, times, due>>
    BY <1>1, <2>1 DEF TypeOK, RotateLock, LoopsKept
  <2>3. \A t \in Session : owner'[t] = i \/ (owner'[t] = owner[t] /\ lease'[t] = lease[t])
    BY <1>1, <2>1 DEF TypeOK, RotateLock
  <2>4. \A t \in Session : KeysOK(t)'
    BY <1>2, <2>2, <2>3 DEF KeysPart, KeysOK
  <2>5. UpOK(i)' /\ \A t \in Session : SeenOK(i, t)'
    BY <1>2, <2>2 DEF KeysPart, UpOK, SeenOK, Rotating
  <2> QED BY <1>2, <2>2, <2>4, <2>5, KeysFrame
<1>4. CASE RotateToken(i)
  <2>1. LoopsKept(i) /\ pc[i] = "token" /\ pc'[i] = "next"
        /\ UNCHANGED <<at, batch, times, due, lease, owner>>
    BY <1>1, <1>4, LoopsContinue DEF RotateToken
  <2>2. \A t \in Session : KeysOK(t)'
    BY <1>2, <2>1 DEF KeysPart, KeysOK
  <2>3. UpOK(i)' /\ \A t \in Session : SeenOK(i, t)'
    BY <1>2, <2>1 DEF KeysPart, UpOK, SeenOK, Rotating
  <2> QED BY <1>2, <2>1, <2>2, <2>3, KeysFrame
<1>5. CASE RotateNext(i)
  <2>1. PICK s \in Session :
        /\ pc[i] = "next" /\ s = at[i] /\ s \in batch[i]
        /\ Advance(i, s) /\ UNCHANGED <<lease, owner>>
        /\ due' = [due EXCEPT ![s] = MaxOf(times[i][s] - spent[i], 0)]
    BY <1>1, <1>5 DEF RotateNext, Holds, AtOK
  <2>2. \A t \in Session : due'[t] = IF t = s THEN MaxOf(times[i][s] - spent[i], 0) ELSE due[t]
    BY <1>1, <2>1 DEF TypeOK
  <2>3. due'[s] \in Nat /\ due'[s] <= times[i][s]
    <3>1. times[i][s] \in {ReloadTime, DefaultReload} /\ spent[i] \in Nat
      BY <1>1 DEF TypeOK
    <3> QED BY <2>2, <3>1 DEF MaxOf
  <2>4. \A t \in Session : due[t] # NoScore => due'[t] # NoScore
    BY <2>2, <2>3 DEF NoScore
  <2>5. \A t \in Session : KeysOK(t)'
    <3>1. KeysOK(s)'
      BY <1>2, <2>1, <2>3 DEF KeysPart, KeysOK, SeenOK
    <3>2. \A t \in Session \ {s} : KeysOK(t)'
      BY <1>2, <2>1, <2>2 DEF KeysPart, KeysOK
    <3> QED BY <3>1, <3>2
  <2>6. LoopsKept(i) /\ UpOK(i)' /\ \A t \in Session : SeenOK(i, t)'
    BY <1>1, <1>2, <2>1, <2>4, LoopsAdvance DEF KeysPart, UpOK, SeenOK, Rotating
  <2> QED BY <1>2, <2>4, <2>5, <2>6, KeysFrame
<1> QED BY <1>3, <1>4, <1>5

(* The tail of a start: the reload time goes in before the due time. *)
LEMMA KeysStart ==
    ASSUME RInv, DuePart, KeysPart, NEW i \in Instance,
           \/ \E s \in Session : StartReload(i, s)
           \/ StartMark(i) \/ StartToken(i)
    PROVE  KeysPart'
<1>1. TypeOK /\ InTail(i)
  BY DEF RInv
<1>2. UNCHANGED <<status, lease, owner, closer>>
  BY DEF StartReload, StartMark, StartToken, handlers
<1>3. CASE \E s \in Session : StartReload(i, s)
  <2>1. PICK s \in Session : StartReload(i, s)
    BY <1>3
  <2>2. /\ LoopsKept(i) /\ pc[i] = "idle" /\ pc'[i] = "mark" /\ at'[i] = s
        /\ UNCHANGED <<batch, due>> /\ reload' = reload \cup {s}
    BY <1>1, <2>1, LoopsBegin DEF StartReload
  <2>3. \A t \in Session : KeysOK(t)'
    BY <1>2, <2>2 DEF KeysPart, KeysOK
  <2>4. UpOK(i)' /\ \A t \in Session : SeenOK(i, t)'
    BY <1>2, <2>2 DEF KeysPart, UpOK, SeenOK, Rotating
  <2> QED BY <1>2, <2>2, <2>3, <2>4, KeysFrame
<1>4. CASE StartMark(i)
  <2>1. PICK s \in Session : pc[i] = "mark" /\ s = at[i]
    BY <1>1, <1>4 DEF StartMark, InTail, Tails
  <2>2. /\ LoopsKept(i) /\ pc'[i] = "first" /\ UNCHANGED <<at, batch, times, reload>>
    BY <1>1, <1>4, LoopsContinue DEF StartMark
  <2>3. /\ due'[s] \in Nat /\ due'[s] <= ReloadTime
        /\ \A t \in Session \ {s} : due'[t] = due[t]
    BY <1>1, <1>4, <2>1 DEF TypeOK, StartMark, MaxOf
  <2>4. \A t \in Session : due[t] # NoScore => due'[t] # NoScore
    BY <2>3 DEF NoScore
  <2>5. KeysOK(s)'
    BY <1>2, <2>1, <2>2, <2>3 DEF KeysPart, KeysOK, SeenOK
  <2>6. \A t \in Session \ {s} : KeysOK(t)'
    BY <1>2, <2>2, <2>3 DEF KeysPart, KeysOK
  <2>7. UpOK(i)' /\ \A t \in Session : SeenOK(i, t)'
    BY <1>2, <2>1, <2>2, <2>4 DEF KeysPart, UpOK, SeenOK, Rotating
  <2> QED BY <1>2, <2>2, <2>4, <2>5, <2>6, <2>7, KeysFrame
<1>5. CASE StartToken(i)
  <2>1. /\ LoopsKept(i) /\ pc[i] = "first" /\ pc'[i] = "idle"
        /\ UNCHANGED <<batch, times, due, reload>>
    BY <1>1, <1>5, LoopsFinish DEF StartToken
  <2>2. \A t \in Session : KeysOK(t)'
    BY <1>2, <2>1 DEF KeysPart, KeysOK
  <2>3. UpOK(i)' /\ \A t \in Session : SeenOK(i, t)'
    BY <1>2, <2>1 DEF KeysPart, UpOK, SeenOK, Rotating
  <2> QED BY <1>2, <2>1, <2>2, <2>3, KeysFrame
<1> QED BY <1>3, <1>4, <1>5

(* The tail of an end: it takes the keys of an ended session away. *)
LEMMA KeysEnd ==
    ASSUME RInv, KeysPart, NEW i \in Instance,
           \/ \E s \in Session : EndZrem(i, s)
           \/ EndDelete(i) \/ EndHdel(i)
    PROVE  KeysPart'
<1>1. TypeOK /\ InTail(i)
  BY DEF RInv
<1>2. UNCHANGED <<status, lease, owner>>
  BY DEF EndZrem, EndDelete, EndHdel, handlers
<1>3. CASE \E s \in Session : EndZrem(i, s)
  <2>1. PICK s \in Session : EndZrem(i, s)
    BY <1>3
  <2>2. /\ LoopsKept(i) /\ pc[i] = "idle" /\ pc'[i] = "del" /\ at'[i] = s
        /\ UNCHANGED <<batch, reload, closer>>
    BY <1>1, <2>1, LoopsBegin DEF EndZrem, handlers
  <2>3. status[s] = "ended" /\ \A t \in Session \ {s} : due'[t] = due[t]
    BY <1>1, <2>1 DEF TypeOK, EndZrem, KeysPart, KeysOK
  <2>4. \A t \in Session : KeysOK(t)'
    BY <1>2, <2>2, <2>3 DEF KeysPart, KeysOK
  <2>5. UpOK(i)' /\ \A t \in Session : SeenOK(i, t)'
    BY <1>2, <2>2, <2>3 DEF KeysPart, UpOK, SeenOK, Rotating
  <2> QED BY <1>2, <2>2, <2>3, <2>4, <2>5, KeysFrame
<1>4. CASE EndDelete(i)
  <2>1. /\ LoopsKept(i) /\ pc[i] = "del" /\ pc'[i] = "hdel"
        /\ UNCHANGED <<at, batch, times, due, reload, closer>>
    BY <1>1, <1>4, LoopsContinue DEF EndDelete, handlers
  <2>2. \A t \in Session : KeysOK(t)'
    BY <1>2, <2>1 DEF KeysPart, KeysOK
  <2>3. UpOK(i)' /\ \A t \in Session : SeenOK(i, t)'
    BY <1>2, <2>1 DEF KeysPart, UpOK, SeenOK, Rotating
  <2> QED BY <1>2, <2>1, <2>2, <2>3, KeysFrame
<1>5. CASE EndHdel(i)
  <2>1. PICK s \in Session : pc[i] = "hdel" /\ s = at[i]
    BY <1>1, <1>5 DEF EndHdel, InTail, Tails
  <2>2. status[s] = "ended"
    BY <2>1 DEF KeysPart, SeenOK
  <2>3. /\ LoopsKept(i) /\ pc'[i] = "idle" /\ UNCHANGED <<batch, times, due>>
        /\ reload' = reload \ {s}
        /\ \A t \in Session, j \in Instance : closer'[t][j] > 0 => closer[t][j] > 0
    BY <1>1, <1>5, <2>1, LoopsFinish DEF EndHdel, TypeOK, Down, MaxOf
  <2>4. \A t \in Session : KeysOK(t)'
    BY <1>2, <2>2, <2>3 DEF KeysPart, KeysOK
  <2>5. UpOK(i)' /\ \A t \in Session : SeenOK(i, t)'
    BY <1>2, <2>1, <2>2, <2>3 DEF KeysPart, UpOK, SeenOK, Rotating
  <2> QED BY <1>2, <2>2, <2>3, <2>4, <2>5, KeysFrame
<1> QED BY <1>3, <1>4, <1>5

LEMMA KeysCommit ==
    ASSUME RInv, DuePart, KeysPart, NEW i \in Instance, NEW s \in Session,
           StartCommit(i, s) \/ EndCommit(i, s)
    PROVE  KeysPart'
<1>1. TypeOK /\ StartOK(s)
  BY DEF RInv, DuePart
<1>2. UNCHANGED <<pc, at, batch, times, due, lease, owner, reload>>
  BY DEF StartCommit, EndCommit, redis, loop
<1>3. \A t \in Session \ {s} : status'[t] = status[t] /\ closer'[t] = closer[t]
  BY <1>1 DEF TypeOK, StartCommit, EndCommit
<1>4. CASE StartCommit(i, s)
  <2>1. /\ Untouched(s) /\ opener[s] = None
        /\ \A j \in Instance : ~(closer[s][j] > 0)
        /\ status'[s] = "active" /\ closer'[s] = closer[s]
    BY <1>1, <1>4 DEF TypeOK, StartCommit, StartOK, KeysPart, KeysOK
  <2>2. \A j \in Instance : ~(pc[j] \in {"mark", "first", "del", "hdel"} /\ at[j] = s)
    BY <1>1, <1>4, <2>1 DEF StartCommit, StartOK, KeysPart, SeenOK
  <2> QED BY <1>2, <1>3, <2>1, <2>2 DEF KeysPart, KeysOK, UpOK, SeenOK, Untouched
<1>5. CASE EndCommit(i, s)
  <2>1. status'[s] = "ended"
    BY <1>1, <1>5 DEF TypeOK, EndCommit
  <2> QED BY <1>2, <1>3, <2>1 DEF KeysPart, KeysOK, UpOK, SeenOK
<1> QED BY <1>4, <1>5

(* What a unit of time does to a session's countdowns. *)
LEMMA TickStores ==
    ASSUME TypeOK, Tick, NEW s \in Session
    PROVE  /\ due[s] \in {NoScore} \cup Nat /\ token[s] \in Nat /\ lease[s] \in Nat
           /\ due[s] = NoScore => due'[s] = NoScore
           /\ due[s] # NoScore => due'[s] = Down(due[s])
           /\ token'[s] = Down(token[s]) /\ lease'[s] = Down(lease[s])
           /\ lease[s] > 1 => owner'[s] = owner[s]
           /\ owner'[s] # None => owner'[s] = owner[s]
  BY Bounds DEF TypeOK, Tick

LEMMA KeysTick ==
    ASSUME RInv, KeysPart, Tick
    PROVE  KeysPart'
<1>1. TypeOK
  BY DEF RInv
<1>2. UNCHANGED <<status, reload, pc, at, batch, times, closer>>
  BY DEF Tick, handlers
<1>3. ASSUME NEW s \in Session
      PROVE  KeysOK(s)' /\ (due[s] # NoScore => due'[s] # NoScore)
  BY <1>1, <1>2, TickStores DEF KeysPart, KeysOK, Down, MaxOf, NoScore
<1> QED BY <1>2, <1>3 DEF KeysPart, UpOK, SeenOK

-----------------------------------------------------------------------------
(* Part two: how long a lease and a code last.  What is left of them is    *)
(* compared with how long it takes the instance that keeps the session     *)
(* going to come to it again.                                              *)

(* From the beginning of an iteration to its successor's first read. *)
Cycle == MaxStall + MaxSleep

(* The longest until the rotator of i reads the due sessions again. *)
Late(i) == IF pc[i] \in Rotating THEN Cycle - spent[i] ELSE MaxSleep - slept[i]

(* A countdown at n does not run out before i has handled the session: in  *)
(* the iteration under way, or in the next one and the next after it is    *)
(* due.                                                                    *)
Outlasts(n, i, s) ==
    IF s \in batch[i]
      THEN n + spent[i] > MaxStall
      ELSE /\ n > Late(i) + MaxStall
           /\ due[s] > 0 => n > due[s] - 1 + Cycle + MaxStall

On(s) == status[s] = "active" /\ due[s] # NoScore

(* The owner of a lease comes back before it runs out. *)
LeaseLasts(i, s) ==
    On(s) /\ lease[s] > 0 /\ owner[s] = i =>
        (pc[i] \in {"token", "next"} /\ at[i] = s) \/ Outlasts(lease[s], i, s)

(* Whoever may rotate the session comes to it before the code runs out. *)
CodeLasts(i, s) ==
    On(s) /\ opener[s] = None /\ (lease[s] = 0 \/ owner[s] = i) =>
        IF pc[i] = "next" /\ at[i] = s
          THEN token[s] + spent[i] >= ReloadTime + Grace
          ELSE Outlasts(token[s], i, s)

LastsPart == \A i \in Instance, s \in Session : LeaseLasts(i, s) /\ CodeLasts(i, s)

GapInv == DueInv /\ KeysPart /\ LastsPart

(* Nothing of a session's that is on has changed. *)
StoresKept(s) ==
    /\ On(s)' => On(s)
    /\ due'[s] = due[s] /\ token'[s] = token[s] /\ lease'[s] = lease[s]
    /\ owner'[s] = owner[s] /\ opener'[s] = opener[s]

(* A step of one loop, seen from the others: it changes nothing of a       *)
(* session, or makes it the loop's own, or the session is not on yet.      *)
LEMMA LastsFrame ==
    ASSUME LastsPart, NEW i \in Instance, LoopsKept(i),
           \A s \in Session :
              \/ StoresKept(s)
              \/ ~On(s)'
              \/ lease'[s] > 0 /\ lease'[s] # 0 /\ owner'[s] = i
              \/ lease'[s] = 0 /\ ~(lease'[s] > 0) /\ opener'[s] # None,
           \A s \in Session : LeaseLasts(i, s)' /\ CodeLasts(i, s)'
    PROVE  LastsPart'
<1>1. ASSUME NEW j \in Instance, j # i, NEW s \in Session
      PROVE  LeaseLasts(j, s)' /\ CodeLasts(j, s)'
  <2>1. /\ pc'[j] = pc[j] /\ at'[j] = at[j] /\ batch'[j] = batch[j]
        /\ spent'[j] = spent[j] /\ slept'[j] = slept[j]
    BY <1>1 DEF LoopsKept
  <2>2. CASE StoresKept(s)
    <3>1. Late(j)' = Late(j)
      BY <2>1 DEF Late
    <3>2. /\ Outlasts(lease[s], j, s)' <=> Outlasts(lease[s], j, s)
          /\ Outlasts(token[s], j, s)' <=> Outlasts(token[s], j, s)
      BY <2>1, <2>2, <3>1 DEF Outlasts, StoresKept
    <3> QED BY <2>1, <2>2, <3>2 DEF LastsPart, LeaseLasts, CodeLasts, StoresKept
  <2>3. CASE ~StoresKept(s)
    BY <1>1, <2>3 DEF LeaseLasts, CodeLasts
  <2> QED BY <2>2, <2>3
<1> QED BY <1>1 DEF LastsPart

(* A rotator is never more than a whole round away, before a step and      *)
(* after it.                                                               *)
LEMMA LateBounds ==
    ASSUME NEW i \in Instance
    PROVE  /\ Cycle \in Nat
           /\ TypeOK => Late(i) \in 0..Cycle /\ spent[i] \in 0..MaxStall
           /\ TypeOK' => Late(i)' \in 0..Cycle /\ spent'[i] \in 0..MaxStall
<1>1. TypeOK => spent[i] \in 0..MaxStall /\ slept[i] \in 0..MaxSleep
  BY DEF TypeOK
<1>2. TypeOK' => spent'[i] \in 0..MaxStall /\ slept'[i] \in 0..MaxSleep
  BY DEF TypeOK
<1> QED BY <1>1, <1>2 DEF Late, Cycle, Rotating

(* A loop that goes on within its time keeps what it outlasted. *)
LEMMA OutlastsKept ==
    ASSUME TypeOK, TypeOK', NEW i \in Instance, NEW s \in Session, NEW n \in Int,
           Outlasts(n, i, s), due'[s] = due[s],
           \/ s \notin batch[i] /\ s \notin batch'[i] /\ Late(i)' <= Late(i)
           \/ s \in batch[i] /\ s \in batch'[i] /\ spent'[i] = spent[i]
           \/ s \notin batch[i] /\ s \in batch'[i]
    PROVE  Outlasts(n, i, s)'
<1>1. Late(i) \in Nat /\ Late(i)' \in Nat /\ spent[i] \in Nat /\ spent'[i] \in Nat
  BY LateBounds
<1> QED BY <1>1 DEF Outlasts

(* Hence a step of the loop that touches no store keeps what lasts. *)
LEMMA OwnLasts ==
    ASSUME TypeOK, TypeOK', LastsPart, NEW i \in Instance, NEW s \in Session, StoresKept(s),
           ~(pc[i] \in {"token", "next"} /\ at[i] = s),
           ~(pc'[i] = "next" /\ at'[i] = s),
           \A n \in Int : On(s) /\ Outlasts(n, i, s) => Outlasts(n, i, s)'
    PROVE  LeaseLasts(i, s)' /\ CodeLasts(i, s)'
<1>1. token[s] \in Int /\ lease[s] \in Int
  BY Bounds DEF TypeOK
<1>2. LeaseLasts(i, s) /\ CodeLasts(i, s)
  BY DEF LastsPart
<1>3. /\ On(s) /\ Outlasts(lease[s], i, s) => Outlasts(lease[s], i, s)'
      /\ On(s) /\ Outlasts(token[s], i, s) => Outlasts(token[s], i, s)'
  <2>1. \A n \in Int : n = lease[s] => (On(s) /\ Outlasts(n, i, s) => Outlasts(lease[s], i, s)')
    BY DEF StoresKept, Outlasts
  <2>2. \A n \in Int : n = token[s] => (On(s) /\ Outlasts(n, i, s) => Outlasts(token[s], i, s)')
    BY DEF StoresKept, Outlasts
  <2> QED BY <1>1, <2>1, <2>2
<1> QED BY <1>2, <1>3 DEF LeaseLasts, CodeLasts, StoresKept

(* The end of an iteration: the next one is near enough. *)
LEMMA SleepOutlasts ==
    ASSUME TypeOK, TypeOK', NEW i \in Instance, Sleep(i), NEW s \in Session, NEW n \in Int,
           Outlasts(n, i, s), s \notin batch[i], due'[s] = due[s],
           pc[i] \in Rotating \/ due[s] > 0
    PROVE  Outlasts(n, i, s)'
<1>1. /\ pc'[i] = "idle" /\ slept'[i] = 0 /\ s \notin batch'[i]
      /\ spent[i] \in 0..MaxStall /\ due[s] \in Int
  BY LoopsSleep, Bounds DEF TypeOK, NoScore
<1>2. Late(i)' = MaxSleep
  BY <1>1 DEF Late, Rotating
<1>3. CASE pc[i] \in Rotating
  <2>1. Late(i) = Cycle - spent[i]
    BY <1>3 DEF Late
  <2> QED BY <1>1, <1>2, <2>1 DEF Outlasts, Cycle
<1>4. CASE due[s] > 0
  BY <1>1, <1>2, <1>4 DEF Outlasts, Cycle
<1> QED BY <1>3, <1>4

(* On to the next session: the others are as near as they were. *)
LEMMA AdvanceOutlasts ==
    ASSUME TypeOK, TypeOK', NEW i \in Instance, NEW s \in Session, Advance(i, s),
           pc[i] \in Rotating, NEW t \in Session \ {s}, NEW n \in Int,
           Outlasts(n, i, t), due'[t] = due[t]
    PROVE  Outlasts(n, i, t)'
<1>1. CASE Sleep(i)
  <2>1. t \notin batch[i]
    BY <1>1, LoopsAdvance, LoopsSleep
  <2> QED BY <1>1, <2>1, SleepOutlasts
<1>2. CASE ~Sleep(i)
  <2>1. pc'[i] = "lock" /\ batch'[i] = batch[i] \ {s} /\ spent'[i] = spent[i]
    BY <1>2, LoopsAdvance DEF Advance, TypeOK
  <2>2. Late(i)' = Late(i)
    BY <2>1 DEF Late, Rotating
  <2> QED BY <2>1, <2>2 DEF Outlasts
<1> QED BY <1>1, <1>2

LEMMA LastsRead ==
    ASSUME RInv, RInv', KeysPart, LastsPart, NEW i \in Instance,
           RotateRead(i) \/ RotateTimes(i)
    PROVE  LastsPart'
<1>1. TypeOK /\ TypeOK'
  BY DEF RInv
<1>2. \A s \in Session : StoresKept(s)
  BY DEF RotateRead, RotateTimes, redis, handlers, StoresKept, On
<1>3. /\ LoopsKept(i) /\ pc[i] \in {"idle", "times"} /\ pc'[i] \in {"idle", "times", "lock"}
  BY <1>1, LoopsSleep DEF TypeOK, RotateRead, RotateTimes, LoopsKept
<1>4. ASSUME NEW s \in Session, NEW n \in Int, On(s), Outlasts(n, i, s)
      PROVE  Outlasts(n, i, s)'
  <2>1. due'[s] = due[s] /\ due[s] \in Nat
    BY <1>1, <1>2, <1>4, Bounds DEF StoresKept, TypeOK, On
  <2>2. CASE RotateRead(i)
    <3>1. batch[i] = {}
      BY <2>2 DEF KeysPart, UpOK, RotateRead, Rotating
    <3>2. CASE Sleep(i)
      <4>1. CASE Due = {}
        <5>1. due[s] > 0
          BY <2>1, <4>1 DEF Due
        <5> QED BY <1>1, <1>4, <2>1, <3>1, <3>2, <5>1, SleepOutlasts
      <4>2. CASE Due # {}
        <5>1. pc'[i] = "times"
          BY <1>1, <2>2, <4>2 DEF RotateRead, TypeOK
        <5> QED BY <1>1, <3>2, <5>1, LoopsSleep
      <4> QED BY <4>1, <4>2
    <3>3. CASE ~Sleep(i)
      <4>1. /\ pc'[i] = "times" /\ batch'[i] = Due /\ spent'[i] = spent[i]
            /\ pc[i] = "idle"
        BY <1>1, <2>2, <3>3 DEF TypeOK, RotateRead
      <4>2. CASE s \in Due
        BY <1>1, <1>4, <2>1, <3>1, <4>1, <4>2, OutlastsKept
      <4>3. CASE s \notin Due
        <5>1. due[s] > 0
          BY <2>1, <4>3 DEF Due
        <5>2. /\ Cycle \in Nat /\ Late(i)' \in 0..Cycle
          BY <1>1, LateBounds
        <5> QED BY <1>4, <2>1, <3>1, <4>1, <4>3, <5>1, <5>2 DEF Outlasts
      <4> QED BY <4>2, <4>3
    <3> QED BY <3>2, <3>3
  <2>3. CASE RotateTimes(i)
    <3>1. pc[i] = "times" /\ pc'[i] = "lock" /\ batch' = batch /\ spent' = spent
      BY <1>1, <2>3 DEF TypeOK, RotateTimes
    <3>2. Late(i)' = Late(i)
      BY <3>1 DEF Late, Rotating
    <3> QED BY <1>4, <2>1, <3>1, <3>2 DEF Outlasts
  <2> QED BY <2>2, <2>3
<1>5. ASSUME NEW s \in Session
      PROVE  LeaseLasts(i, s)' /\ CodeLasts(i, s)'
  BY <1>1, <1>2, <1>3, <1>4, OwnLasts
<1> QED BY <1>2, <1>3, <1>5, LastsFrame

(* A session that is not free is another's: nothing is asked of i. *)
LEMMA LastsLost ==
    ASSUME RInv, RInv', LastsPart, NEW i \in Instance, NEW s \in Session, RotateLost(i, s)
    PROVE  LastsPart'
<1>1. TypeOK /\ TypeOK'
  BY DEF RInv
<1>2. \A t \in Session : StoresKept(t)
  BY DEF RotateLost, redis, handlers, StoresKept, On
<1>3. pc[i] = "lock" /\ LoopsKept(i) /\ pc'[i] \in {"idle", "lock"} /\ Advance(i, s)
  BY <1>1, LoopsAdvance DEF RotateLost
<1>4. LeaseLasts(i, s)' /\ CodeLasts(i, s)'
  BY <1>2 DEF RotateLost, Free, LeaseLasts, CodeLasts, StoresKept
<1>5. ASSUME NEW t \in Session \ {s}
      PROVE  LeaseLasts(i, t)' /\ CodeLasts(i, t)'
  <2>1. ASSUME NEW n \in Int, Outlasts(n, i, t)
        PROVE  Outlasts(n, i, t)'
    BY <1>1, <1>2, <1>3, <2>1, AdvanceOutlasts DEF Rotating, StoresKept
  <2> QED BY <1>1, <1>2, <1>3, <2>1, OwnLasts
<1> QED BY <1>2, <1>3, <1>4, <1>5, LastsFrame

(* Winning the lock: the code still lasts until it is replaced. *)
LEMMA LastsLock ==
    ASSUME RInv, RInv', LastsPart, NEW i \in Instance, NEW s \in Session, RotateLock(i, s)
    PROVE  LastsPart'
<1>1. TypeOK /\ TypeOK'
  BY DEF RInv
<1>2. /\ LoopsKept(i) /\ pc[i] = "lock" /\ pc'[i] = "token" /\ at'[i] = s /\ s \in batch[i]
      /\ UNCHANGED <<status, due, token, opener, batch, spent>>
  BY <1>1 DEF TypeOK, RotateLock, LoopsKept, handlers
<1>3. owner'[s] = i /\ lease'[s] \in Nat \ {0}
  <2>1. times[i][s] + Grace \in Nat \ {0}
    <3>1. times[i][s] \in {ReloadTime, DefaultReload}
      BY <1>1 DEF TypeOK
    <3> QED BY <3>1
  <2> QED BY <1>1, <2>1 DEF TypeOK, RotateLock
<1>4. \A t \in Session \ {s} : StoresKept(t)
  BY <1>1, <1>2 DEF TypeOK, RotateLock, StoresKept, On
<1>5. ASSUME NEW t \in Session, NEW n \in Int, Outlasts(n, i, t)
      PROVE  Outlasts(n, i, t)'
  <2>1. Late(i)' = Late(i)
    BY <1>2 DEF Late, Rotating
  <2> QED BY <1>2, <1>5, <2>1 DEF Outlasts
<1>6. LeaseLasts(i, s)' /\ CodeLasts(i, s)'
  <2>1. On(s)' => On(s)
    BY <1>2 DEF On
  <2>2. On(s) /\ opener[s] = None => Outlasts(token[s], i, s)
    BY <1>2 DEF LastsPart, CodeLasts, RotateLock, Free
  <2>3. Outlasts(token[s], i, s) => Outlasts(token[s], i, s)'
    BY <1>2 DEF Outlasts
  <2> QED BY <1>2, <2>1, <2>2, <2>3 DEF LeaseLasts, CodeLasts
<1>7. ASSUME NEW t \in Session \ {s}
      PROVE  LeaseLasts(i, t)' /\ CodeLasts(i, t)'
  BY <1>1, <1>2, <1>4, <1>5, <1>7, OwnLasts
<1> QED BY <1>2, <1>3, <1>4, <1>6, <1>7, LastsFrame

(* The session an instance is rotating is its own. *)
LEMMA Winner ==
    ASSUME RInv, DuePart, KeysPart, NEW i \in Instance, pc[i] \in {"token", "next"},
           MaxStall < ReloadTime + Grace, MaxStall < DefaultReload + Grace
    PROVE  /\ at[i] \in Session /\ at[i] \in batch[i] /\ owner[at[i]] = i
           /\ times[i][at[i]] \in {ReloadTime, DefaultReload}
           /\ lease[at[i]] \in Nat \ {0}
           /\ lease[at[i]] + spent[i] >= times[i][at[i]] + Grace
           /\ status[at[i]] = "active" =>
                times[i][at[i]] = ReloadTime /\ due[at[i]] # NoScore
<1>1. /\ at[i] \in Session /\ at[i] \in batch[i] /\ owner[at[i]] = i
      /\ lease[at[i]] + spent[i] >= times[i][at[i]] + Grace
  BY DEF RInv, Holds, DuePart, AtOK
<1>2. /\ times[i][at[i]] \in {ReloadTime, DefaultReload} /\ spent[i] \in 0..MaxStall
      /\ lease[at[i]] \in Nat
  BY <1>1, Bounds DEF RInv, TypeOK
<1> QED BY <1>1, <1>2 DEF KeysPart, SeenOK

(* The new code lasts a whole lifetime and the grace. *)
LEMMA LastsToken ==
    ASSUME RInv, RInv', DuePart, KeysPart, LastsPart, NEW i \in Instance, RotateToken(i),
           MaxStall < ReloadTime + Grace, MaxStall < DefaultReload + Grace
    PROVE  LastsPart'
<1>1. TypeOK /\ TypeOK'
  BY DEF RInv
<1>2. /\ LoopsKept(i) /\ pc[i] = "token" /\ pc'[i] = "next"
      /\ UNCHANGED <<status, due, lease, owner, opener, at, batch, spent>>
  BY <1>1, LoopsContinue DEF RotateToken, handlers
<1>3. PICK s \in Session :
        /\ s = at[i] /\ owner[s] = i /\ lease[s] \in Nat \ {0}
        /\ status[s] = "active" => times[i][s] = ReloadTime
  BY <1>2, Winner
<1>4. token'[s] = times[i][s] + Grace /\ \A t \in Session \ {s} : token'[t] = token[t]
  BY <1>1, <1>3 DEF TypeOK, RotateToken
<1>5. \A t \in Session \ {s} : StoresKept(t)
  BY <1>2, <1>4 DEF StoresKept, On
<1>6. LeaseLasts(i, s)' /\ CodeLasts(i, s)'
  <2>1. spent'[i] \in Nat
    BY <1>1 DEF TypeOK
  <2> QED BY <1>2, <1>3, <1>4, <2>1 DEF LeaseLasts, CodeLasts, On
<1>7. ASSUME NEW t \in Session \ {s}
      PROVE  LeaseLasts(i, t)' /\ CodeLasts(i, t)'
  <2>1. ASSUME NEW n \in Int, Outlasts(n, i, t)
        PROVE  Outlasts(n, i, t)'
    <3>1. Late(i)' = Late(i)
      BY <1>2 DEF Late, Rotating
    <3> QED BY <1>2, <2>1, <3>1 DEF Outlasts
  <2> QED BY <1>1, <1>2, <1>3, <1>5, <1>7, <2>1, OwnLasts
<1> QED BY <1>2, <1>3, <1>5, <1>6, <1>7, LastsFrame

(* The round is over: lease and code last through the next one. *)
LEMMA LastsNext ==
    ASSUME RInv, RInv', DuePart, KeysPart, LastsPart, NEW i \in Instance, RotateNext(i),
           MaxStall < ReloadTime + Grace, MaxStall < DefaultReload + Grace,
           2 * MaxStall + MaxSleep <= Grace
    PROVE  LastsPart'
<1>1. TypeOK /\ TypeOK'
  BY DEF RInv
<1>2. PICK s \in Session :
        /\ pc[i] = "next" /\ s = at[i] /\ Advance(i, s)
        /\ owner[s] = i /\ lease[s] \in Nat \ {0}
        /\ lease[s] + spent[i] >= times[i][s] + Grace
        /\ due' = [due EXCEPT ![s] = MaxOf(times[i][s] - spent[i], 0)]
        /\ status[s] = "active" => times[i][s] = ReloadTime /\ due[s] # NoScore
  BY Winner DEF RotateNext
<1>3. /\ LoopsKept(i) /\ s \notin batch'[i]
      /\ pc'[i] \in {"idle", "lock"}
      /\ pc'[i] = "idle" => slept'[i] = 0
      /\ pc'[i] = "lock" => spent'[i] = spent[i]
      /\ UNCHANGED <<status, token, lease, owner, opener>>
  BY <1>1, <1>2, LoopsAdvance DEF RotateNext, handlers
<1>4. /\ due'[s] = MaxOf(times[i][s] - spent[i], 0)
      /\ \A t \in Session \ {s} : due'[t] = due[t]
  BY <1>1, <1>2 DEF TypeOK
<1>5. \A t \in Session \ {s} : StoresKept(t)
  BY <1>3, <1>4 DEF StoresKept, On
<1>6. ASSUME On(s)', NEW n \in Int, n + spent[i] >= ReloadTime + Grace
      PROVE  Outlasts(n, i, s)'
  <2>1. spent[i] \in 0..MaxStall /\ times[i][s] = ReloadTime
    BY <1>1, <1>2, <1>3, <1>6 DEF TypeOK, On
  <2>2. Late(i)' + spent[i] <= Cycle
    BY <1>3, <2>1 DEF Late, Rotating, Cycle
  <2>3. Late(i)' \in Nat
    BY <1>1, LateBounds
  <2>4. n > Late(i)' + MaxStall
    BY <1>6, <2>1, <2>2, <2>3 DEF Cycle
  <2>5. due'[s] > 0 => n > due'[s] - 1 + Cycle + MaxStall
    BY <1>4, <1>6, <2>1 DEF Cycle, MaxOf
  <2> QED BY <1>3, <2>4, <2>5 DEF Outlasts
<1>7. LeaseLasts(i, s)' /\ CodeLasts(i, s)'
  <2>1. On(s)' => On(s) /\ times[i][s] = ReloadTime
    BY <1>2, <1>3 DEF On
  <2>2. On(s)' => Outlasts(lease[s], i, s)'
    <3>1. \A n \in Int : n = lease[s] => (Outlasts(n, i, s)' <=> Outlasts(lease[s], i, s)')
      BY <1>3 DEF Outlasts
    <3> QED BY <1>2, <1>6, <2>1, <3>1
  <2>3. On(s)' /\ opener[s] = None => Outlasts(token[s], i, s)'
    <3>1. \A n \in Int : n = token[s] => (Outlasts(n, i, s)' <=> Outlasts(token[s], i, s)')
      BY <1>3 DEF Outlasts
    <3>2. On(s)' /\ opener[s] = None => token[s] + spent[i] >= ReloadTime + Grace
      BY <1>2, <2>1 DEF LastsPart, CodeLasts
    <3>3. token[s] \in Int
      BY <1>1, Bounds DEF TypeOK
    <3> QED BY <1>6, <3>1, <3>2, <3>3
  <2> QED BY <1>3, <2>2, <2>3 DEF LeaseLasts, CodeLasts
<1>8. ASSUME NEW t \in Session \ {s}
      PROVE  LeaseLasts(i, t)' /\ CodeLasts(i, t)'
  <2>1. ASSUME NEW n \in Int, Outlasts(n, i, t)
        PROVE  Outlasts(n, i, t)'
    BY <1>1, <1>2, <1>4, <2>1, AdvanceOutlasts DEF Rotating
  <2> QED BY <1>1, <1>2, <1>3, <1>5, <1>8, <2>1, OwnLasts
<1> QED BY <1>2, <1>3, <1>5, <1>7, <1>8, LastsFrame

(* A tail keeps the rotator waiting no longer than it may. *)
LEMMA TailOutlasts ==
    ASSUME TypeOK, TypeOK', KeysPart, NEW i \in Instance,
           pc[i] \notin Rotating, pc'[i] \in {"idle"} \cup Tails,
           UNCHANGED <<batch, slept>>,
           NEW s \in Session, due'[s] = due[s], NEW n \in Int, Outlasts(n, i, s)
    PROVE  Outlasts(n, i, s)'
<1>1. batch[i] = {} /\ spent[i] \in 0..MaxStall /\ slept[i] \in 0..MaxSleep
  BY DEF TypeOK, KeysPart, UpOK
<1>2. Late(i)' <= Late(i)
  BY <1>1 DEF Late, Rotating, Tails
<1> QED BY <1>1, <1>2, OutlastsKept

(* Tails that change nothing of a session that is on. *)
LEMMA LastsTail ==
    ASSUME RInv, RInv', KeysPart, LastsPart, NEW i \in Instance,
           \/ \E s \in Session : StartReload(i, s) \/ EndZrem(i, s)
           \/ EndDelete(i) \/ EndHdel(i)
    PROVE  LastsPart'
<1>1. TypeOK /\ TypeOK' /\ InTail(i)
  BY DEF RInv
<1>2. /\ LoopsKept(i) /\ pc[i] \notin Rotating /\ UNCHANGED <<batch, slept>>
      /\ pc'[i] \in {"idle"} \cup Tails
  <2>1. CASE \E s \in Session : StartReload(i, s) \/ EndZrem(i, s)
    BY <1>1, <2>1, LoopsBegin DEF StartReload, EndZrem, Rotating, Tails
  <2>2. CASE EndDelete(i)
    BY <1>1, <2>2, LoopsContinue DEF EndDelete, Rotating, Tails
  <2>3. CASE EndHdel(i)
    BY <1>1, <2>3, LoopsFinish DEF EndHdel, Rotating
  <2> QED BY <2>1, <2>2, <2>3
<1>3. ASSUME NEW s \in Session
      PROVE  StoresKept(s) \/ ~On(s)'
  <2>1. CASE \E t \in Session : StartReload(i, t)
    BY <2>1 DEF StartReload, StoresKept, On, handlers
  <2>2. CASE \E t \in Session : EndZrem(i, t)
    <3>1. PICK t \in Session : EndZrem(i, t)
      BY <2>2
    <3>2. status[t] = "ended" /\ UNCHANGED <<status, token, lease, owner, opener>>
      BY <1>1, <3>1 DEF EndZrem, KeysPart, KeysOK, TypeOK, handlers
    <3>3. s # t => due'[s] = due[s]
      BY <1>1, <3>1 DEF TypeOK, EndZrem
    <3> QED BY <3>2, <3>3 DEF StoresKept, On
  <2>3. CASE EndDelete(i)
    <3>1. /\ at[i] \in Session /\ status[at[i]] = "ended"
          /\ UNCHANGED <<status, due, lease, owner, opener>>
      BY <1>1, <2>3 DEF EndDelete, InTail, Tails, KeysPart, SeenOK, handlers
    <3>2. s # at[i] => token'[s] = token[s]
      BY <1>1, <2>3, <3>1 DEF TypeOK, EndDelete
    <3> QED BY <3>1, <3>2 DEF StoresKept, On
  <2>4. CASE EndHdel(i)
    BY <2>4 DEF EndHdel, StoresKept, On
  <2> QED BY <2>1, <2>2, <2>3, <2>4 DEF EndDelete
<1>4. ASSUME NEW s \in Session
      PROVE  LeaseLasts(i, s)' /\ CodeLasts(i, s)'
  <2>1. CASE StoresKept(s)
    <3>1. ASSUME NEW n \in Int, Outlasts(n, i, s)
          PROVE  Outlasts(n, i, s)'
      BY <1>1, <1>2, <2>1, <3>1, TailOutlasts DEF StoresKept
    <3> QED BY <1>1, <1>2, <2>1, <3>1, OwnLasts DEF Rotating, Tails
  <2>2. CASE ~On(s)'
    BY <2>2 DEF LeaseLasts, CodeLasts
  <2> QED BY <1>3, <2>1, <2>2
<1> QED BY <1>2, <1>3, <1>4, LastsFrame

(* A session becomes due for the first time: it has no lease yet. *)
LEMMA LastsMark ==
    ASSUME RInv, RInv', DuePart, KeysPart, LastsPart, NEW i \in Instance, StartMark(i)
    PROVE  LastsPart'
<1>1. TypeOK /\ TypeOK'
  BY DEF RInv
<1>2. PICK s \in Session : pc[i] = "mark" /\ s = at[i]
  BY DEF RInv, InTail, Tails, StartMark
<1>3. opener[s] = i /\ lease[s] = 0 /\ i # None
  BY <1>1, <1>2 DEF DuePart, StartOK, Untouched, TypeOK
<1>4. /\ LoopsKept(i) /\ pc'[i] = "first"
      /\ UNCHANGED <<status, token, lease, owner, opener, batch, spent, slept>>
  BY <1>1, LoopsContinue DEF StartMark, handlers
<1>5. \A t \in Session \ {s} : StoresKept(t)
  <2>1. \A t \in Session \ {s} : due'[t] = due[t]
    BY <1>1, <1>2 DEF TypeOK, StartMark
  <2> QED BY <1>4, <2>1 DEF StoresKept, On
<1>6. LeaseLasts(i, s)' /\ CodeLasts(i, s)'
  BY <1>3, <1>4 DEF LeaseLasts, CodeLasts
<1>7. ASSUME NEW t \in Session \ {s}
      PROVE  LeaseLasts(i, t)' /\ CodeLasts(i, t)'
  <2>1. ASSUME NEW n \in Int, Outlasts(n, i, t)
        PROVE  Outlasts(n, i, t)'
    BY <1>1, <1>2, <1>4, <1>5, <2>1, TailOutlasts DEF StoresKept, Rotating, Tails
  <2> QED BY <1>1, <1>2, <1>4, <1>5, <2>1, OwnLasts
<1> QED BY <1>3, <1>4, <1>5, <1>6, <1>7, LastsFrame

(* The first code outlasts every instance's delay: any of them may be the  *)
(* first to rotate it.                                                     *)
LEMMA LastsFirst ==
    ASSUME RInv, RInv', DuePart, KeysPart, LastsPart, NEW i \in Instance, StartToken(i),
           2 * MaxStall + MaxSleep <= Grace
    PROVE  LastsPart'
<1>1. TypeOK /\ TypeOK'
  BY DEF RInv
<1>2. PICK s \in Session : pc[i] = "first" /\ s = at[i]
  BY DEF RInv, InTail, Tails, StartToken
<1>3. /\ LoopsKept(i) /\ pc'[i] = "idle"
      /\ UNCHANGED <<status, due, lease, owner, batch, slept>>
  BY <1>1, LoopsFinish DEF StartToken
<1>4. token'[s] = ReloadTime + Grace /\ \A t \in Session \ {s} : StoresKept(t)
  <2>1. /\ token'[s] = ReloadTime + Grace
        /\ \A t \in Session \ {s} : token'[t] = token[t] /\ opener'[t] = opener[t]
    BY <1>1, <1>2 DEF TypeOK, StartToken
  <2> QED BY <1>3, <2>1 DEF StoresKept, On
<1>5. ASSUME NEW j \in Instance, NEW n \in Int, NEW t \in Session, Outlasts(n, j, t)
      PROVE  Outlasts(n, j, t)'
  <2>1. CASE j = i
    BY <1>1, <1>2, <1>3, <1>5, <2>1, TailOutlasts DEF Rotating
  <2>2. CASE j # i
    <3>1. /\ pc'[j] = pc[j] /\ batch'[j] = batch[j]
          /\ spent'[j] = spent[j] /\ slept'[j] = slept[j]
      BY <1>3, <2>2 DEF LoopsKept
    <3>2. Late(j)' = Late(j)
      BY <3>1 DEF Late
    <3> QED BY <1>3, <1>5, <3>1, <3>2 DEF Outlasts
  <2> QED BY <2>1, <2>2
<1>6. ASSUME NEW j \in Instance, NEW t \in Session
      PROVE  LeaseLasts(j, t)'
  <2>1. lease[t] \in Int /\ LeaseLasts(j, t)
    BY <1>1, Bounds DEF TypeOK, LastsPart
  <2>2. \A n \in Int : n = lease[t] => (Outlasts(n, j, t)' <=> Outlasts(lease[t], j, t)')
    BY <1>3 DEF Outlasts
  <2>3. pc[j] \in {"token", "next"} /\ at[j] = t => pc'[j] = pc[j] /\ at'[j] = at[j]
    BY <1>2, <1>3 DEF LoopsKept
  <2> QED BY <1>3, <1>5, <2>1, <2>2, <2>3 DEF LeaseLasts, On
<1>7. ASSUME NEW j \in Instance, On(s)'
      PROVE  Outlasts(token[s], j, s)' /\ token'[s] + spent'[j] >= ReloadTime + Grace
  <2>1. due'[s] \in Int /\ due'[s] <= ReloadTime
    BY <1>1, <1>3, <1>7, Bounds DEF KeysPart, KeysOK, On, TypeOK
  <2>2. Cycle \in Nat /\ Late(j)' \in 0..Cycle /\ spent'[j] \in 0..MaxStall
    BY <1>1, LateBounds
  <2>3. \A n \in Int : n = ReloadTime + Grace =>
          /\ n + spent'[j] > MaxStall /\ n + spent'[j] >= ReloadTime + Grace
          /\ n > Late(j)' + MaxStall
          /\ n > due'[s] - 1 + Cycle + MaxStall
    BY <2>1, <2>2 DEF Cycle
  <2> QED BY <1>4, <2>3 DEF Outlasts
<1>8. ASSUME NEW j \in Instance, NEW t \in Session \ {s}
      PROVE  CodeLasts(j, t)'
  <2>1. token[t] \in Int /\ CodeLasts(j, t)
    BY <1>1, Bounds DEF TypeOK, LastsPart
  <2>2. \A n \in Int : n = token[t] => (Outlasts(n, j, t)' <=> Outlasts(token[t], j, t)')
    BY <1>4 DEF Outlasts, StoresKept
  <2>3. /\ pc'[j] = "next" => pc[j] = "next" /\ at'[j] = at[j] /\ spent'[j] = spent[j]
        /\ pc[j] = "next" => pc'[j] = "next" /\ at'[j] = at[j]
    BY <1>2, <1>3 DEF LoopsKept
  <2> QED BY <1>4, <1>5, <2>1, <2>2, <2>3 DEF CodeLasts, StoresKept
<1> QED BY <1>6, <1>7, <1>8 DEF LastsPart, CodeLasts

LEMMA LastsCommit ==
    ASSUME RInv, DuePart, KeysPart, LastsPart, NEW i \in Instance, NEW s \in Session,
           StartCommit(i, s) \/ EndCommit(i, s)
    PROVE  LastsPart'
<1>1. TypeOK
  BY DEF RInv
<1>2. UNCHANGED <<pc, at, batch, spent, slept, due, token, lease, owner>>
  BY DEF StartCommit, EndCommit, redis, loop
<1>3. ~On(s)'
  <2>1. CASE StartCommit(i, s)
    BY <1>1, <1>2, <2>1 DEF StartCommit, DuePart, StartOK, Untouched, On
  <2>2. CASE EndCommit(i, s)
    BY <1>1, <2>2 DEF TypeOK, EndCommit, On
  <2> QED BY <2>1, <2>2
<1>4. \A t \in Session \ {s} : (On(t)' <=> On(t)) /\ opener'[t] = opener[t]
  BY <1>1, <1>2 DEF TypeOK, StartCommit, EndCommit, On
<1>5. \A j \in Instance : Late(j)' = Late(j)
  BY <1>2 DEF Late
<1>6. ASSUME NEW j \in Instance, NEW t \in Session
      PROVE  LeaseLasts(j, t)' /\ CodeLasts(j, t)'
  <2>1. /\ Outlasts(lease[t], j, t)' <=> Outlasts(lease[t], j, t)
        /\ Outlasts(token[t], j, t)' <=> Outlasts(token[t], j, t)
    BY <1>2, <1>5 DEF Outlasts
  <2> QED BY <1>2, <1>3, <1>4, <2>1 DEF LastsPart, LeaseLasts, CodeLasts
<1> QED BY <1>6 DEF LastsPart

(* A unit of time brings the rotator a unit closer. *)
LEMMA LateTick ==
    ASSUME TypeOK, KeysPart, Tick, NEW i \in Instance
    PROVE  /\ Late(i) >= 1 /\ Late(i)' <= Late(i) - 1
           /\ pc[i] # "idle" => spent[i] < MaxStall /\ spent'[i] = spent[i] + 1
           /\ spent[i] \in Nat /\ Late(i) \in Int /\ Late(i)' \in Int
<1>1. /\ spent[i] \in 0..MaxStall /\ slept[i] \in 0..MaxSleep /\ pc[i] # "down"
      /\ MayWait(i) /\ pc'[i] = pc[i]
      /\ pc[i] \in {"idle"} \cup Rotating \cup Tails
  BY DEF TypeOK, KeysPart, UpOK, Tick
<1>2. /\ spent'[i] = IF pc[i] = "idle" THEN spent[i] ELSE spent[i] + 1
      /\ slept'[i] = IF pc[i] \in Rotating THEN slept[i] ELSE slept[i] + 1
  BY <1>1 DEF Tick
<1>3. CASE pc[i] \in Rotating
  BY <1>1, <1>2, <1>3 DEF Late, Cycle, MayWait, Rotating
<1>4. CASE pc[i] = "idle"
  BY <1>1, <1>2, <1>4 DEF Late, Cycle, MayWait, Rotating
<1>5. CASE pc[i] \in Tails
  BY <1>1, <1>2, <1>5 DEF Late, Cycle, MayWait, Rotating, Tails
<1> QED BY <1>1, <1>3, <1>4, <1>5

LEMMA LastsTick ==
    ASSUME RInv, DuePart, KeysPart, LastsPart, Tick,
           MaxStall < ReloadTime + Grace, MaxStall < DefaultReload + Grace
    PROVE  LastsPart'
<1>1. TypeOK
  BY DEF RInv
<1>2. UNCHANGED <<status, pc, at, batch, opener>>
  BY DEF Tick, handlers
<1>3. ASSUME NEW s \in Session
      PROVE  On(s)' <=> On(s)
  BY <1>1, <1>2, TickStores DEF On, Down, MaxOf, NoScore
<1>4. ASSUME NEW i \in Instance, NEW s \in Session, NEW n \in Int, On(s), Outlasts(n, i, s)
      PROVE  n > 1 /\ \A m \in Int : m = n - 1 => Outlasts(m, i, s)'
  <2>1. s \in batch[i] => pc[i] # "idle"
    BY DEF KeysPart, UpOK, Rotating
  <2>2. /\ due[s] \in Nat /\ due'[s] = Down(due[s])
    BY <1>1, <1>4, TickStores DEF On
  <2>3. CASE s \in batch[i]
    BY <1>1, <1>2, <1>4, <2>1, <2>3, LateTick DEF Outlasts
  <2>4. CASE s \notin batch[i]
    <3>1. n > Late(i) + MaxStall /\ Late(i) >= 1 /\ Late(i)' <= Late(i) - 1
          /\ Late(i) \in Int /\ Late(i)' \in Int
      BY <1>1, <1>4, <2>4, LateTick DEF Outlasts
    <3>2. due'[s] > 0 => due[s] > 0 /\ due'[s] = due[s] - 1
      BY <2>2 DEF Down, MaxOf
    <3>3. due[s] > 0 => n > due[s] - 1 + Cycle + MaxStall
      BY <1>4, <2>4 DEF Outlasts
    <3>4. Cycle \in Nat
      BY DEF Cycle
    <3> QED BY <1>2, <2>2, <2>4, <3>1, <3>2, <3>3, <3>4 DEF Outlasts
  <2> QED BY <2>3, <2>4
<1>5. ASSUME NEW i \in Instance, NEW s \in Session, On(s), lease[s] > 0, owner[s] = i
      PROVE  lease[s] > 1
  <2>1. lease[s] \in Int
    BY <1>1, TickStores
  <2>2. CASE pc[i] \in {"token", "next"} /\ at[i] = s
    <3>1. lease[s] + spent[i] >= times[i][s] + Grace /\ times[i][s] \in {ReloadTime, DefaultReload}
      BY <2>2, Winner
    <3>2. spent[i] < MaxStall /\ spent[i] \in Nat
      BY <1>1, <2>2, LateTick
    <3> QED BY <2>1, <3>1, <3>2
  <2>3. CASE Outlasts(lease[s], i, s)
    BY <1>4, <1>5, <2>1, <2>3
  <2> QED BY <1>5, <2>2, <2>3 DEF LastsPart, LeaseLasts
<1>6. ASSUME NEW i \in Instance, NEW s \in Session
      PROVE  LeaseLasts(i, s)'
  <2> SUFFICES ASSUME On(s)', lease'[s] > 0, owner'[s] = i,
                      ~(pc[i] \in {"token", "next"} /\ at[i] = s)
               PROVE  Outlasts(lease[s], i, s)'
    BY <1>2 DEF LeaseLasts
  <2>1. /\ On(s) /\ lease[s] \in Int /\ lease[s] > 1 /\ owner[s] = i
        /\ lease'[s] = lease[s] - 1
    BY <1>1, <1>3, TickStores DEF Down, MaxOf, TypeOK
  <2>2. Outlasts(lease[s], i, s)
    BY <2>1 DEF LastsPart, LeaseLasts
  <2>3. \A m \in Int : m = lease'[s] => Outlasts(m, i, s)'
    BY <1>4, <2>1, <2>2
  <2>4. \A m \in Int : m = lease'[s] => (Outlasts(m, i, s)' <=> Outlasts(lease[s], i, s)')
    BY DEF Outlasts
  <2> QED BY <2>1, <2>3, <2>4
<1>7. ASSUME NEW i \in Instance, NEW s \in Session
      PROVE  CodeLasts(i, s)'
  <2> SUFFICES ASSUME On(s)', opener'[s] = None, lease'[s] = 0 \/ owner'[s] = i
               PROVE  IF pc[i] = "next" /\ at[i] = s
                        THEN token'[s] + spent'[i] >= ReloadTime + Grace
                        ELSE Outlasts(token[s], i, s)'
    BY <1>2 DEF CodeLasts
  <2>1. On(s) /\ opener[s] = None /\ token[s] \in Nat /\ token'[s] = Down(token[s])
    BY <1>1, <1>2, <1>3, TickStores
  <2>2. lease[s] = 0 \/ owner[s] = i
    <3>1. CASE lease'[s] = 0
      <4>1. lease[s] \in Nat /\ lease[s] <= 1
        BY <1>1, <3>1, TickStores DEF Down, MaxOf
      <4>2. lease[s] > 0 => owner[s] \in Instance
        BY <1>1 DEF KeysPart, KeysOK, TypeOK
      <4> QED BY <1>5, <2>1, <4>1, <4>2
    <3>2. CASE owner'[s] = i
      BY <1>1, <3>2, TickStores DEF TypeOK
    <3> QED BY <3>1, <3>2
  <2>3. CASE pc[i] = "next" /\ at[i] = s
    <3>1. token[s] + spent[i] >= ReloadTime + Grace
      BY <2>1, <2>2, <2>3 DEF LastsPart, CodeLasts
    <3>2. spent[i] < MaxStall /\ spent'[i] = spent[i] + 1 /\ spent[i] \in Nat
      BY <1>1, <2>3, LateTick
    <3> QED BY <2>1, <2>3, <3>1, <3>2 DEF Down, MaxOf
  <2>4. CASE ~(pc[i] = "next" /\ at[i] = s)
    <3>1. Outlasts(token[s], i, s)
      BY <2>1, <2>2, <2>4 DEF LastsPart, CodeLasts
    <3>2. token[s] > 1 /\ \A m \in Int : m = token[s] - 1 => Outlasts(m, i, s)'
      BY <1>4, <2>1, <3>1
    <3>3. token'[s] = token[s] - 1
      BY <2>1, <3>2 DEF Down, MaxOf
    <3>4. \A m \in Int : m = token'[s] => (Outlasts(m, i, s)' <=> Outlasts(token[s], i, s)')
      BY DEF Outlasts
    <3> QED BY <2>1, <2>4, <3>2, <3>3, <3>4
  <2> QED BY <2>3, <2>4
<1> QED BY <1>6, <1>7 DEF LastsPart

-----------------------------------------------------------------------------
(* The theorems. *)

LEMMA InitGap == Init => GapInv
<1> SUFFICES ASSUME Init PROVE GapInv
  OBVIOUS
<1>1. KeysPart
  BY DEF Init, KeysPart, KeysOK, UpOK, SeenOK
<1>2. LastsPart
  BY DEF Init, LastsPart, LeaseLasts, CodeLasts, On
<1> QED BY <1>1, <1>2, InitDue DEF GapInv

LEMMA NextGap ==
    ASSUME MaxFaults = 0, 2 * MaxStall + MaxSleep <= Grace
    PROVE  GapInv /\ [Next]_vars => GapInv'
<1> SUFFICES ASSUME GapInv, [Next]_vars PROVE GapInv'
  OBVIOUS
<1>1. MaxStall < ReloadTime + Grace /\ MaxStall < DefaultReload + Grace
  OBVIOUS
<1>2. DueInv' /\ RInv /\ RInv' /\ DuePart /\ KeysPart /\ LastsPart
  BY <1>1, NextDue DEF GapInv, DueInv
<1>3. CASE Tick
  BY <1>1, <1>2, <1>3, KeysTick, LastsTick DEF GapInv
<1>4. ASSUME NEW i \in Instance, Step(i)
      PROVE  KeysPart' /\ LastsPart'
  <2>1. KeysPart'
    BY <1>2, <1>4, KeysRead, KeysRotate, KeysStart, KeysEnd DEF Step, RotateNow, TailNow
  <2>2. LastsPart'
    BY <1>1, <1>2, <1>4, LastsRead, LastsLost, LastsLock, LastsToken, LastsNext,
       LastsTail, LastsMark, LastsFirst
       DEF Step, RotateNow, TailNow
  <2> QED BY <2>1, <2>2
<1>5. ASSUME NEW i \in Instance
      PROVE  ~(RotateError(i) \/ TailError(i) \/ Crash(i) \/ Restart(i))
  BY <1>2 DEF RotateError, TailError, Crash, Restart, RInv, TypeOK, KeysPart, UpOK
<1>6. ASSUME NEW i \in Instance, NEW s \in Session, StartCommit(i, s) \/ EndCommit(i, s)
      PROVE  KeysPart' /\ LastsPart'
  BY <1>2, <1>6, KeysCommit, LastsCommit
<1>7. ASSUME UNCHANGED vars
      PROVE  KeysPart' /\ LastsPart'
  BY <1>2, <1>7 DEF vars, redis, loop, handlers, KeysPart, KeysOK, UpOK, SeenOK,
     LastsPart, LeaseLasts, CodeLasts, On, Outlasts, Late
<1> QED BY <1>2, <1>3, <1>4, <1>5, <1>6, <1>7 DEF Next, GapInv

(* A code in reach of its rotator is there.  With no instance at all no    *)
(* session is ever started.                                                *)
LEMMA GapImplies ==
    ASSUME GapInv, 2 * MaxStall + MaxSleep <= Grace
    PROVE  NoGap
<1> SUFFICES ASSUME NEW s \in Session, status[s] = "active", opener[s] = None,
                    due[s] # NoScore
             PROVE  token[s] > 0
  BY DEF NoGap
<1>1. TypeOK /\ KeysPart /\ LastsPart /\ On(s)
  BY DEF GapInv, DueInv, RInv, On
<1>2. PICK i \in Instance : lease[s] = 0 \/ owner[s] = i
  <2>1. lease[s] > 0 => owner[s] \in Instance
    BY <1>1 DEF KeysPart, KeysOK, TypeOK
  <2>2. lease[s] \in Nat
    BY <1>1, Bounds DEF TypeOK
  <2>3. Instance # {}
    BY <1>1 DEF KeysPart, KeysOK, On
  <2> QED BY <2>1, <2>2, <2>3
<1>3. IF pc[i] = "next" /\ at[i] = s
        THEN token[s] + spent[i] >= ReloadTime + Grace
        ELSE Outlasts(token[s], i, s)
  BY <1>1, <1>2 DEF LastsPart, CodeLasts
<1>4. /\ Late(i) \in Nat /\ spent[i] \in 0..MaxStall /\ token[s] \in Nat
  BY <1>1, LateBounds, Bounds DEF TypeOK
<1> QED BY <1>3, <1>4 DEF Outlasts

(* Without a fault, and with a grace of two stalls, the rotator's sleep    *)
(* and its wait for the event loop, lease and code of a session that is on *)
(* last until the instance that keeps it going comes to it again.          *)
THEOREM GapInvariant ==
    ASSUME MaxFaults = 0, 2 * MaxStall + MaxSleep <= Grace
    PROVE  Spec => []GapInv
<1> QED BY InitGap, NextGap, PTL DEF Spec

(* Hence the session has a code at every moment, with any number of        *)
(* sessions and instances that take turns at it.                           *)
THEOREM CodeIsThere ==
    ASSUME MaxFaults = 0, 2 * MaxStall + MaxSleep <= Grace
    PROVE  Spec => []NoGap
<1>1. GapInv => NoGap
  BY GapImplies
<1> QED BY <1>1, GapInvariant, PTL
=============================================================================
