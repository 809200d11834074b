------------------------ MODULE TokenRotationProofs -------------------------
(***************************************************************************)
(* Proofs about TokenRotation, for every set of sessions and instances,    *)
(* every code lifetime and every bound on stalls and faults.               *)
(***************************************************************************)
EXTENDS TokenRotation, TLAPS

USE TimeAssumption DEF CodeTtl, LeaseTtl, MaxSleep

-----------------------------------------------------------------------------
(* The invariant by the part of the state it speaks of.                    *)

TypeOfStore ==
    /\ status \in [Session -> {"absent", "active", "ended"}]
    /\ due \in [Session -> {NoScore} \cup 0..MaxReload]
    /\ token \in [Session -> 0..(MaxReload + Grace)]
    /\ lease \in [Session -> 0..(MaxReload + Grace)]
    /\ owner \in [Session -> Instance \cup {None}]
    /\ reload \subseteq Session
    /\ opener \in [Session -> Instance \cup {None}]
    /\ closer \in [Session -> [Instance -> 0..MaxEnds]]
    /\ faults \in 0..MaxFaults

TypeOfLoops ==
    /\ pc \in [Instance -> {"idle", "down"} \cup Rotating \cup Tails]
    /\ at \in [Instance -> Session \cup {None}]
    /\ batch \in [Instance -> SUBSET Session]
    /\ times \in [Instance -> [Session -> {ReloadTime, DefaultReload}]]
    /\ spent \in [Instance -> 0..MaxStall]
    /\ slept \in [Instance -> 0..MaxSleep]

HoldsAll == \A i \in Instance : Holds(i) /\ InTail(i)

(* Before a step and after it. *)
LEMMA InvParts ==
    /\ RInv <=> TypeOfStore /\ TypeOfLoops /\ HoldsAll
    /\ RInv' <=> TypeOfStore' /\ TypeOfLoops' /\ HoldsAll'
  BY DEF RInv, TypeOK, TypeOfStore, TypeOfLoops, HoldsAll

(* The lifetimes the countdowns run in. *)
LEMMA Bounds ==
    /\ MaxReload \in Nat
    /\ \A t \in {ReloadTime, DefaultReload} :
          /\ t \in Nat \ {0}
          /\ t \in 0..MaxReload
          /\ t + Grace \in 1..(MaxReload + Grace)
          /\ \A n \in Nat : MaxOf(t - n, 0) \in 0..MaxReload
  BY SMT DEF MaxReload, MaxOf

(* One call more or one less leaves the counts what they are. *)
LEMMA CloserType ==
    ASSUME closer \in [Session -> [Instance -> 0..MaxEnds]],
           NEW s \in Session, NEW i \in Instance, NEW n \in 0..MaxEnds
    PROVE  [closer EXCEPT ![s][i] = n] \in [Session -> [Instance -> 0..MaxEnds]]
  OBVIOUS

LEMMA Counts ==
    \A n \in 0..MaxEnds : Down(n) \in 0..MaxEnds /\ (n < MaxEnds => n + 1 \in 0..MaxEnds)
  BY DEF Down, MaxOf

-----------------------------------------------------------------------------
(* Steps of one event loop.                                                *)

(* An event loop that changes only its own variables disturbs no other. *)
OthersKept(i) ==
    \A j \in Instance \ {i} :
        /\ pc'[j] = pc[j]
        /\ at'[j] = at[j]
        /\ times'[j] = times[j]
        /\ spent'[j] = spent[j]

(* A loop that is left in no critical step keeps the invariant. *)
LEMMA LoopStep ==
    ASSUME TypeOfLoops, HoldsAll, NEW i \in Instance, OthersKept(i), Holds(i)',
           InTail(i)', UNCHANGED <<lease, owner>>
    PROVE  HoldsAll'
<1> SUFFICES ASSUME NEW j \in Instance
             PROVE  Holds(j)' /\ InTail(j)'
  BY DEF HoldsAll
<1>1. CASE j = i
  BY <1>1
<1>2. CASE j # i
  BY <1>2 DEF HoldsAll, Holds, InTail, OthersKept
<1> QED BY <1>1, <1>2

LEMMA SleepStep ==
    ASSUME TypeOfLoops, HoldsAll, NEW i \in Instance, Sleep(i),
           UNCHANGED <<lease, owner>>
    PROVE  TypeOfLoops' /\ HoldsAll'
<1>1. TypeOfLoops'
  BY DEF TypeOfLoops, Sleep
<1>2. OthersKept(i) /\ pc'[i] = "idle"
  BY DEF OthersKept, Sleep, TypeOfLoops
<1> QED BY <1>1, <1>2, LoopStep DEF Holds, InTail, Tails

LEMMA AdvanceStep ==
    ASSUME TypeOfLoops, HoldsAll, NEW i \in Instance, NEW s, Advance(i, s),
           UNCHANGED <<lease, owner>>
    PROVE  TypeOfLoops' /\ HoldsAll'
<1>1. CASE Sleep(i)
  BY <1>1, SleepStep
<1>2. CASE ~Sleep(i)
  <2> DEFINE rest == batch[i] \ {s}
  <2>0. rest \in SUBSET Session
    BY DEF TypeOfLoops
  <2>1. TypeOfLoops'
    <3>1. /\ pc' = [pc EXCEPT ![i] = "lock"]
          /\ at' = [at EXCEPT ![i] = None]
          /\ batch' = [batch EXCEPT ![i] = rest]
          /\ UNCHANGED <<times, spent, slept>>
      BY <1>2 DEF Advance
    <3> HIDE DEF rest
    <3> QED BY <2>0, <3>1 DEF TypeOfLoops, Rotating
  <2>2. OthersKept(i) /\ pc'[i] = "lock"
    BY <1>2 DEF OthersKept, Advance, TypeOfLoops
  <2> QED BY <2>1, <2>2, LoopStep DEF Holds, InTail, Tails
<1> QED BY <1>1, <1>2

LEMMA FinishStep ==
    ASSUME TypeOfLoops, HoldsAll, NEW i \in Instance, Finish(i),
           UNCHANGED <<lease, owner>>
    PROVE  TypeOfLoops' /\ HoldsAll'
<1>1. TypeOfLoops'
  BY DEF TypeOfLoops, Finish
<1>2. OthersKept(i) /\ pc'[i] = "idle"
  BY DEF OthersKept, Finish, TypeOfLoops
<1> QED BY <1>1, <1>2, LoopStep DEF Holds, InTail, Tails

(* On to a later step of a section, the session and the clock unchanged. *)
LEMMA ContinueStep ==
    ASSUME TypeOfLoops, HoldsAll, NEW i \in Instance,
           NEW step \in Rotating \cup Tails, Continue(i, step),
           step \in {"token", "next"} => pc[i] \in {"token", "next"},
           step \in Tails => pc[i] \in Tails,
           UNCHANGED <<lease, owner>>
    PROVE  TypeOfLoops' /\ HoldsAll'
<1>1. TypeOfLoops'
  BY DEF TypeOfLoops, Continue
<1>2. OthersKept(i) /\ pc'[i] = step
  BY DEF OthersKept, Continue, TypeOfLoops
<1>3. Holds(i)'
  BY <1>2 DEF HoldsAll, Holds, Continue
<1>4. InTail(i)'
  BY <1>2 DEF HoldsAll, InTail, Continue
<1> QED BY <1>1, <1>2, <1>3, <1>4, LoopStep

LEMMA BeginStep ==
    ASSUME TypeOfLoops, HoldsAll, NEW i \in Instance, NEW s \in Session,
           NEW step \in Tails, Begin(i, step, s),
           UNCHANGED <<batch, times, spent, slept, lease, owner>>
    PROVE  TypeOfLoops' /\ HoldsAll'
<1>1. TypeOfLoops'
  BY DEF TypeOfLoops, Begin
<1>2. OthersKept(i) /\ pc'[i] = step /\ at'[i] = s
  BY DEF OthersKept, Begin, TypeOfLoops
<1>3. pc'[i] \notin {"token", "next"}
  BY <1>2 DEF Tails
<1> QED BY <1>1, <1>2, <1>3, LoopStep DEF Holds, InTail

-----------------------------------------------------------------------------
(* The steps of rotate_tokens.                                             *)

(* A step that changes nothing in the stores. *)
LEMMA StoreKept ==
    ASSUME TypeOfStore, UNCHANGED <<status, redis, handlers, faults>>
    PROVE  TypeOfStore' /\ UNCHANGED <<lease, owner>>
  BY DEF TypeOfStore, redis, handlers

LEMMA RotateReadStep ==
    ASSUME RInv, NEW i \in Instance, RotateRead(i)
    PROVE  RInv'
<1> USE InvParts
<1>1. TypeOfStore' /\ UNCHANGED <<lease, owner>>
  BY StoreKept DEF RotateRead
<1>2. CASE Sleep(i)
  BY <1>1, <1>2, SleepStep
<1>3. CASE ~Sleep(i)
  <2>1. TypeOfLoops'
    <3>1. Due \in SUBSET Session
      BY DEF Due
    <3>2. /\ pc' = [pc EXCEPT ![i] = "times"]
          /\ batch' = [batch EXCEPT ![i] = Due]
          /\ UNCHANGED <<at, times, spent, slept>>
      BY <1>3 DEF RotateRead
    <3> QED BY <3>1, <3>2 DEF TypeOfLoops, Rotating
  <2>2. OthersKept(i) /\ pc'[i] = "times"
    BY <1>3 DEF OthersKept, RotateRead, TypeOfLoops
  <2> QED BY <1>1, <2>1, <2>2, LoopStep DEF Holds, InTail, Tails
<1> QED BY <1>2, <1>3

LEMMA RotateTimesStep ==
    ASSUME RInv, NEW i \in Instance, RotateTimes(i)
    PROVE  RInv'
<1> USE InvParts
<1>1. TypeOfStore' /\ UNCHANGED <<lease, owner>>
  BY StoreKept DEF RotateTimes
<1>2. TypeOfLoops'
  BY DEF TypeOfLoops, RotateTimes, Rotating
<1>3. OthersKept(i) /\ pc'[i] = "lock"
  BY DEF OthersKept, RotateTimes, TypeOfLoops
<1> QED BY <1>1, <1>2, <1>3, LoopStep DEF Holds, InTail, Tails

(* The lease is won by an instance that nobody is racing: the one it would *)
(* take the session from still has a lease, and another owner's.           *)
LEMMA RotateLockStep ==
    ASSUME RInv, NEW i \in Instance, NEW s \in Session, RotateLock(i, s),
           MaxStall < ReloadTime + Grace, MaxStall < DefaultReload + Grace
    PROVE  RInv'
<1> USE InvParts
<1> DEFINE ttl == times[i][s] + Grace
<1>0. ttl \in 0..(MaxReload + Grace)
  BY Bounds DEF TypeOfLoops
<1>1. TypeOfStore'
  <2>1. /\ lease' = [lease EXCEPT ![s] = ttl]
        /\ owner' = [owner EXCEPT ![s] = i]
        /\ UNCHANGED <<status, due, token, reload, opener, closer, faults>>
    BY DEF RotateLock, handlers
  <2> HIDE DEF ttl
  <2> QED BY <1>0, <2>1 DEF TypeOfStore
<1>2. TypeOfLoops'
  BY DEF TypeOfLoops, RotateLock, Rotating
<1>3. Holds(i)' /\ InTail(i)'
  <2>1. /\ pc'[i] = "token" /\ at'[i] = s /\ times' = times /\ spent' = spent
        /\ owner'[s] = i /\ lease'[s] = ttl
    BY DEF RotateLock, TypeOfLoops, TypeOfStore
  <2>2. spent[i] \in Nat /\ times[i][s] \in {ReloadTime, DefaultReload}
    BY DEF TypeOfLoops
  <2> QED BY <2>1, <2>2 DEF Holds, InTail, Tails
<1>4. ASSUME NEW j \in Instance, j # i
      PROVE  Holds(j)' /\ InTail(j)'
  <2>1. pc'[j] = pc[j] /\ at'[j] = at[j] /\ times'[j] = times[j] /\ spent'[j] = spent[j]
    BY <1>4 DEF RotateLock, TypeOfLoops
  <2>2. ASSUME pc[j] \in {"token", "next"}
        PROVE  at[j] # s
    <3>1. times[j][at[j]] \in {ReloadTime, DefaultReload}
      BY <2>2 DEF HoldsAll, Holds, TypeOfLoops
    <3>2. lease[at[j]] > 0 /\ owner[at[j]] = j
      BY <2>2, <3>1 DEF HoldsAll, Holds, TypeOfLoops, TypeOfStore
    <3> QED BY <1>4, <3>2 DEF RotateLock, Free
  <2>3. \A x \in Session \ {s} : lease'[x] = lease[x] /\ owner'[x] = owner[x]
    BY DEF RotateLock, TypeOfStore
  <2> QED BY <2>1, <2>2, <2>3 DEF HoldsAll, Holds, InTail
<1> QED BY <1>1, <1>2, <1>3, <1>4 DEF HoldsAll

LEMMA RotateLostStep ==
    ASSUME RInv, NEW i \in Instance, NEW s \in Session, RotateLost(i, s)
    PROVE  RInv'
<1> USE InvParts
<1>1. TypeOfStore' /\ UNCHANGED <<lease, owner>>
  BY StoreKept DEF RotateLost
<1> QED BY <1>1, AdvanceStep DEF RotateLost

LEMMA RotateTokenStep ==
    ASSUME RInv, NEW i \in Instance, RotateToken(i)
    PROVE  RInv'
<1> USE InvParts
<1>1. at[i] \in Session
  BY DEF RotateToken, HoldsAll, Holds
<1>2. times[i][at[i]] + Grace \in 0..(MaxReload + Grace)
  BY <1>1, Bounds DEF TypeOfLoops
<1>3. TypeOfStore' /\ UNCHANGED <<lease, owner>>
  BY <1>2 DEF RotateToken, TypeOfStore, handlers
<1> QED BY <1>3, ContinueStep DEF RotateToken, Rotating, Tails

LEMMA RotateNextStep ==
    ASSUME RInv, NEW i \in Instance, RotateNext(i)
    PROVE  RInv'
<1> USE InvParts
<1>1. at[i] \in Session
  BY DEF RotateNext, HoldsAll, Holds
<1>2. MaxOf(times[i][at[i]] - spent[i], 0) \in 0..MaxReload
  BY <1>1, Bounds DEF TypeOfLoops
<1>3. TypeOfStore' /\ UNCHANGED <<lease, owner>>
  BY <1>2 DEF RotateNext, TypeOfStore, handlers
<1> QED BY <1>3, AdvanceStep DEF RotateNext

LEMMA RotateErrorStep ==
    ASSUME RInv, NEW i \in Instance, RotateError(i)
    PROVE  RInv'
<1> USE InvParts
<1>1. TypeOfStore' /\ UNCHANGED <<lease, owner>>
  BY DEF RotateError, TypeOfStore, redis, handlers
<1>2. CASE Sleep(i)
  BY <1>1, <1>2, SleepStep
<1>3. CASE \E s : Advance(i, s)
  BY <1>1, <1>3, AdvanceStep
<1> QED BY <1>2, <1>3 DEF RotateError

-----------------------------------------------------------------------------
(* The tails of the handlers.                                              *)

LEMMA CommitStep ==
    ASSUME RInv, NEW i \in Instance, NEW s \in Session,
           StartCommit(i, s) \/ EndCommit(i, s)
    PROVE  RInv'
<1> USE InvParts
<1>1. TypeOfStore' /\ UNCHANGED <<lease, owner>>
  <2>1. CASE StartCommit(i, s)
    BY <2>1 DEF StartCommit, TypeOfStore, redis
  <2>2. CASE EndCommit(i, s)
    <3>1. closer' \in [Session -> [Instance -> 0..MaxEnds]]
      BY <2>2, CloserType, Counts DEF EndCommit, TypeOfStore
    <3> QED BY <2>2, <3>1 DEF EndCommit, TypeOfStore, redis
  <2> QED BY <2>1, <2>2
<1>2. UNCHANGED <<pc, at, batch, times, spent, slept>>
  BY DEF StartCommit, EndCommit, loop
<1> QED BY <1>1, <1>2 DEF TypeOfLoops, HoldsAll, Holds, InTail

LEMMA TailBeginStep ==
    ASSUME RInv, NEW i \in Instance, NEW s \in Session,
           StartReload(i, s) \/ EndZrem(i, s)
    PROVE  RInv'
<1> USE InvParts
<1>1. TypeOfStore' /\ UNCHANGED <<lease, owner>>
  BY Bounds DEF StartReload, EndZrem, TypeOfStore, handlers, NoScore
<1>2. CASE StartReload(i, s)
  BY <1>1, <1>2, BeginStep DEF StartReload, Tails
<1>3. CASE EndZrem(i, s)
  BY <1>1, <1>3, BeginStep DEF EndZrem, Tails
<1> QED BY <1>2, <1>3

LEMMA TailMiddleStep ==
    ASSUME RInv, NEW i \in Instance, StartMark(i) \/ EndDelete(i)
    PROVE  RInv'
<1> USE InvParts
<1>1. MaxOf(ReloadTime - spent[i], 0) \in 0..MaxReload
  BY Bounds DEF TypeOfLoops
<1>2. TypeOfStore' /\ UNCHANGED <<lease, owner>>
  BY <1>1, Bounds DEF StartMark, EndDelete, TypeOfStore, handlers
<1>3. CASE StartMark(i)
  BY <1>2, <1>3, ContinueStep DEF StartMark, Tails
<1>4. CASE EndDelete(i)
  BY <1>2, <1>4, ContinueStep DEF EndDelete, Tails
<1> QED BY <1>3, <1>4

LEMMA TailEndStep ==
    ASSUME RInv, NEW i \in Instance, StartToken(i) \/ EndHdel(i) \/ TailError(i)
    PROVE  RInv'
<1> USE InvParts
<1>1. TypeOfStore' /\ UNCHANGED <<lease, owner>>
  <2>1. CASE StartToken(i)
    <3>1. ReloadTime + Grace \in 0..(MaxReload + Grace)
      BY Bounds
    <3> QED BY <2>1, <3>1 DEF StartToken, TypeOfStore
  <2>2. ASSUME closer' = [closer EXCEPT ![at[i]][i] = Down(@)], at[i] \in Session
        PROVE  closer' \in [Session -> [Instance -> 0..MaxEnds]]
    BY <2>2, CloserType, Counts DEF TypeOfStore
  <2>3. pc[i] \in Tails => at[i] \in Session
    BY DEF HoldsAll, InTail
  <2>4. CASE EndHdel(i)
    BY <2>2, <2>3, <2>4 DEF EndHdel, TypeOfStore, Tails
  <2>5. CASE TailError(i)
    <3>1. closer' \in [Session -> [Instance -> 0..MaxEnds]]
      BY <2>2, <2>3, <2>5 DEF TailError, TypeOfStore, Tails
    <3> QED BY <2>5, <3>1 DEF TailError, TypeOfStore, redis
  <2> QED BY <2>1, <2>4, <2>5
<1>2. Finish(i)
  BY DEF StartToken, EndHdel, TailError
<1> QED BY <1>1, <1>2, FinishStep

-----------------------------------------------------------------------------
(* Crashes and time.                                                       *)

LEMMA CrashStep ==
    ASSUME RInv, NEW i \in Instance, Crash(i) \/ Restart(i)
    PROVE  RInv'
<1> USE InvParts
<1>1. TypeOfStore' /\ UNCHANGED <<lease, owner>>
  <2>1. CASE Crash(i)
    <3>1. closer' \in [Session -> [Instance -> 0..MaxEnds]]
      BY <2>1 DEF Crash, TypeOfStore
    <3> QED BY <2>1, <3>1 DEF Crash, TypeOfStore, redis
  <2>2. CASE Restart(i)
    BY <2>2 DEF Restart, TypeOfStore, redis, handlers
  <2> QED BY <2>1, <2>2
<1>2. TypeOfLoops'
  <2>1. CASE Crash(i)
    BY <2>1 DEF Crash, TypeOfLoops
  <2>2. CASE Restart(i)
    BY <2>2 DEF Restart, TypeOfLoops
  <2> QED BY <2>1, <2>2
<1>3. OthersKept(i) /\ pc'[i] \in {"down", "idle"}
  BY DEF Crash, Restart, OthersKept, TypeOfLoops
<1> QED BY <1>1, <1>2, <1>3, LoopStep DEF Holds, InTail, Tails

(* A unit of time is taken off the lease and added to the time spent; the  *)
(* lease does not run out, since the instance had a unit of stall left.    *)
LEMMA TickStep ==
    ASSUME RInv, Tick,
           MaxStall < ReloadTime + Grace, MaxStall < DefaultReload + Grace
    PROVE  RInv'
<1> USE InvParts
<1>1. TypeOfStore'
  <2>1. \A n \in Nat : n \in Nat /\ Down(n) \in 0..n
    BY DEF Down, MaxOf
  <2> QED BY <2>1, Bounds DEF Tick, TypeOfStore, handlers, NoScore
<1>2. TypeOfLoops'
  <2>1. ASSUME NEW i \in Instance
        PROVE  /\ spent'[i] \in 0..MaxStall
               /\ slept'[i] \in 0..MaxSleep
    BY DEF Tick, MayWait, TypeOfLoops, Rotating
  <2> QED BY <2>1 DEF Tick, TypeOfLoops
<1>3. ASSUME NEW i \in Instance
      PROVE  Holds(i)' /\ InTail(i)'
  <2>1. UNCHANGED <<pc, at, times>>
    BY DEF Tick
  <2>2. InTail(i)'
    BY <2>1 DEF HoldsAll, InTail
  <2>3. ASSUME pc[i] \in {"token", "next"}
        PROVE  Holds(i)'
    <3> DEFINE s == at[i]
    <3>1. s \in Session /\ owner[s] = i /\ lease[s] + spent[i] >= times[i][s] + Grace
      BY <2>3 DEF HoldsAll, Holds
    <3>2. spent[i] < MaxStall /\ spent'[i] = spent[i] + 1
      BY <2>3 DEF Tick, MayWait
    <3>3. times[i][s] \in {ReloadTime, DefaultReload}
      BY <3>1 DEF TypeOfLoops
    <3>4. lease[s] > 1
      BY <3>1, <3>2, <3>3 DEF TypeOfLoops, TypeOfStore
    <3>5. lease'[s] = lease[s] - 1 /\ owner'[s] = owner[s]
      BY <3>1, <3>4 DEF Tick, Down, MaxOf, TypeOfStore
    <3> QED BY <2>1, <3>1, <3>2, <3>3, <3>5 DEF Holds, TypeOfLoops, TypeOfStore
  <2> QED BY <2>1, <2>2, <2>3 DEF Holds
<1> QED BY <1>1, <1>2, <1>3 DEF HoldsAll

-----------------------------------------------------------------------------
(* The theorems.                                                           *)

LEMMA InitRotation == Init => RInv
<1> SUFFICES ASSUME Init PROVE RInv
  OBVIOUS
<1>1. TypeOfStore
  BY Bounds DEF Init, TypeOfStore
<1>2. TypeOfLoops
  BY DEF Init, TypeOfLoops
<1>3. HoldsAll
  BY DEF Init, HoldsAll, Holds, InTail, Tails
<1> QED BY <1>1, <1>2, <1>3, InvParts

LEMMA NextRotation ==
    ASSUME MaxStall < ReloadTime + Grace, MaxStall < DefaultReload + Grace
    PROVE  RInv /\ [Next]_vars => RInv'
<1> SUFFICES ASSUME RInv, [Next]_vars PROVE RInv'
  OBVIOUS
<1>1. CASE Tick
  BY <1>1, TickStep
<1>2. ASSUME NEW i \in Instance, RotateNow(i)
      PROVE  RInv'
  BY <1>2, RotateReadStep, RotateTimesStep, RotateLockStep, RotateLostStep,
     RotateTokenStep, RotateNextStep DEF RotateNow
<1>3. ASSUME NEW i \in Instance, TailNow(i)
      PROVE  RInv'
  BY <1>3, TailBeginStep, TailMiddleStep, TailEndStep DEF TailNow
<1>4. ASSUME NEW i \in Instance, RotateError(i) \/ TailError(i) \/ Crash(i) \/ Restart(i)
      PROVE  RInv'
  BY <1>4, RotateErrorStep, TailEndStep, CrashStep
<1>5. ASSUME NEW i \in Instance, NEW s \in Session, StartCommit(i, s) \/ EndCommit(i, s)
      PROVE  RInv'
  BY <1>5, CommitStep
<1>6. CASE UNCHANGED vars
  BY <1>6 DEF vars, redis, loop, handlers, RInv, TypeOK, Holds, InTail
<1> QED BY <1>1, <1>2, <1>3, <1>4, <1>5, <1>6 DEF Next, Step

(* While no stall is as long as the shortest lease, the winner of a        *)
(* session's lock owns it until it has set the next due time.              *)
THEOREM LeaseInvariant ==
    ASSUME MaxStall < ReloadTime + Grace, MaxStall < DefaultReload + Grace
    PROVE  Spec => []RInv
<1>1. Init => RInv
  BY InitRotation
<1>2. RInv /\ [Next]_vars => RInv'
  BY NextRotation
<1> QED BY <1>1, <1>2, PTL DEF Spec

(* Hence at most one instance rotates a session's code at a time, with any *)
(* number of instances, crashes, restarts and failing Redis commands.      *)
THEOREM RotatorIsAlone ==
    ASSUME MaxStall < ReloadTime + Grace, MaxStall < DefaultReload + Grace
    PROVE  Spec => []OneRotator
<1>1. RInv => OneRotator
  BY DEF RInv, Holds, OneRotator
<1> QED BY <1>1, LeaseInvariant, PTL

(* The types of rotation's state, the countdowns' ranges included. *)
THEOREM RotationTypes ==
    ASSUME MaxStall < ReloadTime + Grace, MaxStall < DefaultReload + Grace
    PROVE  Spec => []TypeOK
<1>1. RInv => TypeOK
  BY DEF RInv
<1> QED BY <1>1, LeaseInvariant, PTL
=============================================================================
