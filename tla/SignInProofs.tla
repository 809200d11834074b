---------------------------- MODULE SignInProofs -----------------------------
(***************************************************************************)
(* Proofs about SignIn, for every number of identities, accounts,          *)
(* callbacks, commands, tabs and requests.                                 *)
(***************************************************************************)
EXTENDS SignIn, TLAPS

USE SignInAssumption DEF accounts, callbacks, operator, posts, browser, vars

-----------------------------------------------------------------------------
(* The invariant.                                                          *)

(* What an account is linked to is among what it has ever been linked to. *)
HeldOK(u) ==
    IF account[u] = None \/ account[u].identity = None
      THEN held[u] = {}
      ELSE account[u].identity \in held[u]

(* An operator has relinked an account that has or had the identity. *)
Relinked(i) == \E u \in Accounts : i \in held[u] /\ held[u] # {i}

(* Why a callback was answered as it was. *)
CauseOK(c) ==
    \/ answer[c] \notin {"link", "conflict"}
    \/ WithEmail(claims[c].email) # {}
    \/ answer[c] = "conflict" /\ \E u \in User : claims[c].identity \in held[u]

(* A token is stored once it is known whose it is, by the step before the  *)
(* answer is sent.                                                         *)
Known(k) == step[k] \in {"send", "end"}

CallbackOK(c) ==
    /\ step[c] = "new" => claims[c] = None
    /\ step[c] # "new" => claims[c] \in Claims
    /\ step[c] \in {"new", "email", "insert"} => account[c] = None /\ user[c] = None
    /\ step[c] = "store" => user[c] # None
    /\ user[c] # None => user[c] \in Accounts /\ claims[c].identity \in held[user[c]]
    /\ step[c] = "end" <=> answer[c] # "none"
    /\ session[c] # None => Known(c) /\ session[c] = user[c]
    /\ CauseOK(c)

(* What is known when a callback is on its way to a second conflict. *)
RetryOK(d) ==
    \A c \in before[d] :
        /\ answer[c] = "conflict"
        /\ claims[c] = claims[d] =>
              /\ step[d] = "email" =>
                    WithEmail(claims[c].email) # {} \/ Relinked(claims[c].identity)
              /\ step[d] = "insert" \/ answer[d] = "conflict" =>
                    Relinked(claims[c].identity)

(* A command has read a row of the account it will write. *)
CommandOK(o) ==
    copy[o] # None => copy[o].user \in Accounts /\ copy[o].wanted \in Edits(copy[o].read)

(* A request acts for the user whose token it carries twice. *)
PostOK(p) ==
    /\ stage[p] \in {"new", "end"} <=> post[p] = None
    /\ post[p] # None =>
          /\ post[p].cookie # None => Known(post[p].cookie)
          /\ Known(post[p].csrf)
    /\ stage[p] \in {"run", "send"} => post[p].cookie = post[p].csrf
    /\ actor[p] # None => post[p] # None /\ actor[p] = user[post[p].csrf]

BrowserOK ==
    /\ cookie # None => Known(cookie)
    /\ \A t \in Tab : csrf[t] # None => Known(csrf[t])
    /\ \A p \in Post : PostOK(p)
    /\ \A k \in signedOut : Known(k) /\ session[k] = None

PeopleOK ==
    /\ OneAccount
    /\ \A u \in User : HeldOK(u)
    /\ \A c \in Callback : CallbackOK(c) /\ RetryOK(c)
    /\ \A o \in Command : CommandOK(o)

IInv == TypeOK /\ PeopleOK /\ BrowserOK

-----------------------------------------------------------------------------
(* Lemmas about accounts.                                                  *)

(* Accounts are never deleted, keep their email, and what they have been   *)
(* linked to is remembered.                                                *)
Grown ==
    \A u \in User :
        /\ account[u] # None => account'[u] # None /\ account'[u].email = account[u].email
        /\ held[u] \subseteq held'[u]

LEMMA StayTaken ==
    ASSUME Grown
    PROVE  /\ \A e : WithEmail(e) # {} => WithEmail(e)' # {}
           /\ \A i : Relinked(i) => Relinked(i)'
           /\ Accounts \subseteq Accounts'
<1>1. Accounts \subseteq Accounts' /\ \A u \in Accounts : account'[u].email = account[u].email
  BY DEF Grown, Accounts
<1>2. ASSUME NEW e, WithEmail(e) # {}
      PROVE  WithEmail(e)' # {}
  BY <1>1, <1>2 DEF WithEmail
<1>3. ASSUME NEW i, Relinked(i)
      PROVE  Relinked(i)'
  <2>1. PICK u \in Accounts : i \in held[u] /\ held[u] # {i}
    BY <1>3 DEF Relinked
  <2>2. PICK j \in held[u] : j # i
    BY <2>1
  <2>3. i \in held'[u] /\ j \in held'[u] /\ u \in Accounts'
    BY <1>1, <2>1, <2>2 DEF Grown, Accounts
  <2> QED BY <2>2, <2>3 DEF Relinked
<1> QED BY <1>1, <1>2, <1>3

(* What a command writes is a row of the same account: its email stays, an *)
(* instructor stays one, and an identity is never taken away for nothing.  *)
LEMMA WrittenIs ==
    ASSUME TypeOK, NEW o \in Command, copy[o] # None, CommandOK(o)
    PROVE  /\ Written(o) \in Row
           /\ Written(o).email = account[copy[o].user].email
           /\ Written(o).role \in {account[copy[o].user].role, "instructor"}
           /\ Written(o).identity = None => account[copy[o].user].identity = None
           /\ \/ Written(o).identity = account[copy[o].user].identity
              \/ /\ copy[o].wanted.identity # copy[o].read.identity
                 /\ Written(o).identity = copy[o].wanted.identity
<1> DEFINE u == copy[o].user
           r == copy[o].read
           w == copy[o].wanted
<1>1. r \in Row /\ w \in Row /\ account[u] \in Row /\ w \in Edits(r)
  BY DEF TypeOK, Accounts, CommandOK
<1>2. DOMAIN r = {"email", "identity", "role"}
  BY <1>1 DEF Row
<1>3. /\ w.email = r.email
      /\ w.role = r.role \/ w.role = "instructor"
      /\ w.identity = r.identity \/ w.identity \in Identity
  BY <1>1 DEF Edits, Row
<1>4. /\ Written(o).email = account[u].email
      /\ Written(o).role = IF w.role = r.role THEN account[u].role ELSE w.role
      /\ Written(o).identity =
            IF w.identity = r.identity THEN account[u].identity ELSE w.identity
  BY <1>2, <1>3 DEF Written
<1>5. Written(o) = [email |-> Written(o).email, identity |-> Written(o).identity,
                    role |-> Written(o).role]
  BY <1>2 DEF Written
<1>6. Written(o) \in Row
  BY <1>1, <1>3, <1>4, <1>5 DEF Row
<1> QED BY <1>1, <1>3, <1>4, <1>6 DEF Row

-----------------------------------------------------------------------------
(* Lemmas about callbacks.                                                 *)

Same(d) ==
    /\ claims'[d] = claims[d] /\ step'[d] = step[d] /\ user'[d] = user[d]
    /\ answer'[d] = answer[d] /\ before'[d] = before[d]

LEMMA CallbackKept ==
    ASSUME Grown, NEW d \in Callback, CallbackOK(d), Same(d),
           session'[d] \in {session[d], None},
           account[d] = None => account'[d] = None
    PROVE  CallbackOK(d)'
<1>1. Accounts \subseteq Accounts' /\ \A e : WithEmail(e) # {} => WithEmail(e)' # {}
  BY StayTaken
<1>2. user[d] # None => user[d] \in User
  BY DEF CallbackOK, Accounts
<1>3. CauseOK(d)'
  BY <1>1 DEF CallbackOK, CauseOK, Same, Grown
<1> QED BY <1>1, <1>2, <1>3 DEF CallbackOK, Same, Known, Grown

LEMMA RetryKept ==
    ASSUME Grown, NEW d \in Callback, RetryOK(d), Same(d),
           \A c \in before[d] : answer'[c] = answer[c] /\ claims'[c] = claims[c]
    PROVE  RetryOK(d)'
<1>1. /\ \A e : WithEmail(e) # {} => WithEmail(e)' # {}
      /\ \A i : Relinked(i) => Relinked(i)'
  BY StayTaken
<1> QED BY <1>1 DEF RetryOK, Same

(* A step of one callback. *)
LEMMA CallbackFrame ==
    ASSUME TypeOK, PeopleOK, Grown, NEW x \in Callback, step[x] # "end",
           \A d \in Callback \ {x} :
              Same(d) /\ session'[d] = session[d] /\ account'[d] = account[d],
           OneAccount', \A u \in User : HeldOK(u)', UNCHANGED copy,
           CallbackOK(x)', RetryOK(x)'
    PROVE  PeopleOK'
<1>1. ASSUME NEW d \in Callback \ {x}
      PROVE  CallbackOK(d)' /\ RetryOK(d)'
  <2>1. CallbackOK(d)'
    BY CallbackKept DEF PeopleOK
  <2>2. \A c \in before[d] : c \in Callback /\ answer[c] = "conflict" /\ c # x
    BY DEF TypeOK, PeopleOK, RetryOK, CallbackOK
  <2>3. RetryOK(d)'
    BY <2>2, RetryKept DEF PeopleOK, Same
  <2> QED BY <2>1, <2>3
<1>2. \A o \in Command : CommandOK(o)'
  BY StayTaken DEF PeopleOK, CommandOK
<1> QED BY <1>1, <1>2 DEF PeopleOK

(* A step of one callback that leaves the accounts alone. *)
LEMMA CallbackOnly ==
    ASSUME TypeOK, PeopleOK, NEW x \in Callback, step[x] # "end",
           UNCHANGED <<account, held, copy>>,
           \A d \in Callback \ {x} : Same(d) /\ session'[d] = session[d],
           CallbackOK(x)', RetryOK(x)'
    PROVE  PeopleOK'
<1>1. Grown
  BY DEF Grown
<1>2. OneAccount' /\ \A u \in User : HeldOK(u)'
  BY DEF PeopleOK, OneAccount, Accounts, HeldOK
<1>3. \A d \in Callback \ {x} : account'[d] = account[d]
  OBVIOUS
<1> QED BY <1>1, <1>2, <1>3, CallbackFrame

-----------------------------------------------------------------------------
(* The steps of a callback.                                                *)

(* Who is found has the identity.  If nobody is, whoever it conflicted     *)
(* with before has given it up.                                           *)
LEMMA FindStep ==
    ASSUME TypeOK, PeopleOK, NEW x \in Callback, NEW who \in Claims, Find(x, who)
    PROVE  TypeOK' /\ PeopleOK'
<1>1. TypeOK'
  BY DEF TypeOK, Find, GoTo, WithIdentity, Accounts
<1>2. /\ claims'[x] = who /\ answer'[x] = answer[x] /\ answer[x] = "none"
      /\ before'[x] = {d \in Callback : answer[d] = "conflict"}
      /\ session'[x] = session[x] /\ session[x] = None
      /\ account[x] = None /\ user[x] = None
  BY DEF TypeOK, Find, PeopleOK, CallbackOK, Known
<1>3. \A d \in Callback \ {x} : Same(d) /\ session'[d] = session[d]
  BY DEF TypeOK, Find, GoTo, Same
<1>4. CASE WithIdentity(who.identity) = {}
  <2>1. step'[x] = "email" /\ user'[x] = None
    BY <1>2, <1>4 DEF TypeOK, Find, GoTo
  <2>2. CallbackOK(x)'
    BY <1>2, <2>1 DEF CallbackOK, CauseOK, Known, Find
  <2>3. ASSUME NEW c \in Callback, answer[c] = "conflict", claims[c] = who
        PROVE  WithEmail(who.email) # {} \/ Relinked(who.identity)
    <3>1. CASE \E u \in User : who.identity \in held[u]
      <4>1. PICK u \in User : who.identity \in held[u]
        BY <3>1
      <4>2. HeldOK(u)
        BY DEF PeopleOK
      <4>3. u \in Accounts /\ account[u].identity \in held[u]
        BY <4>1, <4>2 DEF HeldOK, Accounts
      <4>4. account[u].identity # who.identity
        BY <1>4, <4>3 DEF WithIdentity
      <4> QED BY <4>1, <4>3, <4>4 DEF Relinked
    <3>2. CauseOK(c)
      BY DEF PeopleOK, CallbackOK
    <3> QED BY <2>3, <3>1, <3>2 DEF CauseOK
  <2>4. RetryOK(x)'
    <3>1. UNCHANGED <<account, held, answer>> /\ \A c \in Callback \ {x} : claims'[c] = claims[c]
      BY <1>3 DEF Find, Same
    <3>2. WithEmail(who.email)' = WithEmail(who.email)
          /\ (Relinked(who.identity)' <=> Relinked(who.identity))
      BY <3>1 DEF WithEmail, Relinked, Accounts
    <3> SUFFICES ASSUME NEW c \in Callback, answer[c] = "conflict", claims'[c] = claims'[x]
                 PROVE  WithEmail(claims[c].email)' # {} \/ Relinked(claims[c].identity)'
      BY <1>2, <2>1, <3>1 DEF RetryOK
    <3>3. c # x /\ claims[c] = who
      BY <1>2, <3>1
    <3> QED BY <1>2, <2>3, <3>1, <3>2, <3>3 DEF WithEmail, Relinked, Accounts
  <2> QED BY <1>1, <1>3, <2>2, <2>4, CallbackOnly DEF Find
<1>5. CASE WithIdentity(who.identity) # {}
  <2>1. PICK u \in WithIdentity(who.identity) : user' = [user EXCEPT ![x] = u]
    BY <1>5 DEF Find
  <2>2. user'[x] = u /\ u \in Accounts /\ account[u].identity = who.identity /\ u \in User
    BY <2>1 DEF TypeOK, WithIdentity, Accounts
  <2>3. HeldOK(u) /\ who.identity \in Identity
    BY <2>2 DEF PeopleOK, Claims
  <2>4. who.identity \in held[u]
    BY <2>2, <2>3 DEF HeldOK, Accounts
  <2>5. step'[x] = "store"
    BY <1>5 DEF TypeOK, Find, GoTo
  <2>6. CallbackOK(x)'
    BY <1>2, <2>2, <2>4, <2>5 DEF CallbackOK, CauseOK, Known, Find, Accounts
  <2>7. RetryOK(x)'
    BY <1>2, <2>5 DEF RetryOK, Find
  <2> QED BY <1>1, <1>3, <2>6, <2>7, CallbackOnly DEF Find
<1> QED BY <1>4, <1>5

LEMMA FindEmailStep ==
    ASSUME TypeOK, PeopleOK, NEW x \in Callback, FindEmail(x)
    PROVE  TypeOK' /\ PeopleOK'
<1>1. TypeOK'
  BY DEF TypeOK, FindEmail, GoTo, Answer
<1>2. \A d \in Callback \ {x} : Same(d) /\ session'[d] = session[d]
  BY DEF TypeOK, FindEmail, GoTo, Answer, Same
<1>3. CallbackOK(x) /\ RetryOK(x) /\ step[x] = "email" /\ answer[x] = "none"
  BY DEF PeopleOK, FindEmail, CallbackOK
<1>4. UNCHANGED <<account, held, claims, user, before, session>>
  BY DEF FindEmail
<1>5. CASE WithEmail(claims[x].email) = {}
  <2>1. step'[x] = "insert" /\ answer'[x] = "none" /\ answer' = answer
    BY <1>3, <1>5 DEF TypeOK, FindEmail, GoTo
  <2>2. CallbackOK(x)' /\ RetryOK(x)'
    BY <1>3, <1>4, <1>5, <2>1
       DEF CallbackOK, CauseOK, RetryOK, Known, Relinked, WithEmail, Accounts
  <2> QED BY <1>1, <1>2, <1>3, <2>2, CallbackOnly DEF FindEmail
<1>6. CASE WithEmail(claims[x].email) # {}
  <2>1. step'[x] = "end" /\ answer'[x] = "link" /\ \A c \in Callback \ {x} : answer'[c] = answer[c]
    BY <1>3, <1>6 DEF TypeOK, FindEmail, GoTo, Answer
  <2>2. CallbackOK(x)'
    BY <1>3, <1>4, <1>6, <2>1 DEF CallbackOK, CauseOK, Known, WithEmail, Accounts
  <2>3. RetryOK(x)'
    BY <1>3, <1>4, <2>1 DEF RetryOK, TypeOK
  <2> QED BY <1>1, <1>2, <1>3, <2>2, <2>3, CallbackOnly DEF FindEmail
<1> QED BY <1>5, <1>6

(* The two unique indexes keep the new account apart from the others. *)
LEMMA InsertStep ==
    ASSUME TypeOK, PeopleOK, NEW x \in Callback, Insert(x)
    PROVE  TypeOK' /\ PeopleOK'
<1> DEFINE new == [email |-> claims[x].email, identity |-> claims[x].identity, role |-> "student"]
<1>1. CallbackOK(x) /\ RetryOK(x) /\ step[x] = "insert" /\ claims[x] \in Claims
      /\ account[x] = None /\ answer[x] = "none" /\ session[x] = None /\ x \in User
  BY DEF PeopleOK, Insert, CallbackOK, User, Known
<1>2. new \in Row /\ new # None
  BY <1>1 DEF Claims, Row
<1>3. TypeOK'
  BY <1>1, <1>2 DEF TypeOK, Insert, GoTo, Claims, User
<1>4. /\ account'[x] = new /\ held'[x] = {new.identity}
      /\ \A u \in User \ {x} : account'[u] = account[u] /\ held'[u] = held[u]
  BY <1>1 DEF TypeOK, Insert
<1>5. \A u \in Accounts : account[u].email # new.email /\ account[u].identity # new.identity
  BY DEF Insert, WithIdentity, WithEmail
<1>6. OneAccount'
  BY <1>4, <1>5 DEF PeopleOK, OneAccount, Accounts
<1>7. \A u \in User : HeldOK(u)'
  BY <1>1, <1>2, <1>4 DEF PeopleOK, HeldOK, Claims
<1>8. Grown
  BY <1>1, <1>4 DEF Grown, PeopleOK, HeldOK
<1>9. \A d \in Callback \ {x} :
          Same(d) /\ session'[d] = session[d] /\ account'[d] = account[d]
  BY <1>4 DEF TypeOK, Insert, GoTo, Same, User
<1>10. /\ step'[x] = "store" /\ user'[x] = x /\ claims' = claims /\ answer' = answer
       /\ before' = before /\ session' = session
  BY DEF TypeOK, Insert, GoTo
<1>11. CallbackOK(x)'
  BY <1>1, <1>2, <1>4, <1>10 DEF CallbackOK, CauseOK, Known, Accounts
<1>12. RetryOK(x)'
  BY <1>1, <1>10 DEF RetryOK
<1>13. copy' = copy
  BY DEF Insert
<1> QED BY <1>1, <1>3, <1>6, <1>7, <1>8, <1>9, <1>11, <1>12, <1>13, CallbackFrame

(* The second time, the conflict is over an identity that was taken off. *)
LEMMA ConflictStep ==
    ASSUME TypeOK, PeopleOK, NEW x \in Callback, Conflict(x)
    PROVE  TypeOK' /\ PeopleOK'
<1>1. TypeOK'
  BY DEF TypeOK, Conflict, GoTo, Answer
<1>2. \A d \in Callback \ {x} : Same(d) /\ session'[d] = session[d]
  BY DEF TypeOK, Conflict, GoTo, Answer, Same
<1>3. CallbackOK(x) /\ RetryOK(x) /\ step[x] = "insert" /\ answer[x] = "none"
      /\ claims[x] \in Claims
  BY DEF PeopleOK, Conflict, CallbackOK
<1>4. UNCHANGED <<account, held, claims, user, before, session>>
  BY DEF Conflict
<1>5. step'[x] = "end" /\ answer'[x] = "conflict"
      /\ \A c \in Callback \ {x} : answer'[c] = answer[c]
  BY DEF TypeOK, Conflict, GoTo, Answer
<1>6. CauseOK(x)'
  <2>1. CASE WithEmail(claims[x].email) # {}
    BY <1>4, <2>1 DEF CauseOK, WithEmail, Accounts
  <2>2. CASE WithIdentity(claims[x].identity) # {}
    <3>1. PICK u \in Accounts : account[u].identity = claims[x].identity
      BY <2>2 DEF WithIdentity
    <3>2. HeldOK(u) /\ account[u] # None /\ claims[x].identity # None /\ u \in User
      BY <1>3 DEF PeopleOK, Accounts, Claims
    <3>3. claims[x].identity \in held[u]
      BY <3>1, <3>2 DEF HeldOK
    <3> QED BY <1>4, <1>5, <3>2, <3>3 DEF CauseOK
  <2> QED BY <2>1, <2>2 DEF Conflict
<1>7. CallbackOK(x)'
  BY <1>3, <1>4, <1>5, <1>6 DEF CallbackOK, Known, Accounts
<1>8. RetryOK(x)'
  <2>1. \A c \in before[x] : c \in Callback /\ c # x
    BY <1>3 DEF TypeOK, RetryOK
  <2> QED BY <1>3, <1>4, <1>5, <2>1 DEF RetryOK, Relinked, Accounts
<1> QED BY <1>1, <1>2, <1>3, <1>7, <1>8, CallbackOnly DEF Conflict

LEMMA StoreStep ==
    ASSUME TypeOK, PeopleOK, NEW x \in Callback, Store(x)
    PROVE  TypeOK' /\ PeopleOK'
<1>1. TypeOK'
  BY DEF TypeOK, Store, GoTo
<1>2. \A d \in Callback \ {x} : Same(d) /\ session'[d] = session[d]
  BY DEF TypeOK, Store, GoTo, Same
<1>3. CallbackOK(x) /\ RetryOK(x) /\ step[x] = "store"
  BY DEF PeopleOK, Store
<1>4. /\ UNCHANGED <<account, held, claims, user, answer, before, copy>>
      /\ step'[x] = "send" /\ session'[x] = user[x]
  BY DEF TypeOK, Store, GoTo
<1>5. CallbackOK(x)'
  BY <1>3, <1>4 DEF CallbackOK, CauseOK, Known, Accounts, WithEmail
<1>6. RetryOK(x)'
  BY <1>3, <1>4 DEF RetryOK, CallbackOK
<1> QED BY <1>1, <1>2, <1>3, <1>4, <1>5, <1>6, CallbackOnly

LEMMA SendStep ==
    ASSUME TypeOK, PeopleOK, NEW x \in Callback, Send(x)
    PROVE  TypeOK' /\ PeopleOK'
<1>1. TypeOK'
  BY DEF TypeOK, Send, GoTo, Answer
<1>2. \A d \in Callback \ {x} : Same(d) /\ session'[d] = session[d]
  BY DEF TypeOK, Send, GoTo, Answer, Same
<1>3. CallbackOK(x) /\ RetryOK(x) /\ step[x] = "send"
  BY DEF PeopleOK, Send
<1>4. /\ UNCHANGED <<account, held, claims, user, session, before, copy>>
      /\ step'[x] = "end" /\ answer'[x] = "in"
      /\ \A c \in Callback \ {x} : answer'[c] = answer[c]
  BY DEF TypeOK, Send, GoTo, Answer
<1>5. CallbackOK(x)'
  BY <1>3, <1>4 DEF CallbackOK, CauseOK, Known, Accounts
<1>6. RetryOK(x)'
  <2>1. \A c \in before[x] : c \in Callback /\ c # x
    BY <1>3 DEF TypeOK, RetryOK, PeopleOK, CallbackOK
  <2> QED BY <1>3, <1>4, <2>1 DEF RetryOK
<1> QED BY <1>1, <1>2, <1>3, <1>4, <1>5, <1>6, CallbackOnly

LEMMA AbortStep ==
    ASSUME TypeOK, PeopleOK, NEW x \in Callback, Abort(x)
    PROVE  TypeOK' /\ PeopleOK'
<1>1. TypeOK'
  BY DEF TypeOK, Abort, GoTo, Answer
<1>2. \A d \in Callback \ {x} : Same(d) /\ session'[d] = session[d]
  BY DEF TypeOK, Abort, GoTo, Answer, Same
<1>3. CallbackOK(x) /\ RetryOK(x) /\ step[x] \in {"email", "insert", "store"}
  BY DEF PeopleOK, Abort
<1>4. /\ UNCHANGED <<account, held, claims, user, session, before, copy>>
      /\ step'[x] = "end" /\ answer'[x] = "error"
      /\ \A c \in Callback \ {x} : answer'[c] = answer[c]
  BY DEF TypeOK, Abort, GoTo, Answer
<1>5. CallbackOK(x)'
  BY <1>3, <1>4 DEF CallbackOK, CauseOK, Known, Accounts
<1>6. RetryOK(x)'
  <2>1. \A c \in before[x] : c \in Callback /\ c # x
    BY <1>3 DEF TypeOK, RetryOK, PeopleOK, CallbackOK
  <2> QED BY <1>3, <1>4, <2>1 DEF RetryOK
<1> QED BY <1>1, <1>2, <1>3, <1>4, <1>5, <1>6, CallbackOnly

-----------------------------------------------------------------------------
(* The steps of a command, a page and Redis.                               *)

(* Steps that leave accounts, callbacks and commands alone. *)
LEMMA PeopleFrame ==
    ASSUME PeopleOK, UNCHANGED <<accounts, callbacks, copy>>,
           \A k \in Callback : session'[k] \in {session[k], None}
    PROVE  PeopleOK'
<1>1. Grown
  BY DEF Grown
<1>2. OneAccount' /\ \A u \in User : HeldOK(u)'
  BY DEF PeopleOK, OneAccount, Accounts, HeldOK
<1>3. \A d \in Callback : CallbackOK(d)' /\ RetryOK(d)'
  BY <1>1, CallbackKept, RetryKept DEF PeopleOK, Same
<1>4. \A o \in Command : CommandOK(o)'
  BY DEF PeopleOK, CommandOK, Accounts
<1> QED BY <1>2, <1>3, <1>4 DEF PeopleOK

LEMMA ReadStep ==
    ASSUME TypeOK, PeopleOK, NEW o \in Command, Read(o)
    PROVE  TypeOK' /\ PeopleOK'
<1>1. PICK u \in Accounts : \E row \in Edits(account[u]) :
          copy' = [copy EXCEPT ![o] = [user |-> u, read |-> account[u], wanted |-> row]]
  BY DEF Read
<1> PICK row \in Edits(account[u]) :
          copy' = [copy EXCEPT ![o] = [user |-> u, read |-> account[u], wanted |-> row]]
  BY <1>1
<1>2. u \in User /\ account[u] \in Row
  BY DEF TypeOK, Accounts
<1>3. row \in Row
  BY <1>2 DEF Edits, Row
<1>4. TypeOK'
  BY <1>1, <1>2, <1>3 DEF TypeOK, Read
<1>5. Grown /\ \A d \in Callback : Same(d) /\ session'[d] = session[d] /\ account'[d] = account[d]
  BY DEF Read, Grown, Same
<1>6. OneAccount' /\ \A v \in User : HeldOK(v)'
  BY DEF PeopleOK, OneAccount, Accounts, HeldOK, Read
<1>7. \A d \in Callback : CallbackOK(d)' /\ RetryOK(d)'
  BY <1>5, CallbackKept, RetryKept DEF PeopleOK, Read
<1>8. \A q \in Command : CommandOK(q)'
  BY <1>1, <1>2 DEF TypeOK, PeopleOK, CommandOK, Accounts, Read
<1> QED BY <1>4, <1>6, <1>7, <1>8 DEF PeopleOK

(* An identity is written only if nobody else has it. *)
LEMMA CommandCommitStep ==
    ASSUME TypeOK, PeopleOK, NEW o \in Command, CommandCommit(o)
    PROVE  TypeOK' /\ PeopleOK'
<1> DEFINE u == copy[o].user
           new == Written(o)
<1>1. CommandOK(o) /\ copy[o] # None
  BY DEF PeopleOK, CommandCommit
<1>2. /\ u \in User /\ account[u] # None /\ account[u] \in Row
  BY <1>1 DEF TypeOK, CommandOK, Accounts
<1>3. /\ new \in Row /\ new # None /\ new.email = account[u].email
      /\ new.identity = None => account[u].identity = None
  BY <1>1, WrittenIs
<1>4. new.identity \in Identity \cup {None}
  BY <1>3 DEF Row
<1> HIDE DEF new
<1>5. TypeOK'
  BY <1>1, <1>2, <1>3, <1>4 DEF TypeOK, CommandCommit, new
<1>6. /\ account'[u] = new /\ held'[u] = held[u] \cup ({new.identity} \ {None})
      /\ \A v \in User \ {u} : account'[v] = account[v] /\ held'[v] = held[v]
      /\ new.identity = None \/ WithIdentity(new.identity) \subseteq {u}
  BY <1>2 DEF TypeOK, CommandCommit, new
<1> HIDE DEF u
<1>7. Grown
  BY <1>2, <1>3, <1>6 DEF Grown
<1>8. \A d \in Callback : Same(d) /\ session'[d] = session[d] /\ (account[d] = None => account'[d] = None)
  BY <1>2, <1>6 DEF Same, CommandCommit, User
<1>9. OneAccount'
  <2> SUFFICES ASSUME NEW v \in Accounts', NEW w \in Accounts', v # w
               PROVE  /\ account'[v].email # account'[w].email
                      /\ account'[v].identity = None \/ account'[v].identity # account'[w].identity
    BY DEF OneAccount
  <2>1. v \in Accounts /\ w \in Accounts
    BY <1>2, <1>6 DEF Accounts
  <2>2. /\ account[v].email # account[w].email
        /\ account[v].identity = None \/ account[v].identity # account[w].identity
    BY <2>1 DEF PeopleOK, OneAccount
  <2>3. CASE v = u
    BY <1>3, <1>6, <2>1, <2>2, <2>3 DEF Accounts, WithIdentity
  <2>4. CASE w = u
    BY <1>3, <1>6, <2>1, <2>2, <2>4 DEF Accounts, WithIdentity
  <2>5. CASE v # u /\ w # u
    BY <1>6, <2>1, <2>2, <2>5 DEF Accounts
  <2> QED BY <2>3, <2>4, <2>5
<1>10. \A v \in User : HeldOK(v)'
  BY <1>2, <1>3, <1>6 DEF PeopleOK, HeldOK
<1>11. \A d \in Callback : CallbackOK(d)' /\ RetryOK(d)'
  BY <1>7, <1>8, CallbackKept, RetryKept DEF PeopleOK, CommandCommit
<1>12. \A q \in Command : CommandOK(q)'
  BY <1>7, StayTaken DEF TypeOK, PeopleOK, CommandOK, CommandCommit
<1> QED BY <1>5, <1>9, <1>10, <1>11, <1>12 DEF PeopleOK

LEMMA CommandFailStep ==
    ASSUME TypeOK, PeopleOK, NEW o \in Command, CommandFail(o)
    PROVE  TypeOK' /\ PeopleOK'
<1>1. TypeOK'
  BY DEF TypeOK, CommandFail
<1>2. Grown /\ \A d \in Callback : Same(d) /\ session'[d] = session[d] /\ account'[d] = account[d]
  BY DEF CommandFail, Grown, Same
<1>3. OneAccount' /\ \A v \in User : HeldOK(v)'
  BY DEF PeopleOK, OneAccount, Accounts, HeldOK, CommandFail
<1>4. \A d \in Callback : CallbackOK(d)' /\ RetryOK(d)'
  BY <1>2, CallbackKept, RetryKept DEF PeopleOK, CommandFail
<1>5. \A q \in Command : CommandOK(q)'
  BY DEF TypeOK, PeopleOK, CommandOK, Accounts, CommandFail
<1> QED BY <1>1, <1>3, <1>4, <1>5 DEF PeopleOK

LEMMA MeStep ==
    ASSUME TypeOK, PeopleOK, NEW t \in Tab, Me(t)
    PROVE  TypeOK' /\ PeopleOK'
<1>1. TypeOK'
  BY DEF TypeOK, Me, Live
<1> QED BY <1>1, PeopleFrame DEF Me

LEMMA ExpireStep ==
    ASSUME TypeOK, PeopleOK, NEW k \in Callback, Expire(k)
    PROVE  TypeOK' /\ PeopleOK'
<1>1. TypeOK' /\ \A j \in Callback : session'[j] \in {session[j], None}
  BY DEF TypeOK, Expire
<1> QED BY <1>1, PeopleFrame DEF Expire

LEMMA PostPeople ==
    ASSUME IInv, NEW p \in Post, PostStep(p)
    PROVE  TypeOK' /\ PeopleOK'
<1>1. UNCHANGED <<accounts, callbacks, operator, csrf>>
  BY DEF PostStep, Submit, Auth, Refuse, Act, Logout, LoggedOut
<1>2. PostOK(p)
  BY DEF IInv, BrowserOK
<1>3. TypeOK'
  <2>1. ASSUME NEW t \in Tab, NEW out \in BOOLEAN, Submit(p, t, out)
        PROVE  TypeOK'
    BY <2>1 DEF IInv, TypeOK, Submit, Envelope
  <2>2. ASSUME Auth(p) PROVE TypeOK'
    BY <2>2, <1>2 DEF IInv, TypeOK, Auth, Live, Envelope, PostOK
  <2>3. ASSUME Refuse(p) \/ Act(p) PROVE TypeOK'
    BY <2>3 DEF IInv, TypeOK, Refuse, Act, Return
  <2>4. ASSUME Logout(p) PROVE TypeOK'
    <3>1. post[p] \in Envelope /\ post[p].cookie = post[p].csrf
      BY <1>2, <2>4 DEF IInv, TypeOK, PostOK, Logout
    <3>2. post[p].cookie \in Callback
      BY <3>1 DEF Envelope
    <3> QED BY <2>4, <3>2 DEF IInv, TypeOK, Logout
  <2>5. ASSUME LoggedOut(p) PROVE TypeOK'
    BY <2>5 DEF IInv, TypeOK, LoggedOut, Return
  <2> QED BY <2>1, <2>2, <2>3, <2>4, <2>5 DEF PostStep
<1>4. \A k \in Callback : session'[k] \in {session[k], None}
  BY DEF IInv, TypeOK, PostStep, Submit, Auth, Refuse, Act, Logout, LoggedOut
<1> QED BY <1>1, <1>3, <1>4, PeopleFrame DEF IInv

-----------------------------------------------------------------------------
(* The browser.                                                            *)

(* Steps that are not of a request: a token that is known stays so, and    *)
(* with it whose it is.                                                    *)
LEMMA BrowserFrame ==
    ASSUME IInv, UNCHANGED <<posts, signedOut>>,
           \A k \in Callback : Known(k) =>
              Known(k)' /\ user'[k] = user[k] /\ session'[k] \in {session[k], None},
           cookie' # None => step'[cookie'] \in {"send", "end"},
           \A t \in Tab : csrf'[t] # None => step'[csrf'[t]] \in {"send", "end"}
    PROVE  BrowserOK'
<1>1. ASSUME NEW p \in Post
      PROVE  PostOK(p)'
  <2>1. PostOK(p) /\ post[p] \in Envelope \cup {None}
    BY DEF IInv, TypeOK, BrowserOK
  <2>2. post[p] # None => post[p].cookie \in Callback \cup {None} /\ post[p].csrf \in Callback
    BY <2>1 DEF Envelope
  <2> QED BY <2>1, <2>2 DEF PostOK, Known
<1>2. \A k \in signedOut' : Known(k)' /\ session'[k] = None
  BY DEF IInv, TypeOK, BrowserOK
<1> QED BY <1>1, <1>2 DEF BrowserOK, Known

(* What a step of a callback does to tokens and to the browser. *)
TouchesOnly(x) ==
    /\ UNCHANGED <<csrf, posts, signedOut>>
    /\ step[x] # "end"
    /\ step[x] = "send" => step'[x] = "end" /\ UNCHANGED <<user, session>>
    /\ cookie' = cookie \/ (cookie' = x /\ step'[x] = "end")
    /\ \A k \in Callback \ {x} :
          step'[k] = step[k] /\ user'[k] = user[k] /\ session'[k] = session[k]

LEMMA CallbackBrowser ==
    ASSUME IInv, NEW x \in Callback, CallbackStep(x)
    PROVE  BrowserOK'
<1>1. CallbackOK(x)
  BY DEF IInv, PeopleOK
<1>2. TouchesOnly(x)
  <2>1. ASSUME NEW who \in Claims, Find(x, who) PROVE TouchesOnly(x)
    BY <2>1 DEF IInv, TypeOK, Find, GoTo, TouchesOnly
  <2>2. ASSUME FindEmail(x) PROVE TouchesOnly(x)
    BY <2>2 DEF IInv, TypeOK, FindEmail, GoTo, Answer, TouchesOnly
  <2>3. ASSUME Insert(x) \/ Conflict(x) PROVE TouchesOnly(x)
    BY <2>3 DEF IInv, TypeOK, Insert, Conflict, GoTo, Answer, TouchesOnly
  <2>4. ASSUME Store(x) \/ Abort(x) PROVE TouchesOnly(x)
    BY <2>4 DEF IInv, TypeOK, Store, Abort, GoTo, Answer, TouchesOnly
  <2>5. ASSUME Send(x) PROVE TouchesOnly(x)
    BY <2>5 DEF IInv, TypeOK, Send, GoTo, Answer, TouchesOnly
  <2> QED BY <2>1, <2>2, <2>3, <2>4, <2>5 DEF CallbackStep
<1>3. \A k \in Callback : Known(k) =>
          Known(k)' /\ user'[k] = user[k] /\ session'[k] \in {session[k], None}
  BY <1>2 DEF Known, TouchesOnly
<1>4. cookie' # None => step'[cookie'] \in {"send", "end"}
  BY <1>2, <1>3 DEF IInv, TypeOK, BrowserOK, Known, TouchesOnly
<1>5. \A t \in Tab : csrf'[t] # None => step'[csrf'[t]] \in {"send", "end"}
  BY <1>2, <1>3 DEF IInv, TypeOK, BrowserOK, Known, TouchesOnly
<1> QED BY <1>2, <1>3, <1>4, <1>5, BrowserFrame DEF TouchesOnly

LEMMA OtherBrowser ==
    ASSUME IInv,
           (\E o \in Command : CommandStep(o)) \/ (\E t \in Tab : Me(t))
              \/ (\E k \in Callback : Expire(k))
    PROVE  BrowserOK'
<1>1. UNCHANGED <<posts, signedOut, step, user, cookie>>
  BY DEF CommandStep, Read, CommandCommit, CommandFail, Me, Expire
<1>2. \A k \in Callback : session'[k] \in {session[k], None}
  BY DEF IInv, TypeOK, CommandStep, Read, CommandCommit, CommandFail, Me, Expire
<1>3. \A t \in Tab : csrf'[t] \in {csrf[t], cookie}
  BY DEF IInv, TypeOK, CommandStep, Read, CommandCommit, CommandFail, Me, Expire
<1> QED BY <1>1, <1>2, <1>3, BrowserFrame DEF IInv, BrowserOK, Known

(* Who acts carries one token twice, and it is of a live session. *)
LEMMA PostBrowser ==
    ASSUME IInv, NEW p \in Post, PostStep(p)
    PROVE  BrowserOK'
<1>1. UNCHANGED <<accounts, callbacks, csrf>>
  BY DEF PostStep, Submit, Auth, Refuse, Act, Logout, LoggedOut
<1>2. \A k \in Callback : Known(k)' <=> Known(k)
  BY <1>1 DEF Known
<1>3. PostOK(p) /\ post[p] \in Envelope \cup {None}
  BY DEF IInv, TypeOK, BrowserOK
<1>4. \A q \in Post \ {p} : post'[q] = post[q] /\ stage'[q] = stage[q] /\ actor'[q] = actor[q]
  BY DEF IInv, TypeOK, PostStep, Submit, Auth, Refuse, Act, Logout, LoggedOut, Return
<1>5. \A q \in Post \ {p} : PostOK(q)'
  BY <1>1, <1>4 DEF IInv, BrowserOK, PostOK, Known
<1>6. PostOK(p)'
  <2>1. ASSUME NEW t \in Tab, NEW out \in BOOLEAN, Submit(p, t, out)
        PROVE  PostOK(p)'
    <3>1. /\ post'[p] = [cookie |-> cookie, csrf |-> csrf[t], logout |-> out]
          /\ stage'[p] = "auth" /\ actor'[p] = actor[p] /\ post[p] = None
      BY <1>3, <2>1 DEF IInv, TypeOK, Submit, PostOK
    <3>2. cookie # None => Known(cookie)
      BY DEF IInv, BrowserOK
    <3>3. Known(csrf[t]) /\ csrf[t] \in Callback /\ cookie \in Callback \cup {None}
      BY <2>1 DEF IInv, TypeOK, BrowserOK, Submit
    <3>4. post'[p] # None
      BY <3>1, <3>3 DEF Envelope
    <3> QED BY <1>1, <1>3, <3>1, <3>2, <3>3, <3>4 DEF PostOK, Known
  <2>2. ASSUME Auth(p) PROVE PostOK(p)'
    <3>1. post[p] \in Envelope /\ post[p].cookie \in Callback
      BY <1>3, <2>2 DEF PostOK, Auth, Live, Envelope
    <3>2. session[post[p].cookie] = user[post[p].cookie]
      BY <2>2, <3>1 DEF IInv, PeopleOK, CallbackOK, Auth, Live
    <3> QED BY <1>1, <1>3, <2>2, <3>1, <3>2 DEF IInv, TypeOK, PostOK, Auth, Known
  <2>3. ASSUME Refuse(p) \/ Act(p) \/ LoggedOut(p) PROVE PostOK(p)'
    BY <2>3 DEF IInv, TypeOK, PostOK, Refuse, Act, LoggedOut, Return
  <2>4. ASSUME Logout(p) PROVE PostOK(p)'
    BY <1>1, <1>3, <2>4 DEF IInv, TypeOK, PostOK, Logout, Known
  <2> QED BY <2>1, <2>2, <2>3, <2>4 DEF PostStep
<1>7. \A k \in signedOut' : Known(k)' /\ session'[k] = None
  <2>1. CASE Logout(p)
    <3>1. post[p].cookie = post[p].csrf /\ Known(post[p].csrf) /\ post[p].csrf \in Callback
      BY <1>3, <2>1 DEF PostOK, Logout, Envelope
    <3> QED BY <1>1, <2>1, <3>1 DEF IInv, TypeOK, BrowserOK, Logout, Known
  <2>2. CASE ~Logout(p)
    <3>1. UNCHANGED <<session, signedOut>>
      BY <2>2 DEF PostStep, Submit, Auth, Refuse, Act, LoggedOut
    <3> QED BY <1>1, <3>1 DEF IInv, BrowserOK, Known
  <2> QED BY <2>1, <2>2
<1>8. cookie' \in {cookie, None}
  BY DEF PostStep, Submit, Auth, Refuse, Act, Logout, LoggedOut
<1> QED BY <1>1, <1>5, <1>6, <1>7, <1>8 DEF IInv, BrowserOK, Known

-----------------------------------------------------------------------------
(* The theorems.                                                           *)

LEMMA SignInStarts ==
    ASSUME Init
    PROVE  IInv
<1>1. TypeOK
  BY DEF Init, TypeOK
<1>2. \A c \in Callback : CallbackOK(c) /\ RetryOK(c)
  BY DEF Init, CallbackOK, CauseOK, RetryOK, Known
<1>3. OneAccount
  BY DEF Init, OneAccount, Accounts, User
<1>4. \A u \in User : HeldOK(u)
  BY DEF Init, HeldOK, User
<1>5. \A o \in Command : CommandOK(o)
  BY DEF Init, CommandOK
<1>6. BrowserOK
  BY DEF Init, BrowserOK, PostOK
<1> QED BY <1>1, <1>2, <1>3, <1>4, <1>5, <1>6 DEF IInv, PeopleOK

LEMMA SignInMoves ==
    ASSUME IInv, Next
    PROVE  IInv'
<1>1. ASSUME NEW c \in Callback, CallbackStep(c)
      PROVE  IInv'
  <2>1. TypeOK' /\ PeopleOK'
    BY <1>1, FindStep, FindEmailStep, InsertStep, ConflictStep, StoreStep, SendStep, AbortStep
       DEF IInv, CallbackStep
  <2> QED BY <1>1, <2>1, CallbackBrowser DEF IInv
<1>2. ASSUME NEW k \in Callback, Expire(k)
      PROVE  IInv'
  BY <1>2, ExpireStep, OtherBrowser DEF IInv
<1>3. ASSUME NEW o \in Command, CommandStep(o)
      PROVE  IInv'
  <2>1. TypeOK' /\ PeopleOK'
    BY <1>3, ReadStep, CommandCommitStep, CommandFailStep DEF IInv, CommandStep
  <2> QED BY <1>3, <2>1, OtherBrowser DEF IInv
<1>4. ASSUME NEW t \in Tab, Me(t)
      PROVE  IInv'
  BY <1>4, MeStep, OtherBrowser DEF IInv
<1>5. ASSUME NEW p \in Post, PostStep(p)
      PROVE  IInv'
  BY <1>5, PostPeople, PostBrowser DEF IInv
<1> QED BY <1>1, <1>2, <1>3, <1>4, <1>5 DEF Next

LEMMA SignInRests ==
    ASSUME IInv, UNCHANGED vars
    PROVE  IInv'
<1>1. TypeOK'
  BY DEF IInv, TypeOK
<1>2. PeopleOK'
  BY PeopleFrame DEF IInv
<1>3. BrowserOK'
  BY DEF IInv, BrowserOK, PostOK, Known
<1> QED BY <1>1, <1>2, <1>3 DEF IInv

(* What the other theorems follow from. *)
THEOREM Invariant == Spec => []IInv
<1>1. IInv /\ [Next]_vars => IInv'
  BY SignInMoves, SignInRests
<1> QED BY SignInStarts, <1>1, PTL DEF Spec

(* The variables have the types that the model declares. *)
THEOREM TypeCorrect == Spec => []TypeOK
<1>1. IInv => TypeOK
  BY DEF IInv
<1> QED BY Invariant, <1>1, PTL

(* However many callbacks and commands race, no two accounts have one      *)
(* email or one identity.                                                  *)
THEOREM Unique == Spec => []OneAccount
<1>1. IInv => OneAccount
  BY DEF IInv, PeopleOK
<1> QED BY Invariant, <1>1, PTL

(* One is signed in only to an account that has been made for one's        *)
(* identity or linked to it.                                               *)
THEOREM Own == Spec => []OwnAccount
<1>1. IInv => OwnAccount
  BY DEF IInv, PeopleOK, CallbackOK, OwnAccount
<1> QED BY Invariant, <1>1, PTL

(* Nobody is refused for nothing.                                          *)
THEOREM Refused == Spec => []RefusedForCause
<1>1. IInv => RefusedForCause
  BY DEF IInv, PeopleOK, CallbackOK, CauseOK, RefusedForCause
<1> QED BY Invariant, <1>1, PTL

(* Who tries again after a conflict does not meet another one, unless an   *)
(* operator has relinked an account that has or had the identity.          *)
THEOREM Retry == Spec => []RetryHelps
<1>1. IInv => RetryHelps
  BY DEF IInv, PeopleOK, RetryOK, Relinked, RetryHelps
<1> QED BY Invariant, <1>1, PTL

(* A session that has been signed out of is never stored again.            *)
THEOREM SignedOut == Spec => []SignedOutStaysOut
<1>1. IInv => SignedOutStaysOut
  BY DEF IInv, BrowserOK, SignedOutStaysOut
<1> QED BY Invariant, <1>1, PTL

(* A request acts for the user whom the tab that sends it was told of.     *)
THEOREM AsTold == Spec => []ActsAsTold
<1>1. IInv => ActsAsTold
  BY DEF IInv, BrowserOK, PostOK, ActsAsTold
<1> QED BY Invariant, <1>1, PTL

(* A step that changes a row is the commit of a command, and changes what  *)
(* that command was asked to change.                                       *)
EditOf(o, u) ==
    /\ copy[o] # None /\ copy'[o] = None
    /\ copy[o].user = u
    /\ copy[o].wanted.identity # copy[o].read.identity
    /\ account'[u].identity = copy[o].wanted.identity

LEMMA EditStep ==
    ASSUME IInv, Next, NEW u \in Accounts
    PROVE  /\ account[u].role = "instructor" => account'[u].role = "instructor"
           /\ account'[u].identity # account[u].identity => \E o \in Command : EditOf(o, u)
<1> DEFINE Goal == /\ account[u].role = "instructor" => account'[u].role = "instructor"
                   /\ account'[u].identity # account[u].identity =>
                        \E o \in Command : EditOf(o, u)
<1>1. u \in User /\ account[u] # None
  BY DEF Accounts
<1>2. ASSUME NEW o \in Command, CommandCommit(o)
      PROVE  Goal
  <2>1. CASE copy[o].user = u
    <3>1. account'[u] = Written(o) /\ copy[o] # None /\ copy'[o] = None
      BY <1>1, <1>2, <2>1 DEF IInv, TypeOK, CommandCommit
    <3>2. /\ Written(o).role \in {account[u].role, "instructor"}
          /\ \/ Written(o).identity = account[u].identity
             \/ /\ copy[o].wanted.identity # copy[o].read.identity
                /\ Written(o).identity = copy[o].wanted.identity
      BY <2>1, <3>1, WrittenIs DEF IInv, PeopleOK
    <3> QED BY <2>1, <3>1, <3>2 DEF EditOf
  <2>2. CASE copy[o].user # u
    <3>1. account'[u] = account[u]
      BY <1>1, <1>2, <2>2 DEF IInv, TypeOK, CommandCommit
    <3> QED BY <3>1
  <2> QED BY <2>1, <2>2
<1>3. ASSUME NEW c \in Callback, Insert(c)
      PROVE  Goal
  <2>1. u # c
    BY <1>1, <1>3 DEF IInv, PeopleOK, CallbackOK, Insert
  <2>2. account'[u] = account[u]
    BY <1>1, <1>3, <2>1 DEF IInv, TypeOK, Insert
  <2> QED BY <2>2
<1>4. ASSUME UNCHANGED account
      PROVE  Goal
  BY <1>4
<1> QED BY <1>2, <1>3, <1>4 DEF Next, CallbackStep, CommandStep, PostStep, Find, FindEmail,
        Conflict, Store, Send, Abort, Expire, Read, CommandFail, Me, Submit, Auth, Refuse,
        Act, Logout, LoggedOut

(* An instructor stays one, whatever commands and callbacks run beside the *)
(* one that made them so, and no grant takes a link back.                  *)
THEOREM Edited == Spec => EditsKept
<1> DEFINE A == \A u \in Accounts :
        /\ account[u].role = "instructor" => account'[u].role = "instructor"
        /\ account'[u].identity # account[u].identity =>
              \E o \in Command :
                  /\ copy[o] # None /\ copy'[o] = None
                  /\ copy[o].user = u
                  /\ copy[o].wanted.identity # copy[o].read.identity
                  /\ account'[u].identity = copy[o].wanted.identity
<1>1. IInv /\ [Next]_vars => [A]_account
  BY EditStep DEF EditOf, vars, accounts
<1> QED BY Invariant, <1>1, PTL DEF Spec, EditsKept
=============================================================================
