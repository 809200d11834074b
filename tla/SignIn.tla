------------------------------- MODULE SignIn -------------------------------
(***************************************************************************)
(* Accounts and browser sessions: the OIDC callback, the operator's        *)
(* manage_user commands, and one browser whose tabs act, sign in and sign  *)
(* out with the one cookie they share.                                     *)
(*                                                                         *)
(* One action is one step of a handler between two awaits.  A callback     *)
(* names what it makes: the account it inserts, the token and the CSRF     *)
(* value of the session it stores are new ones.  Keys of Redis may expire  *)
(* or be lost at any time.                                                 *)
(***************************************************************************)
EXTENDS FiniteSets, Integers

CONSTANTS
    Identity,   \* a subject at the one provider, the school's, with its issuer
    Email,
    Legacy,     \* accounts from before single sign-on
    Callback,   \* calls of /auth/callback, from this browser or another one
    Command,    \* runs of manage_user
    Tab,        \* tabs of the browser
    Post,       \* POST requests they send
    None

User == Legacy \cup Callback

Claims == [identity : Identity, email : Email]

Row == [email : Email, identity : Identity \cup {None}, role : {"student", "instructor"}]

(* A request of a tab. *)
Envelope == [cookie : Callback \cup {None}, csrf : Callback, logout : BOOLEAN]

ASSUME SignInAssumption ==
    /\ None \notin Identity \cup User \cup Claims \cup Row \cup Envelope
    /\ Legacy \cap Callback = {}

VARIABLES
    account,    \* users
    session,    \* browser-session:<hash> in Redis: the user of a token
    \* callbacks
    claims,     \* identity and email of the person who comes back
    step,       \* the next step
    user,       \* the account found or made
    answer,     \* what the callback said
    \* manage_user
    unused,     \* commands not given yet
    copy,       \* the row a command has read, and how it would have it
    \* the browser
    cookie,     \* headcount_session
    csrf,       \* what /auth/me has told a tab
    post,       \* a request: its cookie, its CSRF header, its handler
    stage,      \* its next step
    actor,      \* whom it acts for
    \* history
    held,       \* identities an account has ever had
    before,     \* conflicts answered when a callback began
    signedOut   \* tokens a logout has deleted

accounts == <<account, held>>
callbacks == <<claims, step, user, answer, before>>
operator == <<unused, copy>>
posts == <<post, stage, actor>>
browser == <<cookie, csrf, posts>>
vars == <<accounts, session, callbacks, operator, browser, signedOut>>

TypeOK ==
    /\ account \in [User -> Row \cup {None}]
    /\ session \in [Callback -> User \cup {None}]
    /\ claims \in [Callback -> Claims \cup {None}]
    /\ step \in [Callback -> {"new", "email", "insert", "store", "send", "end"}]
    /\ user \in [Callback -> User \cup {None}]
    /\ answer \in [Callback -> {"none", "in", "link", "conflict", "error"}]
    /\ unused \subseteq Command
    /\ copy \in [Command -> [user : User, read : Row, wanted : Row] \cup {None}]
    /\ cookie \in Callback \cup {None}
    /\ csrf \in [Tab -> Callback \cup {None}]
    /\ post \in [Post -> Envelope \cup {None}]
    /\ stage \in [Post -> {"new", "auth", "run", "send", "end"}]
    /\ actor \in [Post -> User \cup {None}]
    /\ held \in [User -> SUBSET Identity]
    /\ before \in [Callback -> SUBSET Callback]
    /\ signedOut \subseteq Callback

Init ==
    /\ account \in [User -> Row \cup {None}]
    /\ \A c \in Callback : account[c] = None
    /\ \A l \in Legacy : account[l] # None /\ account[l].identity = None
    /\ \A k, l \in Legacy : account[k].email = account[l].email => k = l
    /\ session = [c \in Callback |-> None]
    /\ claims = [c \in Callback |-> None]
    /\ step = [c \in Callback |-> "new"]
    /\ user = [c \in Callback |-> None]
    /\ answer = [c \in Callback |-> "none"]
    /\ unused = Command
    /\ copy = [o \in Command |-> None]
    /\ cookie = None
    /\ csrf = [t \in Tab |-> None]
    /\ post = [p \in Post |-> None]
    /\ stage = [p \in Post |-> "new"]
    /\ actor = [p \in Post |-> None]
    /\ held = [u \in User |-> {}]
    /\ before = [c \in Callback |-> {}]
    /\ signedOut = {}

-----------------------------------------------------------------------------
(* The users table. *)

Accounts == {u \in User : account[u] # None}
WithIdentity(i) == {u \in Accounts : account[u].identity = i}
WithEmail(e) == {u \in Accounts : account[u].email = e}

-----------------------------------------------------------------------------
(* /auth/callback *)

GoTo(c, s) == step' = [step EXCEPT ![c] = s]

(* The handler returns or raises. *)
Answer(c, a) == GoTo(c, "end") /\ answer' = [answer EXCEPT ![c] = a]

(* The provider's claims are in, and the user is looked up by identity. *)
Find(c, who) ==
    /\ step[c] = "new"
    /\ claims' = [claims EXCEPT ![c] = who]
    /\ before' = [before EXCEPT ![c] = {d \in Callback : answer[d] = "conflict"}]
    /\ IF WithIdentity(who.identity) = {}
         THEN GoTo(c, "email") /\ UNCHANGED user
         ELSE /\ \E u \in WithIdentity(who.identity) : user' = [user EXCEPT ![c] = u]
              /\ GoTo(c, "store")
    /\ UNCHANGED <<accounts, session, answer, operator, browser, signedOut>>

(* The account with the email is signed in to. *)
FindEmailLink(c) ==
    /\ step[c] = "email"
    /\ IF WithEmail(claims[c].email) = {}
         THEN GoTo(c, "insert") /\ UNCHANGED user
         ELSE /\ \E u \in WithEmail(claims[c].email) : user' = [user EXCEPT ![c] = u]
              /\ GoTo(c, "store")
    /\ UNCHANGED <<accounts, session, claims, answer, before, operator, browser, signedOut>>

(* The email is left to the unique index. *)
FindEmailNot(c) ==
    /\ step[c] = "email"
    /\ GoTo(c, "insert")
    /\ UNCHANGED <<accounts, session, claims, user, answer, before, operator, browser, signedOut>>

FindEmail(c) ==
    /\ step[c] = "email"
    /\ IF WithEmail(claims[c].email) = {}
         THEN GoTo(c, "insert") /\ UNCHANGED answer
         ELSE Answer(c, "link")
    /\ UNCHANGED <<accounts, session, claims, user, before, operator, browser, signedOut>>

InsertBlind(c) ==
    /\ step[c] = "insert"
    /\ account' = [account EXCEPT ![c] =
          [email |-> claims[c].email, identity |-> claims[c].identity, role |-> "student"]]
    /\ held' = [held EXCEPT ![c] = {claims[c].identity}]
    /\ user' = [user EXCEPT ![c] = c]
    /\ GoTo(c, "store")
    /\ UNCHANGED <<session, claims, answer, before, operator, browser, signedOut>>

(* Both columns have a unique index. *)
Insert(c) ==
    /\ step[c] = "insert"
    /\ WithIdentity(claims[c].identity) \cup WithEmail(claims[c].email) = {}
    /\ account' = [account EXCEPT ![c] =
          [email |-> claims[c].email, identity |-> claims[c].identity, role |-> "student"]]
    /\ held' = [held EXCEPT ![c] = {claims[c].identity}]
    /\ user' = [user EXCEPT ![c] = c]
    /\ GoTo(c, "store")
    /\ UNCHANGED <<session, claims, answer, before, operator, browser, signedOut>>

Conflict(c) ==
    /\ step[c] = "insert"
    /\ WithIdentity(claims[c].identity) \cup WithEmail(claims[c].email) # {}
    /\ Answer(c, "conflict")
    /\ UNCHANGED <<accounts, session, claims, user, before, operator, browser, signedOut>>

(* create_browser_session *)
Store(c) ==
    /\ step[c] = "store"
    /\ session' = [session EXCEPT ![c] = user[c]]
    /\ GoTo(c, "send")
    /\ UNCHANGED <<accounts, claims, user, answer, before, operator, browser, signedOut>>

(* The answer reaches this browser, or another one, or nobody. *)
Send(c) ==
    /\ step[c] = "send"
    /\ cookie' \in {c, cookie}
    /\ Answer(c, "in")
    /\ UNCHANGED <<accounts, session, claims, user, before, operator, csrf, posts, signedOut>>

(* Whatever the commit fails of is taken for a conflict. *)
AbortConflict(c) ==
    /\ step[c] = "insert"
    /\ Answer(c, "conflict")
    /\ UNCHANGED <<accounts, session, claims, user, before, operator, browser, signedOut>>

(* Postgres or Redis fails, or the instance dies. *)
Abort(c) ==
    /\ step[c] \in {"email", "insert", "store"}
    /\ Answer(c, "error")
    /\ UNCHANGED <<accounts, session, claims, user, before, operator, browser, signedOut>>

-----------------------------------------------------------------------------
(* python -m app.manage_user *)

(* The command is stored for the role. *)
EditsCommand(row) == {[row EXCEPT !.role = "grant-instructor"]}

(* grant-instructor, or link-identity for one of the identities *)
Edits(row) ==
    {[row EXCEPT !.role = "instructor"]} \cup {[row EXCEPT !.identity = i] : i \in Identity}

(* A command for an unknown email ends at once. *)
Read(o) ==
    /\ o \in unused
    /\ unused' = unused \ {o}
    /\ \E u \in Accounts : \E row \in Edits(account[u]) :
          copy' = [copy EXCEPT ![o] = [user |-> u, read |-> account[u], wanted |-> row]]
    /\ UNCHANGED <<accounts, session, callbacks, browser, signedOut>>

(* Every column is written. *)
WrittenWhole(o) == copy[o].wanted

(* Only the columns whose value is not the one that was read are written. *)
Written(o) ==
    [f \in DOMAIN copy[o].read |->
        IF copy[o].wanted[f] = copy[o].read[f] THEN account[copy[o].user][f] ELSE copy[o].wanted[f]]

CommandCommit(o) ==
    LET u == copy[o].user
        new == Written(o)
    IN  /\ copy[o] # None
        /\ new.identity = None \/ WithIdentity(new.identity) \subseteq {u}
        /\ account' = [account EXCEPT ![u] = new]
        /\ held' = [held EXCEPT ![u] = @ \cup ({new.identity} \ {None})]
        /\ copy' = [copy EXCEPT ![o] = None]
        /\ UNCHANGED <<session, callbacks, unused, browser, signedOut>>

(* The unique index refuses the identity, or the command is killed. *)
CommandFail(o) ==
    /\ copy[o] # None
    /\ copy' = [copy EXCEPT ![o] = None]
    /\ UNCHANGED <<accounts, session, callbacks, unused, browser, signedOut>>

-----------------------------------------------------------------------------
(* The browser and the requests of its tabs. *)

Live(k) == k # None /\ session[k] # None

(* GET /auth/me, by which a page learns its user and its CSRF value. *)
Me(t) ==
    /\ Live(cookie)
    /\ csrf' = [csrf EXCEPT ![t] = cookie]
    /\ UNCHANGED <<accounts, session, callbacks, operator, cookie, posts, signedOut>>

Submit(p, t, out) ==
    /\ stage[p] = "new"
    /\ csrf[t] # None
    /\ post' = [post EXCEPT ![p] = [cookie |-> cookie, csrf |-> csrf[t], logout |-> out]]
    /\ stage' = [stage EXCEPT ![p] = "auth"]
    /\ UNCHANGED <<accounts, session, callbacks, operator, cookie, csrf, actor, signedOut>>

(* The request is over. *)
Return(p) ==
    /\ stage' = [stage EXCEPT ![p] = "end"]
    /\ post' = [post EXCEPT ![p] = None]
    /\ actor' = [actor EXCEPT ![p] = None]

(* The header is not compared. *)
AuthUnchecked(p) ==
    /\ stage[p] = "auth"
    /\ Live(post[p].cookie)
    /\ stage' = [stage EXCEPT ![p] = "run"]
    /\ actor' = [actor EXCEPT ![p] = session[post[p].cookie]]
    /\ UNCHANGED <<accounts, session, callbacks, operator, cookie, csrf, post, signedOut>>

(* optional_auth and require_auth.  The user is read from Postgres. *)
Auth(p) ==
    /\ stage[p] = "auth"
    /\ Live(post[p].cookie)
    /\ post[p].csrf = post[p].cookie
    /\ stage' = [stage EXCEPT ![p] = "run"]
    /\ actor' = [actor EXCEPT ![p] = session[post[p].cookie]]
    /\ UNCHANGED <<accounts, session, callbacks, operator, cookie, csrf, post, signedOut>>

(* 401 or 403 *)
Refuse(p) ==
    /\ stage[p] = "auth"
    /\ ~(Live(post[p].cookie) /\ post[p].csrf = post[p].cookie)
    /\ Return(p)
    /\ UNCHANGED <<accounts, session, callbacks, operator, cookie, csrf, signedOut>>

(* The session is stored again, with a new expiry. *)
ActRenew(p) ==
    /\ stage[p] = "run"
    /\ ~post[p].logout
    /\ session' = [session EXCEPT ![post[p].cookie] = actor[p]]
    /\ Return(p)
    /\ UNCHANGED <<accounts, callbacks, operator, cookie, csrf, signedOut>>

(* The handler of anything but a logout. *)
Act(p) ==
    /\ stage[p] = "run"
    /\ ~post[p].logout
    /\ Return(p)
    /\ UNCHANGED <<accounts, session, callbacks, operator, cookie, csrf, signedOut>>

(* delete_browser_session *)
Logout(p) ==
    LET k == post[p].cookie
    IN  /\ stage[p] = "run"
        /\ post[p].logout
        /\ session' = [session EXCEPT ![k] = None]
        /\ signedOut' = signedOut \cup {k}
        /\ stage' = [stage EXCEPT ![p] = "send"]
        /\ UNCHANGED <<accounts, callbacks, operator, cookie, csrf, post, actor>>

(* delete_cookie is in the answer, which may be lost. *)
LoggedOut(p) ==
    /\ stage[p] = "send"
    /\ cookie' \in {None, cookie}
    /\ Return(p)
    /\ UNCHANGED <<accounts, session, callbacks, operator, csrf, signedOut>>

(* The key's eight hours are over, or Redis has lost it. *)
Expire(k) ==
    /\ Live(k)
    /\ session' = [session EXCEPT ![k] = None]
    /\ UNCHANGED <<accounts, callbacks, operator, browser, signedOut>>

CallbackStep(c) ==
    \/ \E who \in Claims : Find(c, who)
    \/ FindEmail(c) \/ Insert(c) \/ Conflict(c) \/ Store(c) \/ Send(c) \/ Abort(c)

CommandStep(o) == Read(o) \/ CommandCommit(o) \/ CommandFail(o)

PostStep(p) ==
    \/ \E t \in Tab, out \in BOOLEAN : Submit(p, t, out)
    \/ Auth(p) \/ Refuse(p) \/ Act(p) \/ Logout(p) \/ LoggedOut(p)

Next ==
    \/ \E c \in Callback : CallbackStep(c) \/ Expire(c)
    \/ \E o \in Command : CommandStep(o)
    \/ \E t \in Tab : Me(t)
    \/ \E p \in Post : PostStep(p)

Spec == Init /\ [][Next]_vars

-----------------------------------------------------------------------------
(* Properties.                                                             *)

(* However callbacks and commands race, one person has one account and one *)
(* email leads to one (models.py:16).                                      *)
OneAccount ==
    \A u, v \in Accounts :
        \/ u = v
        \/ /\ account[u].email # account[v].email
           /\ account[u].identity = None \/ account[u].identity # account[v].identity

(* "The callback does not auto-link accounts by email" (README.md:83): one *)
(* is signed in only to an account that a callback made for one's identity *)
(* or that an operator has linked to it.                                   *)
OwnAccount ==
    \A c \in Callback : user[c] # None => claims[c].identity \in held[user[c]]

(* A callback that is refused is told why: somebody has its email, or had  *)
(* its identity when it was told of a conflict.                            *)
RefusedForCause ==
    \A c \in Callback :
        \/ answer[c] \notin {"link", "conflict"}
        \/ WithEmail(claims[c].email) # {}
        \/ answer[c] = "conflict" /\ \E u \in User : claims[c].identity \in held[u]

(* "Account provisioning conflict; try signing in again" (main.py:259):    *)
(* the second time there is no conflict, unless an operator has relinked   *)
(* an account: one that has been linked to the identity and to another one *)
(* can lose the identity between two callbacks, and get it back in one.    *)
RetryHelps ==
    \A c, d \in Callback :
        /\ answer[c] = "conflict"
        /\ c \in before[d]
        /\ claims[c] = claims[d]
        /\ answer[d] = "conflict"
        => \E u \in Accounts :
              claims[c].identity \in held[u] /\ held[u] # {claims[c].identity}

(* A logout is final ("revocable", auth.py:1): no request still under way, *)
(* in whatever tab, brings the session back.                               *)
SignedOutStaysOut == \A k \in signedOut : session[k] = None

(* A tab acts for the user that /auth/me has told it, whoever has signed   *)
(* in through another tab since.                                           *)
ActsAsTold ==
    \A p \in Post : actor[p] # None => user[post[p].csrf] = actor[p]

(* A command does not undo what another one has committed: an instructor   *)
(* stays one while the account is linked or signed in to, and an account's *)
(* link changes only by a command that was asked to change it.             *)
EditsKept ==
    [][\A u \in Accounts :
        /\ account[u].role = "instructor" => account'[u].role = "instructor"
        /\ account'[u].identity # account[u].identity =>
              \E o \in Command :
                  /\ copy[o] # None /\ copy'[o] = None
                  /\ copy[o].user = u
                  /\ copy[o].wanted.identity # copy[o].read.identity
                  /\ account'[u].identity = copy[o].wanted.identity]_account
=============================================================================
