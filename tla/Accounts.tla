------------------------------ MODULE Accounts ------------------------------
(***************************************************************************)
(* Accounts and sessions: servers that boot and seed the first admin       *)
(* (internal/seed, cmd/server), and the requests of one browser that log   *)
(* in and out, change the name and the password, and manage accounts       *)
(* (handler/auth.go, profile.go, admin.go, auth/middleware.go).            *)
(*                                                                         *)
(* One SQL statement is one step.  The table of sessions belongs to a      *)
(* library, pgstore.  Names and audit entries are left out: what matters   *)
(* of a change of name is that it writes back the whole session.           *)
(***************************************************************************)
EXTENDS Naturals

CONSTANTS
    User,       \* e-mail addresses that accounts can have
    First,      \* SEED_ADMIN_EMAIL
    Password,
    Initial,    \* SEED_ADMIN_PASSWORD, also the password of accounts that are created
    Key,        \* keys of sessions; bound: a login waits if all of them are in use
    Server,     \* processes that run the program
    Req,        \* requests of the browser that can be in progress at the same time
    Asks,       \* what each of them may ask for
    None,       \* no user, no role, no key
    MaxFaults,  \* bound: crashes, and errors while booting
    Faults      \* what may go wrong: "db", "crash"

AnyRole == {"admin", "editor", "viewer"}
Kind == {"login", "logout", "name", "password", "create", "update"}

(* Whose account, the password that is typed in, the new one and whether it *)
(* is confirmed and long enough; the role and the activity an account is    *)
(* given (None: left as it is).                                             *)
Ask == [kind : Kind, user : User \cup {None}, old : Password, new : Password, fit : BOOLEAN,
        role : AnyRole \cup {None}, active : BOOLEAN \cup {None}]

ASSUME AccountsAssumption ==
    /\ First \in User /\ Initial \in Password
    /\ None \notin User \cup Key /\ None \notin AnyRole
    /\ Asks \in [Req -> (SUBSET Ask) \ {{}}]
    /\ \A r \in Req : \A a \in Asks[r] :
        /\ a.kind \in {"login", "create", "update"} => a.user # None
        /\ a.kind = "create" => a.role # None
    /\ MaxFaults \in Nat /\ Faults \subseteq {"db", "crash"}

VARIABLES
    known,      \* users: accounts there are; none is ever deleted
    role,       \* users.role
    active,     \* users.active
    password,   \* what users.password_hash is the hash of
    boot,       \* where each server is in main
    faults,     \* how often one of them failed
    sessions,   \* rows of the session table: key, user and role
    cookie,     \* the browser's
    pc,         \* where each request is
    ask,        \* what it asks for
    key,        \* its session's key
    held,       \* the session's values, or the account's, that it has read
    could,      \* the password was right for an active account meanwhile (history)
    couldnot,   \* it was not, meanwhile (history)
    given       \* the roles each account has ever had (history)

users == <<known, role, active, password>>
boots == <<boot, faults>>
request == <<pc, ask, key, held>>
vars == <<users, boots, sessions, cookie, request, could, couldnot, given>>

Row == [key : Key, user : User, role : AnyRole]
Nobody == [user |-> None, role |-> None]
Idle(r) == CHOOSE a \in Asks[r] : TRUE

Init ==
    /\ known = {}
    /\ role = [u \in User |-> None]
    /\ active = [u \in User |-> FALSE]
    /\ password = [u \in User |-> Initial]
    /\ boot = [s \in Server |-> "down"]
    /\ faults = 0
    /\ sessions = {}
    /\ cookie = None
    /\ pc = [r \in Req |-> "idle"]
    /\ ask = [r \in Req |-> Idle(r)]
    /\ key = [r \in Req |-> None]
    /\ held = [r \in Req |-> Nobody]
    /\ could = [r \in Req |-> FALSE]
    /\ couldnot = [r \in Req |-> FALSE]
    /\ given = [u \in User |-> {}]

(* CreateUser: email is UNIQUE, active is TRUE by default.                  *)
InsertUser(u, p) ==
    /\ u.user \notin known
    /\ known' = known \cup {u.user}
    /\ role' = [role EXCEPT ![u.user] = u.role]
    /\ active' = [active EXCEPT ![u.user] = TRUE]
    /\ password' = [password EXCEPT ![u.user] = p]

-----------------------------------------------------------------------------
(* Booting.                                                                 *)

Serving == {"up", "unseeded"}
Booted(s, p) == boot' = [boot EXCEPT ![s] = p]
Browsing == <<sessions, cookie, request>>

Slip_CountNever(s) ==
    /\ boot[s] = "down"
    /\ Booted(s, "insert")
    /\ UNCHANGED <<users, faults, Browsing>>

(* The container is (re)started.  seed.AdminUser: CountUsers, and an error  *)
(* is only logged: the server serves although it did not look.              *)
Count(s) ==
    /\ boot[s] = "down"
    /\ \/ known = {} /\ Booted(s, "insert") /\ UNCHANGED faults
       \/ known # {} /\ Booted(s, "up") /\ UNCHANGED faults
       \/ /\ "db" \in Faults /\ faults < MaxFaults
          /\ faults' = faults + 1
          /\ Booted(s, "unseeded")
    /\ UNCHANGED <<users, Browsing>>

(* ... CreateUser, whose failure ends the process.                          *)
Seed(s) ==
    /\ boot[s] = "insert"
    /\ \/ /\ InsertUser([user |-> First, role |-> "admin"], Initial)
          /\ Booted(s, "up")
          /\ UNCHANGED faults
       \/ First \in known /\ Booted(s, "down") /\ UNCHANGED <<users, faults>>
       \/ /\ "db" \in Faults /\ faults < MaxFaults
          /\ faults' = faults + 1
          /\ Booted(s, "down")
          /\ UNCHANGED users
    /\ UNCHANGED Browsing

Crash(s) ==
    /\ "crash" \in Faults /\ faults < MaxFaults
    /\ boot[s] # "down"
    /\ faults' = faults + 1
    /\ Booted(s, "down")
    /\ UNCHANGED <<users, Browsing>>

-----------------------------------------------------------------------------
(* The session table, and requests that come and go.                        *)

Goto(r, p) == pc' = [pc EXCEPT ![r] = p]
Rows(k) == {x \in sessions : x.key = k}
Values(x) == [user |-> x.user, role |-> x.role]

(* Save of a session that was there when it was read: an UPDATE, which does *)
(* nothing if the row is gone.                                              *)
UpdateRows(k, x) ==
    sessions' = {y \in sessions : y.key # k}
                \cup {[key |-> k, user |-> x.user, role |-> x.role] : y \in Rows(k)}

(* Save of a new one.                                                       *)
InsertRow(k, x) ==
    sessions' = sessions \cup {[key |-> k, user |-> x.user, role |-> x.role]}

Arrive(r, a) ==
    /\ pc[r] = "idle"
    /\ \E s \in Server : boot[s] \in Serving
    /\ a.kind = "update" => a.user \in known
    /\ ask' = [ask EXCEPT ![r] = a]
    /\ key' = [key EXCEPT ![r] = cookie]
    /\ Goto(r, CASE a.kind = "login" -> "account"
                 [] a.kind = "logout" -> "destroy"
                 [] OTHER -> "auth")
    /\ UNCHANGED <<users, boots, sessions, cookie, held>>

End(r) ==
    /\ Goto(r, "idle")
    /\ ask' = [ask EXCEPT ![r] = Idle(r)]
    /\ key' = [key EXCEPT ![r] = None]
    /\ held' = [held EXCEPT ![r] = Nobody]

(* The browser takes the cookie of the answer: a saved session sets its     *)
(* key, a destroyed one clears it.  "amiss" is an answer that hides a       *)
(* database error: it looks like the others and sets no cookie.             *)
Answer(r) ==
    /\ pc[r] \in {"served", "refused", "amiss"}
    /\ End(r)
    /\ cookie' = IF pc[r] = "served" /\ ask[r].kind \in {"login", "name"} THEN key[r]
                 ELSE IF pc[r] = "served" /\ ask[r].kind = "logout" THEN None ELSE cookie
    /\ UNCHANGED <<users, boots, sessions>>

(* A crash, or a database error that is told: no answer, or a status 500.   *)
(* The errors that are not told are in the actions they happen in.          *)
Error(r) ==
    /\ Faults # {}
    /\ pc[r] # "idle"
    /\ End(r)
    /\ UNCHANGED <<users, boots, sessions, cookie>>

Same == <<boots, cookie, ask>>
Amiss(r) == "db" \in Faults /\ Goto(r, "amiss")

(* RequireAuth: a request without a session is sent to the login page, and  *)
(* so is one whose session cannot be read.                                  *)
RequireAuth(r) ==
    /\ pc[r] = "auth"
    /\ \/ /\ \E x \in Rows(key[r]) : held' = [held EXCEPT ![r] = Values(x)]
          /\ Goto(r, CASE ask[r].kind = "name" -> "rename"
                       [] ask[r].kind = "password" -> "row"
                       [] OTHER -> "admin")
       \/ /\ Rows(key[r]) = {} \/ "db" \in Faults
          /\ Goto(r, "refused")
          /\ UNCHANGED held
    /\ UNCHANGED <<users, sessions, key, Same>>

-----------------------------------------------------------------------------
(* LoginPage: the active account of that address, and its password.         *)

Matches(u, p) == u \in known /\ active[u] /\ password[u] = p

Slip_FindAccountInactive(r) ==
    LET u == ask[r].user IN
    /\ pc[r] = "account"
    /\ \/ /\ u \in known /\ password[u] = ask[r].old
          /\ held' = [held EXCEPT ![r] = [user |-> u, role |-> role[u]]]
          /\ Goto(r, "load")
       \/ ~(u \in known /\ password[u] = ask[r].old) /\ Goto(r, "refused") /\ UNCHANGED held
    /\ UNCHANGED <<users, sessions, key, Same>>

(* GetUserByEmail and the comparison of the hashes.  Any error of the query *)
(* is answered "Invalid email or password".                                 *)
FindAccount(r) ==
    LET u == ask[r].user IN
    /\ pc[r] = "account"
    /\ \/ /\ Matches(u, ask[r].old)
          /\ held' = [held EXCEPT ![r] = [user |-> u, role |-> role[u]]]
          /\ Goto(r, "load")
       \/ ~Matches(u, ask[r].old) /\ Goto(r, "refused") /\ UNCHANGED held
       \/ Amiss(r) /\ UNCHANGED held
    /\ UNCHANGED <<users, sessions, key, Same>>

(* A key nobody has.                                                        *)
Unused == Key \ ({x.key : x \in sessions} \cup {cookie} \cup {key[q] : q \in Req})

(* store.Get: the browser's session, or a new one, for which the key of a   *)
(* cookie is taken even if its row is gone.                                 *)
LoadSession(r) ==
    /\ pc[r] = "load"
    /\ Goto(r, IF Rows(key[r]) # {} THEN "update" ELSE "insert")
    /\ \/ key[r] # None /\ UNCHANGED key
       \/ /\ key[r] = None /\ Unused # {}
          /\ key' = [key EXCEPT ![r] = CHOOSE k \in Unused : TRUE]
    /\ UNCHANGED <<users, sessions, held, Same>>

Slip_OverwriteKeepsRole(r) ==
    /\ pc[r] = "update"
    /\ sessions' = {y \in sessions : y.key # key[r]}
                   \cup {[y EXCEPT !.user = held[r].user] : y \in Rows(key[r])}
    /\ Goto(r, "served")
    /\ UNCHANGED <<users, key, held, Same>>

OverwriteSession(r) ==
    /\ pc[r] = "update"
    /\ UpdateRows(key[r], held[r])
    /\ Goto(r, "served")
    /\ UNCHANGED <<users, key, held, Same>>

InsertSession(r) ==
    /\ pc[r] = "insert"
    /\ InsertRow(key[r], held[r])
    /\ Goto(r, "served")
    /\ UNCHANGED <<users, key, held, Same>>

(* Logout, to which a request without a session is welcome too.  When the   *)
(* session cannot be read or deleted the browser is sent to the login page  *)
(* all the same, and row and cookie stay.                                   *)
DestroySession(r) ==
    /\ pc[r] = "destroy"
    /\ \/ sessions' = sessions \ Rows(key[r]) /\ Goto(r, "served")
       \/ Amiss(r) /\ UNCHANGED sessions
    /\ UNCHANGED <<users, key, held, Same>>

-----------------------------------------------------------------------------
(* Profile.                                                                 *)

(* UpdateName: UpdateUserName ...                                           *)
Rename(r) ==
    /\ pc[r] = "rename"
    /\ Goto(r, "rewrite")
    /\ UNCHANGED <<users, sessions, key, held, Same>>

Slip_RewriteInserts(r) ==
    /\ pc[r] = "rewrite"
    /\ InsertRow(key[r], held[r])
    /\ Goto(r, "served")
    /\ UNCHANGED <<users, key, held, Same>>

(* ... and the session, as it was when the request came, with the new name; *)
(* an error of that is dropped.                                             *)
RewriteSession(r) ==
    /\ pc[r] = "rewrite"
    /\ \/ UpdateRows(key[r], held[r]) /\ Goto(r, "served")
       \/ Amiss(r) /\ UNCHANGED sessions
    /\ UNCHANGED <<users, key, held, Same>>

(* UpdatePassword: the new password is turned down unread if it is not      *)
(* confirmed or too short; then GetUserByID, the account's activity and the *)
(* old password.                                                            *)
CheckPassword(r) ==
    /\ pc[r] = "row"
    /\ Goto(r, IF ask[r].fit /\ Matches(held[r].user, ask[r].old) THEN "set" ELSE "refused")
    /\ UNCHANGED <<users, sessions, key, held, Same>>

SetPassword(r) ==
    /\ pc[r] = "set"
    /\ password' = [password EXCEPT ![held[r].user] = ask[r].new]
    /\ Goto(r, "served")
    /\ UNCHANGED <<known, role, active, sessions, key, held, Same>>

-----------------------------------------------------------------------------
(* Administration: what counts is the role that is stored in the session.   *)

CheckAdmin(r) ==
    /\ pc[r] = "admin"
    /\ Goto(r, IF held[r].role # "admin" THEN "refused"
               ELSE IF ask[r].kind = "create" THEN "create"
               ELSE IF ask[r].role # None THEN "role"
               ELSE IF ask[r].active # None THEN "active" ELSE "served")
    /\ UNCHANGED <<users, sessions, key, held, Same>>

(* Any error of the INSERT is answered "email may already exist".           *)
CreateAccount(r) ==
    /\ pc[r] = "create"
    /\ \/ InsertUser(ask[r], Initial) /\ Goto(r, "served")
       \/ /\ ask[r].user \in known \/ "db" \in Faults
          /\ Goto(r, "refused")
          /\ UNCHANGED users
    /\ UNCHANGED <<sessions, key, held, Same>>

(* UpdateUser: UpdateUserRole, then DeactivateUser.                         *)
SetRole(r) ==
    /\ pc[r] = "role"
    /\ role' = [role EXCEPT ![ask[r].user] = ask[r].role]
    /\ Goto(r, IF ask[r].active # None THEN "active" ELSE "served")
    /\ UNCHANGED <<known, active, password, sessions, key, held, Same>>

SetActive(r) ==
    /\ pc[r] = "active"
    /\ active' = [active EXCEPT ![ask[r].user] = ask[r].active]
    /\ Goto(r, "served")
    /\ UNCHANGED <<known, role, password, sessions, key, held, Same>>

-----------------------------------------------------------------------------
Handle(r) ==
    \/ RequireAuth(r)
    \/ FindAccount(r) \/ LoadSession(r) \/ OverwriteSession(r) \/ InsertSession(r)
    \/ DestroySession(r)
    \/ Rename(r) \/ RewriteSession(r) \/ CheckPassword(r) \/ SetPassword(r)
    \/ CheckAdmin(r) \/ CreateAccount(r) \/ SetRole(r) \/ SetActive(r)

(* Sessions end after seven days.                                           *)
Expire ==
    /\ \E x \in sessions : sessions' = sessions \ {x}
    /\ UNCHANGED <<users, boots, cookie, request>>

Booting(s) == Count(s) \/ Seed(s)

(* Of a request that logs in or changes the password: whose account, and is *)
(* it active with that password?                                            *)
Subject(r) == IF ask[r].kind = "login" THEN ask[r].user ELSE held[r].user

(* What is remembered of it until the request has its answer.               *)
History ==
    /\ could' = [r \in Req |->
        (could[r] /\ pc'[r] \notin {"idle", "refused"})
        \/ (pc'[r] \in {"account", "row"} /\ Matches(Subject(r), ask[r].old)')]
    /\ couldnot' = [r \in Req |->
        (couldnot[r] /\ pc'[r] \in {"account", "row", "refused"})
        \/ (pc'[r] \in {"account", "row"} /\ ~Matches(Subject(r), ask[r].old)')]
    /\ given' = [u \in User |-> given[u] \cup ({role'[u]} \ {None})]

Next ==
    /\ \/ \E s \in Server : Booting(s) \/ Crash(s)
       \/ \E r \in Req : Handle(r) \/ Answer(r) \/ Error(r) \/ \E a \in Asks[r] : Arrive(r, a)
       \/ Expire
    /\ History

(* docker-compose: restart unless-stopped.  Requests need not be finished.  *)
Fairness == \A s \in Server : WF_vars(Booting(s) /\ History)

Spec == Init /\ [][Next]_vars /\ Fairness
-----------------------------------------------------------------------------
Acting == {"rename", "rewrite", "row", "set", "admin", "create", "role", "active"}

(* The variables hold what their columns and locals hold; a request that    *)
(* got past RequireAuth acts for an account, and so does a session.         *)
TypeOK ==
    /\ known \subseteq User
    /\ role \in [User -> AnyRole \cup {None}]
    /\ \A u \in User : role[u] = None <=> u \notin known
    /\ active \in [User -> BOOLEAN]
    /\ password \in [User -> Password]
    /\ boot \in [Server -> {"down", "insert"} \cup Serving]
    /\ faults \in 0..MaxFaults
    /\ sessions \subseteq [key : Key, user : known, role : AnyRole]
    /\ cookie \in Key \cup {None}
    /\ \A r \in Req :
        /\ pc[r] \in Acting \cup {"idle", "auth", "account", "load", "update", "insert",
                                  "destroy", "served", "refused", "amiss"}
        /\ ask[r] \in Asks[r]
        /\ key[r] \in Key \cup {None}
        /\ held[r] \in [user : known, role : AnyRole] \cup {Nobody}
        /\ pc[r] \in Acting \cup {"load", "update", "insert"} => held[r] # Nobody
    /\ could \in [Req -> BOOLEAN] /\ couldnot \in [Req -> BOOLEAN]
    /\ given \in [User -> SUBSET AnyRole]

(* A login, or a change of password, is answered truthfully about some time *)
(* while it was in progress: it succeeds only if the account was active and *)
(* the password was right, and fails only if that was not so.  Excepted are *)
(* a login whose query of the account met a database error, which is told   *)
(* "Invalid email or password" whatever was typed (amiss, README), and a    *)
(* new password that is turned down for itself (fit).                       *)
AnswersAreTrue ==
    \A r \in Req :
        \/ ask[r].kind = "login"
        \/ ask[r].kind = "password" /\ ask[r].fit /\ held[r] # Nobody
        => /\ pc[r] = "served" => could[r]
           /\ pc[r] = "refused" => couldnot[r]

(* A session has only a role that its account has had.                      *)
RoleWasGiven == \A x \in sessions : x.role \in given[x.user]

(* A session that was deleted by a log-out or has expired does not come     *)
(* back by itself: only a login makes one.  (A log-out whose DELETE fails   *)
(* deletes nothing and says nothing: README.)                               *)
LogoutSticks ==
    [][\A k \in Key : Rows(k) = {} /\ Rows(k)' # {} =>
        \E r \in Req : key[r] = k /\ ask[r].kind = "login"]_vars

(* Whichever servers boot at the same time, are killed at any point or fail *)
(* to insert, and are started again: in the end all of them serve, and the  *)
(* first admin is there.  Excused is only a server that runs although it    *)
(* could not count the accounts.                                            *)
BootEnds ==
    <>[](/\ \A s \in Server : boot[s] \in Serving
         /\ First \in known \/ \E s \in Server : boot[s] = "unseeded")
=============================================================================
