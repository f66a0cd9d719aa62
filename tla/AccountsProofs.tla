---------------------------- MODULE AccountsProofs ----------------------------
(***************************************************************************)
(* Proofs about Accounts, for any accounts, servers and requests, and      *)
(* whatever they ask for and whatever fails: log-ins and changes of        *)
(* password are answered truthfully, a session has a role its account has  *)
(* had, and only a log-in brings a session back.                           *)
(***************************************************************************)
EXTENDS Accounts, TLAPS

-----------------------------------------------------------------------------
(* What requests ask for.                                                   *)

LEMMA AskFacts ==
    ASSUME NEW r \in Req, NEW a \in Asks[r]
    PROVE  /\ a.kind \in Kind /\ a.user \in User \cup {None}
           /\ a.old \in Password /\ a.new \in Password
           /\ a.role \in AnyRole \cup {None} /\ a.active \in BOOLEAN \cup {None}
           /\ a.kind \in {"login", "create", "update"} => a.user \in User
           /\ a.kind = "create" => a.role \in AnyRole
<1>1. a \in Ask
  BY AccountsAssumption
<1>2. /\ a.kind \in {"login", "create", "update"} => a.user # None
      /\ a.kind = "create" => a.role # None
  BY AccountsAssumption
<1> QED
  BY <1>1, <1>2 DEF Ask

LEMMA SomeAsk == \A r \in Req : Idle(r) \in Asks[r]
<1>1. \A r \in Req : Asks[r] # {}
  BY AccountsAssumption
<1> QED
  BY <1>1 DEF Idle

-----------------------------------------------------------------------------
(* The invariant, in parts that steps disturb separately.                   *)

UsersOK ==
    /\ known \subseteq User
    /\ role \in [User -> AnyRole \cup {None}]
    /\ \A u \in User : role[u] = None <=> u \notin known
    /\ active \in [User -> BOOLEAN]
    /\ password \in [User -> Password]

BootsOK == boot \in [Server -> {"down", "insert"} \cup Serving] /\ faults \in 0..MaxFaults

SessionsOK ==
    /\ sessions \subseteq [key : Key, user : known, role : AnyRole]
    /\ cookie \in Key \cup {None}

Places == Acting \cup {"idle", "auth", "account", "load", "update", "insert",
                       "destroy", "served", "refused", "amiss"}
Somebody == [user : known, role : AnyRole]

RequestsOK ==
    /\ pc \in [Req -> Places]
    /\ DOMAIN ask = Req /\ \A r \in Req : ask[r] \in Asks[r]
    /\ key \in [Req -> Key \cup {None}]
    /\ held \in [Req -> Somebody \cup {Nobody}]

HistoryOK ==
    /\ could \in [Req -> BOOLEAN] /\ couldnot \in [Req -> BOOLEAN]
    /\ given \in [User -> SUBSET AnyRole]

(* A request is where requests of its kind come, with what they need.       *)
Fits(r) ==
    /\ pc[r] \in {"account", "load", "update", "insert"} => ask[r].kind = "login"
    /\ pc[r] = "destroy" => ask[r].kind = "logout"
    /\ pc[r] \in {"rename", "rewrite"} => ask[r].kind = "name"
    /\ pc[r] = "auth" => ask[r].kind \in {"name", "password", "create", "update"}
    /\ pc[r] \in {"row", "set"} => ask[r].kind = "password"
    /\ pc[r] \in {"admin", "create", "role", "active"} => ask[r].kind \in {"create", "update"}
    /\ pc[r] = "create" => ask[r].kind = "create"
    /\ pc[r] = "role" => ask[r].kind = "update" /\ ask[r].role # None
    /\ pc[r] = "active" => ask[r].kind = "update" /\ ask[r].active # None
    /\ pc[r] # "idle" /\ ask[r].kind = "update" => ask[r].user \in known
    /\ pc[r] \in {"insert", "update"} => key[r] # None
    /\ pc[r] \in {"idle", "auth", "account"} => held[r] = Nobody
    /\ pc[r] \in Acting \cup {"load", "update", "insert"} => held[r] # Nobody

(* The roles in sessions and in the hands of requests are roles that were   *)
(* given; so are those of the accounts themselves.                          *)
Given ==
    /\ \A u \in known : role[u] \in given[u]
    /\ \A x \in sessions : x.role \in given[x.user]
    /\ \A r \in Req : held[r] # Nobody => held[r].role \in given[held[r].user]

(* What a request is going to answer, or has answered, was true once.       *)
Honest(r) ==
    /\ pc[r] \in {"load", "update", "insert", "set"} => could[r]
    /\ pc[r] = "served" /\ ask[r].kind \in {"login", "password"} => could[r]
    /\ /\ pc[r] = "refused"
       /\ \/ ask[r].kind = "login"
          \/ ask[r].kind = "password" /\ ask[r].fit /\ held[r] # Nobody
       => couldnot[r]
    /\ pc[r] \in {"account", "row"} =>
        /\ Matches(Subject(r), ask[r].old) => could[r]
        /\ ~Matches(Subject(r), ask[r].old) => couldnot[r]

Untouched(q) == pc'[q] = pc[q] /\ ask'[q] = ask[q] /\ key'[q] = key[q] /\ held'[q] = held[q]

LEMMA HistoryFacts ==
    ASSUME History
    PROVE  /\ \A r \in Req :
                /\ could[r] /\ pc'[r] \notin {"idle", "refused"} => could'[r]
                /\ couldnot[r] /\ pc'[r] \in {"account", "row", "refused"} => couldnot'[r]
                /\ pc'[r] \in {"account", "row"} =>
                    /\ Matches(Subject(r), ask[r].old)' => could'[r]
                    /\ ~Matches(Subject(r), ask[r].old)' => couldnot'[r]
           /\ could' \in [Req -> BOOLEAN] /\ couldnot' \in [Req -> BOOLEAN]
<1>1. could' = [r \in Req |->
        (could[r] /\ pc'[r] \notin {"idle", "refused"})
        \/ (pc'[r] \in {"account", "row"} /\ Matches(Subject(r), ask[r].old)')]
  BY DEF History
<1>2. couldnot' = [r \in Req |->
        (couldnot[r] /\ pc'[r] \in {"account", "row", "refused"})
        \/ (pc'[r] \in {"account", "row"} /\ ~Matches(Subject(r), ask[r].old)')]
  BY DEF History
<1>3. could' \in [Req -> BOOLEAN] /\ couldnot' \in [Req -> BOOLEAN]
  BY <1>1, <1>2, Zenon
<1>4. ASSUME NEW r \in Req
      PROVE  could'[r] <=>
                (could[r] /\ pc'[r] \notin {"idle", "refused"})
                \/ (pc'[r] \in {"account", "row"} /\ Matches(Subject(r), ask[r].old)')
  BY <1>1, Zenon
<1>5. ASSUME NEW r \in Req
      PROVE  couldnot'[r] <=>
                (couldnot[r] /\ pc'[r] \in {"account", "row", "refused"})
                \/ (pc'[r] \in {"account", "row"} /\ ~Matches(Subject(r), ask[r].old)')
  BY <1>2, Zenon
<1> QED
  BY <1>3, <1>4, <1>5, Zenon

(* Given roles stay given, and those the accounts have now are among them.  *)
LEMMA GivenGrows ==
    ASSUME History, given \in [User -> SUBSET AnyRole],
           role' \in [User -> AnyRole \cup {None}]
    PROVE  /\ given' \in [User -> SUBSET AnyRole]
           /\ \A u \in User : given[u] \subseteq given'[u]
           /\ \A u \in User : role'[u] # None => role'[u] \in given'[u]
<1>1. given' = [u \in User |-> given[u] \cup ({role'[u]} \ {None})]
  BY DEF History
<1> QED
  BY <1>1

-----------------------------------------------------------------------------
(* Accounts are only added and changed.                                     *)

LEMMA InsertUserKeeps ==
    ASSUME UsersOK, NEW u, u.user \in User, u.role \in AnyRole, NEW p \in Password, InsertUser(u, p)
    PROVE  UsersOK' /\ known \subseteq known' /\ known' = known \cup {u.user}
<1>1. None \notin AnyRole
  BY AccountsAssumption
<1> DEFINE v == u.user
           w == u.role
<1>2. /\ v \in User /\ w \in AnyRole /\ v \notin known
      /\ known' = known \cup {v}
      /\ role' = [role EXCEPT ![v] = w]
      /\ active' = [active EXCEPT ![v] = TRUE]
      /\ password' = [password EXCEPT ![v] = p]
  BY DEF InsertUser
<1> HIDE DEF v, w
<1>3. UsersOK'
  BY <1>1, <1>2 DEF UsersOK
<1> QED
  BY <1>2, <1>3 DEF v

LEMMA BootingKeeps ==
    ASSUME UsersOK, BootsOK, NEW s \in Server, Booting(s) \/ Crash(s)
    PROVE  /\ UsersOK' /\ BootsOK' /\ known \subseteq known'
           /\ UNCHANGED <<sessions, cookie, request>>
<1>1. MaxFaults \in Nat /\ First \in User /\ Initial \in Password
  BY AccountsAssumption
<1>2. UNCHANGED <<sessions, cookie, request>>
  BY DEF Booting, Count, Seed, Crash, Browsing
<1>3. BootsOK'
  BY <1>1 DEF Booting, Count, Seed, Crash, Booted, BootsOK, Serving
<1>4. CASE UNCHANGED users
  BY <1>2, <1>3, <1>4 DEF users, UsersOK
<1>5. CASE InsertUser([user |-> First, role |-> "admin"], Initial)
  <2> DEFINE u == [user |-> First, role |-> "admin"]
  <2>1. u.user \in User /\ u.role \in AnyRole
    BY <1>1 DEF AnyRole
  <2> HIDE DEF u
  <2>2. InsertUser(u, Initial)
    BY <1>5 DEF u
  <2>3. UsersOK' /\ known \subseteq known'
    BY <1>1, <2>1, <2>2, InsertUserKeeps
  <2> QED
    BY <1>2, <1>3, <2>3
<1> QED
  BY <1>4, <1>5 DEF Booting, Count, Seed, Crash

LEMMA HandleKeepsUsers ==
    ASSUME UsersOK, RequestsOK, NEW r \in Req, Fits(r), Handle(r)
    PROVE  UsersOK' /\ known \subseteq known'
<1> DEFINE a == ask[r]
<1>1. /\ a.kind \in {"create", "update"} => a.user \in User
      /\ a.kind = "create" => a.role \in AnyRole
      /\ a.role \in AnyRole \cup {None} /\ a.active \in BOOLEAN \cup {None}
      /\ a.new \in Password
  BY AskFacts DEF RequestsOK
<1>2. None \notin AnyRole /\ Initial \in Password
  BY AccountsAssumption
<1>3. CASE UNCHANGED users
  BY <1>3 DEF users, UsersOK
<1>4. CASE SetPassword(r)
  BY <1>1, <1>4 DEF SetPassword, UsersOK
<1>5. CASE CreateAccount(r) /\ InsertUser(a, Initial)
  <2>1. a.kind = "create"
    BY <1>5 DEF CreateAccount, Fits
  <2>2. a.user \in User /\ a.role \in AnyRole
    BY <1>1, <2>1
  <2> HIDE DEF a
  <2> QED
    BY <1>2, <1>5, <2>2, InsertUserKeeps
<1>6. CASE SetRole(r)
  <2>1. a.role \in AnyRole /\ a.user \in known
    BY <1>1, <1>6 DEF SetRole, Fits, Places, Acting
  <2>2. /\ role' = [role EXCEPT ![a.user] = a.role]
        /\ UNCHANGED <<known, active, password>>
    BY <1>6 DEF SetRole
  <2> HIDE DEF a
  <2> QED
    BY <1>2, <2>1, <2>2 DEF UsersOK
<1>7. CASE SetActive(r)
  <2>1. a.active \in BOOLEAN
    BY <1>1, <1>7 DEF SetActive, Fits
  <2>2. active' = [active EXCEPT ![a.user] = a.active] /\ UNCHANGED <<known, role, password>>
    BY <1>7 DEF SetActive
  <2> HIDE DEF a
  <2> QED
    BY <2>1, <2>2 DEF UsersOK
<1> QED
  BY <1>3, <1>4, <1>5, <1>6, <1>7 DEF Handle, RequireAuth, FindAccount, LoadSession,
     OverwriteSession, InsertSession, DestroySession, Rename, RewriteSession, CheckPassword,
     CheckAdmin, CreateAccount

-----------------------------------------------------------------------------
(* Sessions.                                                                *)

(* The key of a new session is a key.                                       *)
LEMMA FreshKey == Unused # {} => (CHOOSE k \in Unused : TRUE) \in Key
BY DEF Unused

LEMMA HandleKeepsRequests ==
    ASSUME UsersOK, SessionsOK, RequestsOK, known \subseteq known',
           NEW r \in Req, Fits(r), Handle(r)
    PROVE  /\ RequestsOK' /\ UNCHANGED <<ask, cookie, boots>>
           /\ \A q \in Req \ {r} : Untouched(q)
           /\ pc[r] # "idle" /\ pc'[r] # "idle"
<1>1. UNCHANGED <<ask, cookie, boots>>
  BY DEF Handle, RequireAuth, FindAccount, LoadSession,
     OverwriteSession, InsertSession, DestroySession, Rename, RewriteSession, CheckPassword,
     CheckAdmin, CreateAccount, SetPassword, SetRole, SetActive, Same
<1>2. \E p \in Places \ {"idle"} : Goto(r, p) /\ pc[r] # "idle"
  BY DEF Handle, RequireAuth, FindAccount, LoadSession,
     OverwriteSession, InsertSession, DestroySession, Rename, RewriteSession, CheckPassword,
     CheckAdmin, CreateAccount, SetPassword, SetRole, SetActive, Amiss, Places, Acting
<1>3. \/ UNCHANGED key
      \/ \E k \in Key : key' = [key EXCEPT ![r] = k]
  BY FreshKey DEF Handle, RequireAuth, FindAccount, LoadSession,
     OverwriteSession, InsertSession, DestroySession, Rename, RewriteSession, CheckPassword,
     CheckAdmin, CreateAccount, SetPassword, SetRole, SetActive
<1>4. \/ UNCHANGED held
      \/ \E x \in Somebody : held' = [held EXCEPT ![r] = x]
  <2>1. CASE RequireAuth(r)
    BY <2>1 DEF RequireAuth, Rows, Values, SessionsOK, Somebody
  <2>2. CASE FindAccount(r)
    <3>1. ask[r].user \in known => role[ask[r].user] \in AnyRole
      BY DEF UsersOK
    <3> QED
      BY <2>2, <3>1 DEF FindAccount, Matches, Somebody
  <2> QED
    BY <2>1, <2>2 DEF Handle, LoadSession,
     OverwriteSession, InsertSession, DestroySession, Rename, RewriteSession, CheckPassword,
     CheckAdmin, CreateAccount, SetPassword, SetRole, SetActive
<1>5. Somebody \subseteq Somebody'
  BY DEF Somebody
<1>6. PICK p \in Places \ {"idle"} : Goto(r, p) /\ pc[r] # "idle"
  BY <1>2
<1>7. pc' \in [Req -> Places] /\ pc'[r] # "idle" /\ \A q \in Req \ {r} : pc'[q] = pc[q]
  BY <1>6 DEF Goto, RequestsOK
<1>8. key' \in [Req -> Key \cup {None}] /\ \A q \in Req \ {r} : key'[q] = key[q]
  BY <1>3 DEF RequestsOK
<1>9. held' \in [Req -> Somebody \cup {Nobody}] /\ \A q \in Req \ {r} : held'[q] = held[q]
  BY <1>4 DEF RequestsOK
<1>10. RequestsOK'
  BY <1>1, <1>5, <1>7, <1>8, <1>9 DEF RequestsOK
<1> QED
  BY <1>1, <1>6, <1>7, <1>8, <1>9, <1>10 DEF Untouched

LEMMA HandleKeepsSessions ==
    ASSUME UsersOK, SessionsOK, RequestsOK, known \subseteq known',
           NEW r \in Req, Fits(r), Handle(r)
    PROVE  SessionsOK'
<1>1. UNCHANGED cookie
  BY HandleKeepsRequests
<1>2. pc[r] \in {"update", "rewrite", "insert"} => held[r].user \in known /\ held[r].role \in AnyRole
  BY DEF RequestsOK, Fits, Acting, Somebody
<1>3. \/ sessions' \subseteq sessions
      \/ pc[r] \in {"update", "rewrite"} /\ UpdateRows(key[r], held[r])
      \/ pc[r] = "insert" /\ InsertRow(key[r], held[r])
  BY DEF Handle, RequireAuth, FindAccount, LoadSession,
     OverwriteSession, InsertSession, DestroySession, Rename, RewriteSession, CheckPassword,
     CheckAdmin, CreateAccount, SetPassword, SetRole, SetActive
<1>4. CASE sessions' \subseteq sessions
  BY <1>1, <1>4 DEF SessionsOK
<1>5. CASE pc[r] \in {"update", "rewrite"} /\ UpdateRows(key[r], held[r])
  BY <1>1, <1>2, <1>5 DEF SessionsOK, UpdateRows, Rows
<1>6. CASE pc[r] = "insert" /\ InsertRow(key[r], held[r])
  <2>1. key[r] \in Key
    BY <1>6 DEF Fits, RequestsOK
  <2> QED
    BY <1>1, <1>2, <1>6, <2>1 DEF SessionsOK, InsertRow
<1> QED
  BY <1>3, <1>4, <1>5, <1>6

-----------------------------------------------------------------------------
(* Requests that come and go.                                               *)

LEMMA EndKeepsRequests ==
    ASSUME RequestsOK, NEW r \in Req, End(r), UNCHANGED known
    PROVE  /\ RequestsOK' /\ pc'[r] = "idle" /\ held'[r] = Nobody
           /\ \A q \in Req \ {r} : Untouched(q)
<1> DEFINE c == Idle(r)
<1>1. c \in Asks[r]
  BY SomeAsk
<1> HIDE DEF c
<1>2. /\ pc' = [pc EXCEPT ![r] = "idle"] /\ ask' = [ask EXCEPT ![r] = c]
      /\ key' = [key EXCEPT ![r] = None] /\ held' = [held EXCEPT ![r] = Nobody]
  BY DEF End, Goto, c
<1>3. RequestsOK'
  BY <1>1, <1>2 DEF RequestsOK, Places, Somebody
<1> QED
  BY <1>2, <1>3 DEF RequestsOK, Untouched

LEMMA ArrivalKeepsRequests ==
    ASSUME RequestsOK, SessionsOK, NEW r \in Req, NEW a \in Asks[r], Arrive(r, a)
    PROVE  /\ RequestsOK' /\ ask'[r] = a /\ held' = held /\ pc[r] = "idle"
           /\ \A q \in Req \ {r} : Untouched(q)
           /\ \/ pc'[r] = "account" /\ a.kind = "login"
              \/ pc'[r] = "destroy" /\ a.kind = "logout"
              \/ pc'[r] = "auth" /\ a.kind \notin {"login", "logout"}
<1>1. /\ ask' = [ask EXCEPT ![r] = a] /\ key' = [key EXCEPT ![r] = cookie] /\ pc[r] = "idle"
      /\ UNCHANGED <<held, known>>
  BY DEF Arrive, users
<1>2. \E p \in Places :
        /\ pc' = [pc EXCEPT ![r] = p]
        /\ \/ p = "account" /\ a.kind = "login"
           \/ p = "destroy" /\ a.kind = "logout"
           \/ p = "auth" /\ a.kind \notin {"login", "logout"}
  BY DEF Arrive, Goto, Places
<1>3. PICK p \in Places :
        /\ pc' = [pc EXCEPT ![r] = p]
        /\ \/ p = "account" /\ a.kind = "login"
           \/ p = "destroy" /\ a.kind = "logout"
           \/ p = "auth" /\ a.kind \notin {"login", "logout"}
  BY <1>2
<1>4. cookie \in Key \cup {None}
  BY DEF SessionsOK
<1>5. RequestsOK'
  BY <1>1, <1>3, <1>4 DEF RequestsOK, Somebody
<1> QED
  BY <1>1, <1>3, <1>5 DEF RequestsOK, Untouched

-----------------------------------------------------------------------------
(* Where requests are.                                                      *)

LEMMA UntouchedFits ==
    ASSUME NEW q \in Req, Untouched(q), Fits(q), known \subseteq known'
    PROVE  Fits(q)'
BY DEF Untouched, Fits

LEMMA EndFits ==
    ASSUME RequestsOK, NEW r \in Req, End(r), UNCHANGED known
    PROVE  Fits(r)'
BY EndKeepsRequests DEF Fits, Acting

LEMMA ArrivalFits ==
    ASSUME RequestsOK, SessionsOK, NEW r \in Req, NEW a \in Asks[r], Arrive(r, a), Fits(r)
    PROVE  Fits(r)'
<1>1. /\ ask'[r] = a /\ held'[r] = Nobody /\ known' = known
      /\ \/ pc'[r] = "account" /\ a.kind = "login"
         \/ pc'[r] = "destroy" /\ a.kind = "logout"
         \/ pc'[r] = "auth" /\ a.kind \notin {"login", "logout"}
  BY ArrivalKeepsRequests DEF Fits, Arrive, users
<1>2. a.kind \in Kind /\ (a.kind = "update" => a.user \in known)
  BY AskFacts DEF Arrive
<1> QED
  BY <1>1, <1>2 DEF Fits, Kind, Acting

LEMMA HandleFits ==
    ASSUME UsersOK, SessionsOK, RequestsOK, known \subseteq known',
           NEW r \in Req, Fits(r), Handle(r)
    PROVE  Fits(r)'
<1>1. RequestsOK' /\ ask'[r] = ask[r]
  BY HandleKeepsRequests
<1>2. None \notin Key /\ None \notin User
  BY AccountsAssumption
<1>3. CASE RequireAuth(r)
  <2>1. CASE pc'[r] = "refused" /\ held' = held
    BY <1>1, <1>3, <2>1 DEF RequireAuth, Fits, Acting
  <2>2. CASE /\ held'[r] \in Somebody
             /\ pc'[r] = CASE ask[r].kind = "name" -> "rename"
                           [] ask[r].kind = "password" -> "row"
                           [] OTHER -> "admin"
    <3>1. held'[r] # Nobody
      BY <1>2, <2>2 DEF Somebody, Nobody, UsersOK
    <3>2. ask[r].kind \in {"name", "password", "create", "update"} /\ pc[r] = "auth"
      BY <1>3 DEF RequireAuth, Fits
    <3> QED
      BY <1>1, <2>2, <3>1, <3>2 DEF Fits, Acting
  <2>3. \A x \in Rows(key[r]) : Values(x) \in Somebody
    BY DEF Rows, Values, SessionsOK, Somebody
  <2> QED
    BY <1>3, <2>1, <2>2, <2>3 DEF RequireAuth, Goto, RequestsOK
<1>4. CASE FindAccount(r)
  <2>1. pc[r] = "account" /\ held[r] = Nobody
    BY <1>4 DEF FindAccount, Fits
  <2>2. CASE pc'[r] \in {"refused", "amiss"}
    BY <1>1, <1>4, <2>1, <2>2 DEF FindAccount, Fits, Acting
  <2>3. CASE /\ ask[r].user \in known /\ pc'[r] = "load"
             /\ held'[r] = [user |-> ask[r].user, role |-> role[ask[r].user]]
    <3>1. held'[r] # Nobody
      BY <1>2, <2>3 DEF Nobody, UsersOK
    <3> QED
      BY <1>1, <1>4, <2>1, <2>3, <3>1 DEF FindAccount, Fits, Acting
  <2> QED
    BY <1>4, <2>2, <2>3 DEF FindAccount, Matches, Amiss, Goto, RequestsOK
<1>5. CASE LoadSession(r)
  <2>1. /\ pc[r] = "load" /\ pc'[r] \in {"update", "insert"} /\ held' = held
    BY <1>5 DEF LoadSession, Goto, RequestsOK
  <2>2. key'[r] # None
    <3>1. CASE key[r] # None /\ UNCHANGED key
      BY <3>1
    <3>2. CASE key[r] = None /\ Unused # {} /\ key' = [key EXCEPT ![r] = CHOOSE k \in Unused : TRUE]
      <4>1. (CHOOSE k \in Unused : TRUE) \in Key
        BY <3>2, FreshKey
      <4> DEFINE k == CHOOSE k \in Unused : TRUE
      <4>2. k \in Key /\ key' = [key EXCEPT ![r] = k]
        BY <3>2, <4>1
      <4> HIDE DEF k
      <4> QED
        BY <1>2, <4>2 DEF RequestsOK
    <3> QED
      BY <1>5, <3>1, <3>2 DEF LoadSession
  <2> QED
    BY <1>1, <2>1, <2>2 DEF Fits, Acting
<1>6. CASE Rename(r) \/ CheckPassword(r) \/ CheckAdmin(r)
  BY <1>1, <1>6 DEF Rename, CheckPassword, CheckAdmin, Goto, RequestsOK, Fits, Acting
<1>7. CASE SetRole(r)
  BY <1>1, <1>7 DEF SetRole, Goto, RequestsOK, Fits, Acting
<1>8. CASE pc'[r] \in {"served", "refused", "amiss"}
  BY <1>1, <1>8, HandleKeepsRequests DEF Fits, Acting
<1> QED
  BY <1>3, <1>4, <1>5, <1>6, <1>7, <1>8 DEF Handle, Goto, Amiss, RequestsOK, OverwriteSession,
     InsertSession, DestroySession, RewriteSession, CreateAccount, SetPassword, SetActive

-----------------------------------------------------------------------------
(* Roles.                                                                   *)

LEMMA GivenIsKept ==
    ASSUME UsersOK, UsersOK', SessionsOK, RequestsOK, known \subseteq known', History, Given,
           given \in [User -> SUBSET AnyRole],
           \A x \in sessions' : \/ x \in sessions
                                \/ \E r \in Req : /\ held[r] # Nobody /\ x.user = held[r].user
                                                  /\ x.role = held[r].role,
           \A r \in Req :
                held'[r] # Nobody =>
                    \/ held'[r] = held[r]
                    \/ \E x \in sessions : held'[r] = Values(x)
                    \/ \E u \in known : held'[r] = [user |-> u, role |-> role[u]]
    PROVE  Given'
<1>1. /\ \A u \in User : given[u] \subseteq given'[u]
      /\ \A u \in User : role'[u] # None => role'[u] \in given'[u]
  BY GivenGrows DEF UsersOK
<1>2. \A u \in known' : role'[u] \in given'[u]
  BY <1>1 DEF UsersOK
<1>3. \A x \in sessions : x.user \in User /\ x.role \in given'[x.user]
  BY <1>1 DEF SessionsOK, UsersOK, Given
<1>4. \A r \in Req : held[r] # Nobody => held[r].user \in User /\ held[r].role \in given'[held[r].user]
  BY <1>1 DEF RequestsOK, Somebody, UsersOK, Given
<1>5. \A u \in known : role[u] \in given'[u]
  BY <1>1 DEF UsersOK, Given
<1>6. \A x \in sessions' : x.role \in given'[x.user]
  BY <1>3, <1>4
<1>7. ASSUME NEW r \in Req, held'[r] # Nobody PROVE held'[r].role \in given'[held'[r].user]
  <2>1. CASE held'[r] = held[r]
    BY <1>4, <1>7, <2>1
  <2>2. CASE \E x \in sessions : held'[r] = Values(x)
    BY <1>3, <2>2 DEF Values
  <2>3. CASE \E u \in known : held'[r] = [user |-> u, role |-> role[u]]
    BY <1>5, <2>3
  <2> QED
    BY <1>7, <2>1, <2>2, <2>3
<1> QED
  BY <1>2, <1>6, <1>7 DEF Given

(* Where the sessions and what requests hold come from in a step.           *)
LEMMA HandleSources ==
    ASSUME UsersOK, SessionsOK, RequestsOK, known \subseteq known',
           NEW r \in Req, Fits(r), Handle(r)
    PROVE  /\ \A x \in sessions' : \/ x \in sessions
                                   \/ /\ held[r] # Nobody /\ x.user = held[r].user
                                      /\ x.role = held[r].role
           /\ \A q \in Req :
                held'[q] # Nobody =>
                    \/ held'[q] = held[q]
                    \/ \E x \in sessions : held'[q] = Values(x)
                    \/ \E u \in known : held'[q] = [user |-> u, role |-> role[u]]
<1>1. pc[r] \in {"update", "rewrite", "insert"} => held[r] # Nobody
  BY DEF Fits, Acting
<1>2. \/ sessions' \subseteq sessions
      \/ pc[r] \in {"update", "rewrite"} /\ UpdateRows(key[r], held[r])
      \/ pc[r] = "insert" /\ InsertRow(key[r], held[r])
  BY DEF Handle, RequireAuth, FindAccount, LoadSession,
     OverwriteSession, InsertSession, DestroySession, Rename, RewriteSession, CheckPassword,
     CheckAdmin, CreateAccount, SetPassword, SetRole, SetActive
<1>3. ASSUME NEW x \in sessions'
      PROVE  x \in sessions \/ (held[r] # Nobody /\ x.user = held[r].user /\ x.role = held[r].role)
  BY <1>1, <1>2, <1>3 DEF UpdateRows, InsertRow
<1>4. \/ held' = held
      \/ \E x \in sessions : held' = [held EXCEPT ![r] = Values(x)]
      \/ \E u \in known : held' = [held EXCEPT ![r] = [user |-> u, role |-> role[u]]]
  BY DEF Handle, RequireAuth, FindAccount, LoadSession,
     OverwriteSession, InsertSession, DestroySession, Rename, RewriteSession, CheckPassword,
     CheckAdmin, CreateAccount, SetPassword, SetRole, SetActive, Matches, Rows
<1> QED
  BY <1>3, <1>4 DEF RequestsOK

-----------------------------------------------------------------------------
(* Answers.                                                                 *)

(* Whoever waits for the check of a password has History to thank.          *)
LEMMA UntouchedStaysHonest ==
    ASSUME History, NEW q \in Req, Untouched(q), Honest(q)
    PROVE  Honest(q)'
<1>1. /\ couldnot[q] /\ pc'[q] \in {"account", "row", "refused"} => couldnot'[q]
      /\ could[q] /\ pc'[q] \notin {"idle", "refused"} => could'[q]
      /\ pc'[q] \in {"account", "row"} =>
            /\ Matches(Subject(q), ask[q].old)' => could'[q]
            /\ ~Matches(Subject(q), ask[q].old)' => couldnot'[q]
  BY HistoryFacts
<1>2. pc'[q] = pc[q] /\ ask'[q] = ask[q] /\ held'[q] = held[q]
  BY DEF Untouched
<1>3. pc'[q] \in {"load", "update", "insert", "set"} => could'[q]
  BY <1>1, <1>2 DEF Honest
<1>4. pc'[q] = "served" /\ ask'[q].kind \in {"login", "password"} => could'[q]
  BY <1>1, <1>2 DEF Honest
<1>5. /\ pc'[q] = "refused"
      /\ \/ ask'[q].kind = "login"
         \/ ask'[q].kind = "password" /\ ask'[q].fit /\ held'[q] # Nobody
      => couldnot'[q]
  BY <1>1, <1>2 DEF Honest
<1> QED
  BY <1>1, <1>3, <1>4, <1>5, Zenon DEF Honest

(* A request that does not come to an answer about a password.              *)
LEMMA SilentIsHonest ==
    ASSUME History, NEW r \in Req,
           pc'[r] \notin {"load", "update", "insert", "set", "refused"},
           pc'[r] = "served" => ask'[r].kind \notin {"login", "password"}
    PROVE  Honest(r)'
<1>1. pc'[r] \in {"account", "row"} =>
            /\ Matches(Subject(r), ask[r].old)' => could'[r]
            /\ ~Matches(Subject(r), ask[r].old)' => couldnot'[r]
  BY HistoryFacts
<1> QED
  BY <1>1, Zenon DEF Honest

LEMMA HandleIsHonest ==
    ASSUME UsersOK, SessionsOK, RequestsOK, known \subseteq known', History,
           NEW r \in Req, Fits(r), Honest(r), Handle(r)
    PROVE  Honest(r)'
<1>1. RequestsOK' /\ ask'[r] = ask[r] /\ pc[r] # "idle" /\ pc'[r] # "idle"
  BY HandleKeepsRequests
<1>2. /\ could[r] /\ pc'[r] # "refused" => could'[r]
      /\ couldnot[r] /\ pc'[r] = "refused" => couldnot'[r]
  BY <1>1, HistoryFacts
<1>3. CASE RequireAuth(r)
  <2>1. pc'[r] \in {"rename", "row", "admin"} \/ (pc'[r] = "refused" /\ held'[r] = Nobody)
    BY <1>3 DEF RequireAuth, Fits, Goto, RequestsOK
  <2>2. CASE pc'[r] \in {"rename", "row", "admin"}
    BY <2>2, SilentIsHonest
  <2>3. CASE pc'[r] = "refused" /\ held'[r] = Nobody
    <3>1. ask'[r].kind # "login"
      BY <1>1, <1>3 DEF RequireAuth, Fits
    <3> QED
      BY <2>3, <3>1 DEF Honest
  <2> QED
    BY <2>1, <2>2, <2>3
<1>4. CASE FindAccount(r)
  <2>1. pc[r] = "account" /\ ask[r].kind = "login" /\ Subject(r) = ask[r].user
    BY <1>4 DEF FindAccount, Fits, Subject
  <2>2. CASE Matches(ask[r].user, ask[r].old) /\ pc'[r] = "load"
    <3>1. could[r]
      BY <2>1, <2>2 DEF Honest
    <3> QED
      BY <1>1, <1>2, <2>2, <3>1 DEF Honest
  <2>3. CASE ~Matches(ask[r].user, ask[r].old) /\ pc'[r] = "refused"
    <3>1. couldnot[r]
      BY <2>1, <2>3 DEF Honest
    <3> QED
      BY <1>1, <1>2, <2>3, <3>1 DEF Honest
  <2>4. CASE pc'[r] = "amiss"
    BY <2>4, SilentIsHonest
  <2> QED
    BY <1>4, <2>2, <2>3, <2>4 DEF FindAccount, Amiss, Goto, RequestsOK
<1>5. CASE LoadSession(r) \/ OverwriteSession(r) \/ InsertSession(r) \/ SetPassword(r)
  <2>1. pc[r] \in {"load", "update", "insert", "set"} /\ pc'[r] \in {"update", "insert", "served"}
    BY <1>5 DEF LoadSession, OverwriteSession, InsertSession, SetPassword, Goto, RequestsOK
  <2>2. could'[r]
    BY <1>2, <2>1 DEF Honest
  <2> QED
    BY <2>1, <2>2 DEF Honest
<1>6. CASE CheckPassword(r)
  <2>1. pc[r] = "row" /\ ask[r].kind = "password" /\ Subject(r) = held[r].user
    BY <1>6 DEF CheckPassword, Fits, Subject
  <2>2. CASE Matches(held[r].user, ask[r].old) /\ pc'[r] = "set"
    <3>1. could[r]
      BY <2>1, <2>2 DEF Honest
    <3> QED
      BY <1>1, <1>2, <2>2, <3>1 DEF Honest
  <2>4. CASE ~ask[r].fit /\ pc'[r] = "refused"
    BY <1>1, <2>1, <2>4 DEF Honest
  <2>3. CASE ~Matches(held[r].user, ask[r].old) /\ pc'[r] = "refused"
    <3>1. couldnot[r]
      BY <2>1, <2>3 DEF Honest
    <3> QED
      BY <1>1, <1>2, <2>3, <3>1 DEF Honest
  <2> QED
    BY <1>6, <2>2, <2>3, <2>4 DEF CheckPassword, Goto, RequestsOK
<1>7. CASE DestroySession(r) \/ Rename(r) \/ RewriteSession(r) \/ CheckAdmin(r)
           \/ CreateAccount(r) \/ SetRole(r) \/ SetActive(r)
  <2>1. /\ pc[r] \in {"destroy", "rename", "rewrite", "admin", "create", "role", "active"}
        /\ pc'[r] \in {"rewrite", "create", "role", "active", "served", "refused", "amiss"}
    BY <1>7 DEF DestroySession, Rename, RewriteSession, CheckAdmin, CreateAccount, SetRole, SetActive,
       Amiss, Goto, RequestsOK
  <2>2. ask'[r].kind \notin {"login", "password"}
    BY <1>1, <2>1 DEF Fits
  <2> QED
    BY <2>1, <2>2 DEF Honest
<1> QED
  BY <1>3, <1>4, <1>5, <1>6, <1>7 DEF Handle

-----------------------------------------------------------------------------
(* The inductive invariant.                                                 *)
Inductive ==
    /\ UsersOK /\ BootsOK /\ SessionsOK /\ RequestsOK /\ HistoryOK /\ Given
    /\ \A r \in Req : Fits(r) /\ Honest(r)

LEMMA InductiveInit == Init => Inductive
<1> SUFFICES ASSUME Init PROVE Inductive
  OBVIOUS
<1>1. UsersOK
  BY AccountsAssumption DEF Init, UsersOK
<1>2. BootsOK /\ SessionsOK
  BY AccountsAssumption DEF Init, BootsOK, SessionsOK
<1>3. RequestsOK
  BY SomeAsk DEF Init, RequestsOK, Places
<1>4. HistoryOK
  BY DEF Init, HistoryOK
<1>5. Given
  BY DEF Init, Given
<1>6. \A r \in Req : Fits(r) /\ Honest(r)
  BY DEF Init, Fits, Honest, Acting
<1> QED
  BY <1>1, <1>2, <1>3, <1>4, <1>5, <1>6 DEF Inductive

(* What is left to be shown of a step, whoever makes it.                    *)
LEMMA Kept ==
    ASSUME Inductive, History, UsersOK', BootsOK', SessionsOK', RequestsOK', known \subseteq known',
           \A x \in sessions' : \/ x \in sessions
                                \/ \E r \in Req : /\ held[r] # Nobody /\ x.user = held[r].user
                                                  /\ x.role = held[r].role,
           \A r \in Req :
                held'[r] # Nobody =>
                    \/ held'[r] = held[r]
                    \/ \E x \in sessions : held'[r] = Values(x)
                    \/ \E u \in known : held'[r] = [user |-> u, role |-> role[u]],
           \A r \in Req : Untouched(r) \/ (Fits(r)' /\ Honest(r)')
    PROVE  Inductive'
<1>1. HistoryOK'
  BY HistoryFacts, GivenGrows DEF Inductive, HistoryOK, UsersOK
<1>2. Given'
  BY GivenIsKept DEF Inductive, HistoryOK
<1>3. ASSUME NEW r \in Req PROVE Fits(r)' /\ Honest(r)'
  BY UntouchedFits, UntouchedStaysHonest DEF Inductive
<1> QED
  BY <1>1, <1>2, <1>3 DEF Inductive

LEMMA BootingKeepsInductive ==
    ASSUME Inductive, History, NEW s \in Server, Booting(s) \/ Crash(s)
    PROVE  Inductive'
<1>1. UsersOK' /\ BootsOK' /\ known \subseteq known' /\ UNCHANGED <<sessions, cookie, request>>
  BY BootingKeeps DEF Inductive
<1>2. UNCHANGED <<pc, ask, key, held>>
  BY <1>1 DEF request
<1>3. SessionsOK' /\ RequestsOK'
  BY <1>1, <1>2 DEF Inductive, SessionsOK, RequestsOK, Somebody
<1>4. \A r \in Req : Untouched(r)
  BY <1>2 DEF Untouched
<1> QED
  BY <1>1, <1>2, <1>3, <1>4, Kept

LEMMA ExpiryKeepsInductive ==
    ASSUME Inductive, History, Expire
    PROVE  Inductive'
<1>1. UNCHANGED <<known, role, active, password, boot, faults, cookie, pc, ask, key, held>>
      /\ sessions' \subseteq sessions
  BY DEF Expire, users, boots, request
<1>2. UsersOK' /\ BootsOK' /\ SessionsOK' /\ RequestsOK'
  BY <1>1 DEF Inductive, UsersOK, BootsOK, SessionsOK, RequestsOK, Somebody
<1>3. \A r \in Req : Untouched(r)
  BY <1>1 DEF Untouched
<1> QED
  BY <1>1, <1>2, <1>3, Kept

LEMMA EndKeepsInductive ==
    ASSUME Inductive, History, NEW r \in Req, Answer(r) \/ Error(r)
    PROVE  Inductive'
<1>1. End(r) /\ UNCHANGED <<known, role, active, password, boot, faults, sessions>>
  BY DEF Answer, Error, users, boots
<1>2. RequestsOK' /\ pc'[r] = "idle" /\ held'[r] = Nobody /\ \A q \in Req \ {r} : Untouched(q)
  BY <1>1, EndKeepsRequests DEF Inductive
<1>3. cookie' \in Key \cup {None}
  BY DEF Answer, Error, Inductive, SessionsOK, RequestsOK
<1>4. UsersOK' /\ BootsOK' /\ SessionsOK'
  BY <1>1, <1>3 DEF Inductive, UsersOK, BootsOK, SessionsOK
<1>5. Fits(r)'
  BY <1>1, EndFits DEF Inductive
<1>6. Honest(r)'
  BY <1>2, SilentIsHonest
<1>7. \A q \in Req : held'[q] # Nobody => held'[q] = held[q]
  BY <1>2 DEF Untouched
<1> QED
  BY <1>1, <1>2, <1>4, <1>5, <1>6, <1>7, Kept

LEMMA ArrivalKeepsInductive ==
    ASSUME Inductive, History, NEW r \in Req, NEW a \in Asks[r], Arrive(r, a)
    PROVE  Inductive'
<1>1. UNCHANGED <<known, role, active, password, boot, faults, sessions, cookie>>
  BY DEF Arrive, users, boots
<1>2. /\ RequestsOK' /\ held' = held /\ \A q \in Req \ {r} : Untouched(q)
      /\ pc'[r] \in {"account", "destroy", "auth"}
  BY ArrivalKeepsRequests DEF Inductive
<1>3. UsersOK' /\ BootsOK' /\ SessionsOK'
  BY <1>1 DEF Inductive, UsersOK, BootsOK, SessionsOK
<1>4. Fits(r)'
  BY ArrivalFits DEF Inductive
<1>5. Honest(r)'
  BY <1>2, SilentIsHonest
<1> QED
  BY <1>1, <1>2, <1>3, <1>4, <1>5, Kept

LEMMA HandleKeepsInductive ==
    ASSUME Inductive, History, NEW r \in Req, Handle(r)
    PROVE  Inductive'
<1>1. UsersOK' /\ known \subseteq known'
  BY HandleKeepsUsers DEF Inductive
<1>2. RequestsOK' /\ UNCHANGED <<cookie, boots>> /\ \A q \in Req \ {r} : Untouched(q)
  BY <1>1, HandleKeepsRequests DEF Inductive
<1>3. BootsOK'
  BY <1>2 DEF boots, Inductive, BootsOK
<1>4. SessionsOK'
  BY <1>1, HandleKeepsSessions DEF Inductive
<1>5. Fits(r)'
  BY <1>1, HandleFits DEF Inductive
<1>6. Honest(r)'
  BY <1>1, HandleIsHonest DEF Inductive
<1>7. /\ \A x \in sessions' : \/ x \in sessions
                              \/ /\ held[r] # Nobody /\ x.user = held[r].user
                                 /\ x.role = held[r].role
      /\ \A q \in Req :
            held'[q] # Nobody =>
                \/ held'[q] = held[q]
                \/ \E x \in sessions : held'[q] = Values(x)
                \/ \E u \in known : held'[q] = [user |-> u, role |-> role[u]]
  BY <1>1, HandleSources DEF Inductive
<1> QED
  BY <1>1, <1>2, <1>3, <1>4, <1>5, <1>6, <1>7, Kept

LEMMA InductiveNext == Inductive /\ [Next]_vars => Inductive'
<1>1. ASSUME Inductive, UNCHANGED vars PROVE Inductive'
  <2>1. /\ UNCHANGED <<known, role, active, password, boot, faults, sessions, cookie>>
        /\ UNCHANGED <<pc, ask, key, held, could, couldnot, given>>
    BY <1>1 DEF vars, users, boots, request
  <2>2. UsersOK' /\ BootsOK' /\ SessionsOK' /\ RequestsOK' /\ HistoryOK' /\ Given'
    BY <1>1, <2>1 DEF Inductive, UsersOK, BootsOK, SessionsOK, RequestsOK, Somebody, HistoryOK, Given
  <2>3. ASSUME NEW r \in Req PROVE Fits(r)' /\ Honest(r)'
    <3>1. Fits(r) /\ Honest(r)
      BY <1>1 DEF Inductive
    <3>2. Matches(Subject(r), ask[r].old)' <=> Matches(Subject(r), ask[r].old)
      BY <2>1, Zenon DEF Matches, Subject
    <3>3. Fits(r)'
      BY <2>1, <3>1 DEF Fits
    <3>4. Honest(r)'
      BY <2>1, <3>1, <3>2 DEF Honest
    <3> QED
      BY <3>3, <3>4
  <2> QED
    BY <2>2, <2>3 DEF Inductive
<1>2. ASSUME Inductive, Next PROVE Inductive'
  BY <1>2, BootingKeepsInductive, ExpiryKeepsInductive, EndKeepsInductive, ArrivalKeepsInductive,
     HandleKeepsInductive DEF Next
<1> QED
  BY <1>1, <1>2

(* Everything the proofs rest on holds all the time.                        *)
THEOREM InductiveHolds == Spec => []Inductive
BY InductiveInit, InductiveNext, PTL DEF Spec

(* The tables and the locals of the handlers hold what they are meant to; a *)
(* session is that of an account that exists.                               *)
THEOREM TypeCorrect == Spec => []TypeOK
<1>1. Inductive => TypeOK
  BY DEF Inductive, UsersOK, BootsOK, SessionsOK, RequestsOK, HistoryOK, Fits, TypeOK, Places, Somebody
<1> QED
  BY <1>1, InductiveHolds, PTL

(* LoginPage and UpdatePassword answer with what was true of the account at *)
(* some time while they ran.                                                *)
THEOREM AnswersHoldTrue == Spec => []AnswersAreTrue
<1>1. Inductive => AnswersAreTrue
  BY DEF Inductive, Honest, AnswersAreTrue
<1> QED
  BY <1>1, InductiveHolds, PTL

(* No interleaving of log-ins, changes of name and changes of role gives a  *)
(* session a role its account never had.                                    *)
THEOREM RolesWereGiven == Spec => []RoleWasGiven
<1>1. Inductive => RoleWasGiven
  BY DEF Inductive, Given, RoleWasGiven
<1> QED
  BY <1>1, InductiveHolds, PTL

(* Only the INSERT of a log-in makes a row of the session table; the saving *)
(* of a changed name does not, even if it comes after the log-out.          *)
THEOREM LogoutIsFinal == Spec => LogoutSticks
<1> DEFINE Sticks ==
        \A k \in Key : Rows(k) = {} /\ Rows(k)' # {} => \E r \in Req : key[r] = k /\ ask[r].kind = "login"
<1>1. ASSUME Inductive, Next PROVE Sticks
  <2>1. CASE sessions' \subseteq sessions
    BY <2>1 DEF Rows
  <2>2. CASE \E r \in Req : Handle(r)
    <3>1. PICK r \in Req : Handle(r)
      BY <2>2
    <3>2. \/ sessions' \subseteq sessions
          \/ UpdateRows(key[r], held[r])
          \/ pc[r] = "insert" /\ InsertRow(key[r], held[r])
      BY <3>1 DEF Handle, RequireAuth, FindAccount, LoadSession,
         OverwriteSession, InsertSession, DestroySession, Rename, RewriteSession, CheckPassword,
         CheckAdmin, CreateAccount, SetPassword, SetRole, SetActive
    <3>3. pc[r] = "insert" => ask[r].kind = "login"
      BY <1>1 DEF Inductive, Fits
    <3>4. ASSUME UpdateRows(key[r], held[r]), NEW k \in Key, Rows(k) = {} PROVE Rows(k)' = {}
      BY <3>4 DEF UpdateRows, Rows
    <3>5. ASSUME InsertRow(key[r], held[r]), NEW k \in Key, Rows(k) = {}, Rows(k)' # {}
          PROVE  key[r] = k
      BY <3>5 DEF InsertRow, Rows
    <3> QED
      BY <2>1, <3>2, <3>3, <3>4, <3>5
  <2> QED
    BY <1>1, <2>1, <2>2 DEF Next, Booting, Count, Seed, Crash, Browsing, Answer, Error, Arrive, Expire
<1>2. UNCHANGED vars => Sticks
  BY DEF vars, Rows
<1>3. Inductive /\ [Next]_vars => [Sticks]_vars
  BY <1>1, <1>2
<1> QED
  BY <1>3, InductiveHolds, PTL DEF Spec, LogoutSticks
=============================================================================
