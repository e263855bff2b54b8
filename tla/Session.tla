------------------------------- MODULE Session -------------------------------
(***************************************************************************)
(* Login sessions of the service: the login cache in Redis                 *)
(* (src/service/user/loginCache.go), the login and logout handlers, the    *)
(* login of the OAuth client, and the middleware that authenticates every  *)
(* other request and renews the session (common/authMiddleware.go).        *)
(*                                                                         *)
(* A session is four Redis keys written and deleted one command at a time; *)
(* requests run in goroutines of their own.  A handler is modelled at the  *)
(* grain of Redis commands: the commands it still has to send are its      *)
(* todo list.                                                              *)
(***************************************************************************)
EXTENDS Naturals, Sequences

CONSTANTS
  Db, User,   \* application databases and user IDs
  Account,    \* the pairs <<db, user>> that can log in
  Roles,      \* role lists, as getUserRoles returns them
  RolesOf,    \* the roles of each account
  Handler,    \* goroutines serving requests
  Purpose,    \* what requests are for, see Request
  MaxSecond,  \* bound on the clock
  SameSecond, \* may two users log in within the same second?
  Faults,     \* "redis": commands may fail; "expire": keys may expire
  None        \* the reply of Redis for a key that does not exist

ASSUME AccountAssumption ==
  Account \subseteq Db \X User /\ RolesOf \in [Account -> Roles]
ASSUME NoneAssumption ==
  None \notin Db /\ None \notin User /\ None \notin Roles /\ None \notin Nat
ASSUME FaultsAssumption ==
  /\ Faults \subseteq {"redis", "expire"}
  /\ Purpose \subseteq {"call", "badbody", "logout"}
  /\ MaxSecond \in Nat
  /\ SameSecond \in BOOLEAN

\* GetLoginToken hashes the current second, so tokens are seconds.
Token == 0 .. MaxSecond

\* Mutation of UserKey: the application is not part of the key.
UserKeyWithoutDb(a) == <<"userID", a[2]>>

UserKey(a) == <<"userID", a>>
DbKey(t) == <<"tokenDB", t>>
RolesKey(t) == <<"userRoles", t>>
TokenKey(t) == <<"token", t>>
Key == {UserKey(a) : a \in Db \X User}
         \cup {DbKey(t) : t \in Token}
         \cup {RolesKey(t) : t \in Token} \cup {TokenKey(t) : t \in Token}
Value == {None} \cup Token \cup Db \cup User \cup Roles

\* A Redis command that writes: SET, or DEL as the assignment of None.
Set(k, v) == [key |-> k, value |-> v]
Del(k) == [key |-> k, value |-> None]
Command == [key : Key, value : Value]

\* What a handler knows of the user it works for.
Identity == [db : {None} \cup Db, user : {None} \cup User, roles : {None} \cup Roles]
IdentityOf(a) == [db |-> a[1], user |-> a[2], roles |-> RolesOf[a]]
Nobody == [db |-> None, user |-> None, roles |-> None]
AccountOf(w) == <<w.db, w.user>>

VARIABLES
  redis,      \* contents of the token database
  old,        \* keys whose time to live may run out
  now,        \* the clock, in seconds
  pc,         \* handler: where it is
  op,         \* handler: login, call, badbody or logout
  tok,        \* handler: the token it works with
  who,        \* handler: userID, appDB and userRoles
  todo,       \* handler: the commands it still has to send
  granted,    \* tokens that a login has returned to a client
  logins,     \* history: the account of every login, by token
  again,      \* history: tokens generated more than once
  loggedOut,  \* history: tokens a logout has been answered for
  lapsed      \* history: has any key expired?

session_vars == <<pc, op, tok, who, todo>>
history == <<granted, logins, again, loggedOut, lapsed>>
vars == <<redis, old, now, pc, op, tok, who, todo, granted, logins, again,
          loggedOut, lapsed>>

PC == {"idle", "getUserID", "getAppDB", "getUserRoles", "getTTL", "refresh",
       "served", "find", "remove", "set"}

TypeOK ==
  /\ redis \in [Key -> Value]
  /\ old \subseteq Key
  /\ now \in Token
  /\ pc \in [Handler -> PC]
  /\ op \in [Handler -> {"none", "login", "call", "badbody", "logout"}]
  /\ tok \in [Handler -> Token]
  /\ who \in [Handler -> Identity]
  /\ todo \in [Handler -> Seq(Command)]
  /\ granted \subseteq Token
  /\ logins \in [Token -> SUBSET Account]
  /\ again \subseteq Token
  /\ loggedOut \subseteq Token
  /\ lapsed \in BOOLEAN

-----------------------------------------------------------------------------
(* DefatultLoginCache.                                                     *)

SetCache(w, t) ==
  <<Set(UserKey(AccountOf(w)), t), Set(DbKey(t), w.db),
    Set(RolesKey(t), w.roles), Set(TokenKey(t), w.user)>>

RemoveCache(w, t) ==
  <<Del(UserKey(AccountOf(w))), Del(RolesKey(t)), Del(TokenKey(t)), Del(DbKey(t))>>

\* The answers of a GET: what is stored, or nothing when the command fails.
Answers(k) == {redis[k]} \cup (IF "redis" \in Faults THEN {None} ELSE {})

Goto(h, where) == pc' = [pc EXCEPT ![h] = where]
Learn(h, field, v) == who' = [who EXCEPT ![h][field] = v]

\* The request is answered and its goroutine ends.
Finish(h) ==
  /\ Goto(h, "idle")
  /\ op' = [op EXCEPT ![h] = "none"]
  /\ tok' = [tok EXCEPT ![h] = 0]
  /\ who' = [who EXCEPT ![h] = Nobody]

\* One command of the list is sent.  When a SET fails SetCache returns;
\* the outcome of a DEL is not looked at.
Execute(h) ==
  /\ todo[h] # << >>
  /\ LET c == Head(todo[h])
     IN  \/ /\ redis' = [redis EXCEPT ![c.key] = c.value]
            /\ old' = old \ {c.key}
            /\ todo' = [todo EXCEPT ![h] = Tail(@)]
            /\ UNCHANGED <<pc, op, tok, who>>
         \/ /\ "redis" \in Faults
            /\ todo' = [todo EXCEPT ![h] = IF c.value = None THEN Tail(@) ELSE << >>]
            /\ IF pc[h] = "set" THEN Finish(h) ELSE UNCHANGED <<pc, op, tok, who>>
            /\ UNCHANGED <<redis, old>>
  /\ UNCHANGED <<now, history>>

-----------------------------------------------------------------------------
(* UserController.login and localLogin of the OAuth client, from the point *)
(* where the password, or the OAuth server, has confirmed the user.        *)

Login(h, a) ==
  /\ pc[h] \in {"idle", "served"}
  /\ SameSecond \/ logins[now] = {}
  /\ Goto(h, "find")
  /\ op' = [op EXCEPT ![h] = "login"]
  /\ tok' = [tok EXCEPT ![h] = now]
  /\ who' = [who EXCEPT ![h] = IdentityOf(a)]
  /\ logins' = [logins EXCEPT ![now] = @ \cup {a}]
  /\ again' = IF logins[now] = {} THEN again ELSE again \cup {now}
  /\ UNCHANGED <<redis, old, now, todo, granted, loggedOut, lapsed>>

\* Mutation of FindToken: the keys of the registered token are left behind.
FindTokenKeeps(h) ==
  /\ pc[h] = "find"
  /\ Goto(h, "remove")
  /\ UNCHANGED <<redis, old, now, op, tok, who, todo, history>>

\* RemoveUser: the registered token of the account, and its removal.
FindToken(h) ==
  /\ pc[h] = "find"
  /\ Goto(h, "remove")
  /\ \E t \in Answers(UserKey(AccountOf(who[h]))) :
       todo' = [todo EXCEPT ![h] = IF t = None THEN << >> ELSE RemoveCache(who[h], t)]
  /\ UNCHANGED <<redis, old, now, op, tok, who, history>>

\* Mutation of StartSet: the token is computed anew, from a later second.
StartSetLater(h) ==
  /\ pc[h] = "remove" /\ op[h] = "login" /\ todo[h] = << >>
  /\ Goto(h, "set")
  /\ todo' = [todo EXCEPT ![h] = SetCache(who[h], now)]
  /\ UNCHANGED <<redis, old, now, op, tok, who, history>>

\* cacheLoginToken goes on with SetCache.
StartSet(h) ==
  /\ pc[h] = "remove"
  /\ op[h] = "login"
  /\ todo[h] = << >>
  /\ Goto(h, "set")
  /\ todo' = [todo EXCEPT ![h] = SetCache(who[h], tok[h])]
  /\ UNCHANGED <<redis, old, now, op, tok, who, history>>

LoginDone(h) ==
  /\ pc[h] = "set"
  /\ todo[h] = << >>
  /\ Finish(h)
  /\ granted' = granted \cup {tok[h]}
  /\ UNCHANGED <<redis, old, now, todo, logins, again, loggedOut, lapsed>>

-----------------------------------------------------------------------------
(* AuthMiddleware, and the handlers behind it.                             *)

\* o tells what the request is for: any operation, one whose checksum does
\* not match its body, or the logout.
Request(h, t, o) ==
  /\ pc[h] \in {"idle", "served"}
  /\ Goto(h, "getUserID")
  /\ op' = [op EXCEPT ![h] = o]
  /\ tok' = [tok EXCEPT ![h] = t]
  /\ who' = [who EXCEPT ![h] = Nobody]
  /\ UNCHANGED <<redis, old, now, todo, history>>

\* Mutation of Read: a missing answer is not noticed.
ReadUnchecked(h, here, key, field, there) ==
  /\ pc[h] = here
  /\ \E v \in Answers(key) : Learn(h, field, v)
  /\ Goto(h, there)
  /\ UNCHANGED <<redis, old, now, op, tok, todo, history>>

\* One of the three reads; without an answer the token has expired.
Read(h, here, key, field, there) ==
  /\ pc[h] = here
  /\ \E v \in Answers(key) :
       \/ v = None /\ Finish(h)
       \/ v # None /\ Learn(h, field, v) /\ Goto(h, there) /\ UNCHANGED <<op, tok>>
  /\ UNCHANGED <<redis, old, now, todo, history>>

GetUserID(h) == Read(h, "getUserID", TokenKey(tok[h]), "user", "getAppDB")
GetAppDB(h) == Read(h, "getAppDB", DbKey(tok[h]), "db", "getUserRoles")
GetUserRoles(h) == Read(h, "getUserRoles", RolesKey(tok[h]), "roles", "getTTL")

\* Mutation of GetTokenTTL: only the keys of the token are renewed.
GetTokenTTLWithoutUser(h) ==
  /\ pc[h] = "getTTL"
  /\ Goto(h, "refresh")
  /\ \E v \in Answers(TokenKey(tok[h])) :
       todo' = [todo EXCEPT ![h] = IF v = None THEN << >> ELSE Tail(SetCache(who[h], tok[h]))]
  /\ UNCHANGED <<redis, old, now, op, tok, who, history>>

\* The session is renewed if its token still has a time to live.
GetTokenTTL(h) ==
  /\ pc[h] = "getTTL"
  /\ Goto(h, "refresh")
  /\ \E v \in Answers(TokenKey(tok[h])) :
       todo' = [todo EXCEPT ![h] = IF v = None THEN << >> ELSE SetCache(who[h], tok[h])]
  /\ UNCHANGED <<redis, old, now, op, tok, who, history>>

\* c.Abort, or c.Next and the controller behind it; the controller of the
\* logout calls RemoveUser.
Authenticated(h) ==
  /\ pc[h] = "refresh"
  /\ todo[h] = << >>
  /\ \/ op[h] = "badbody" /\ Finish(h)
     \/ op[h] = "call" /\ Goto(h, "served") /\ UNCHANGED <<op, tok, who>>
     \/ op[h] = "logout" /\ Goto(h, "find") /\ UNCHANGED <<op, tok, who>>
  /\ UNCHANGED <<redis, old, now, todo, history>>

LogoutDone(h) ==
  /\ pc[h] = "remove"
  /\ op[h] = "logout"
  /\ todo[h] = << >>
  /\ Finish(h)
  /\ loggedOut' = loggedOut \cup {tok[h]}
  /\ UNCHANGED <<redis, old, now, todo, granted, logins, again, lapsed>>

-----------------------------------------------------------------------------
(* Time.                                                                   *)

Tick ==
  /\ now < MaxSecond
  /\ now' = now + 1
  /\ UNCHANGED <<redis, old, session_vars, history>>

\* tokenExpired goes by; it is far longer than a request takes.
Age ==
  /\ "expire" \in Faults
  /\ \A h \in Handler : pc[h] \in {"idle", "served"}
  /\ old' = {k \in Key : redis[k] # None}
  /\ UNCHANGED <<redis, now, session_vars, history>>

Expire(k) ==
  /\ k \in old
  /\ redis' = [redis EXCEPT ![k] = None]
  /\ old' = old \ {k}
  /\ lapsed' = TRUE
  /\ UNCHANGED <<now, session_vars, granted, logins, again, loggedOut>>

Init ==
  /\ redis = [k \in Key |-> None]
  /\ old = {}
  /\ now = 0
  /\ pc = [h \in Handler |-> "idle"]
  /\ op = [h \in Handler |-> "none"]
  /\ tok = [h \in Handler |-> 0]
  /\ who = [h \in Handler |-> Nobody]
  /\ todo = [h \in Handler |-> << >>]
  /\ granted = {}
  /\ logins = [t \in Token |-> {}]
  /\ again = {}
  /\ loggedOut = {}
  /\ lapsed = FALSE

Work(h) ==
  \/ Execute(h) \/ FindToken(h) \/ StartSet(h) \/ LoginDone(h)
  \/ GetUserID(h) \/ GetAppDB(h) \/ GetUserRoles(h) \/ GetTokenTTL(h)
  \/ Authenticated(h) \/ LogoutDone(h)

Next ==
  \/ \E h \in Handler :
       \/ \E a \in Account : Login(h, a)
       \/ \E t \in granted, o \in Purpose : Request(h, t, o)
       \/ Work(h)
  \/ Tick
  \/ Age
  \/ \E k \in Key : Expire(k)

Spec == Init /\ [][Next]_vars

-----------------------------------------------------------------------------
(* Properties.                                                             *)

\* A request is served as the user, in the application and with the roles of
\* the login that its token comes from, although the three are read one by
\* one while others log in and out; only a token that two logins of the same
\* second share can mix them up (AuthMiddleware, GetLoginToken).
ServedAsOwner ==
  \A h \in Handler :
    pc[h] = "served" /\ tok[h] \notin again =>
      \E a \in logins[tok[h]] : who[h] = IdentityOf(a)

\* Whatever is stored under a token comes from the login of that token:
\* renewing a session that is being removed may bring its keys back, but
\* never under another user (SetCache of AuthMiddleware).
KeysAgree ==
  \A t \in Token \ again :
    /\ redis[TokenKey(t)] # None => \E a \in logins[t] : redis[TokenKey(t)] = a[2]
    /\ redis[DbKey(t)] # None => \E a \in logins[t] : redis[DbKey(t)] = a[1]
    /\ redis[RolesKey(t)] # None => \E a \in logins[t] : redis[RolesKey(t)] = RolesOf[a]

\* A session is ended by its own user only: when the token key of t goes and
\* did not expire, a login or a logout of the account of t was at work
\* (RemoveUser removes the token it finds registered for the account).
EndedByOwner ==
  [][\A t \in Token \ again :
       redis[TokenKey(t)] # None /\ redis'[TokenKey(t)] = None =>
         \/ TokenKey(t) \in old
         \/ \E h \in Handler :
              pc[h] = "remove" /\ todo'[h] # todo[h]
                /\ AccountOf(who[h]) \in logins[t]]_vars

Accepted(t) ==
  redis[TokenKey(t)] # None /\ redis[DbKey(t)] # None /\ redis[RolesKey(t)] # None
Quiet == \A h \in Handler : pc[h] \in {"idle", "served"}

\* With one request at a time, a token that was logged out is never accepted
\* again, whatever keys expire on the way (logout, RemoveUser, SetCache).
LogoutIsFinal ==
  Quiet => \A t \in loggedOut \ again : ~Accepted(t)

\* With one request at a time and no key expired, an account has at most one accepted token, and
\* it is the registered one, so that the next login or logout can remove it
\* (cacheLoginToken: RemoveUser before SetCache).
OneSession ==
  Quiet /\ ~lapsed =>
    \A t \in Token \ again : Accepted(t) =>
      \A a \in logins[t] : redis[UserKey(a)] = t

\* With one request at a time and no key expired, a token that a login
\* returned is accepted until the account logs in or out again.
SessionLasts ==
  Quiet /\ ~lapsed =>
    \A t \in granted \ (again \cup loggedOut) : \A a \in logins[t] :
      Accepted(t) \/ \E s \in Token : s > t /\ a \in logins[s]
=============================================================================
