---------------------------- MODULE SessionProofs ----------------------------
(* Proofs about Session, for any accounts, any number of handlers, any clock *)
(* and any failures.                                                         *)
(*                                                                           *)
(* The inductive invariant says of every value in Redis, of every command    *)
(* that is still to be sent and of what every handler has learnt that it     *)
(* comes from the login of the token it is about, unless the token was       *)
(* generated twice.  Reads, renewals and removals only pass it on.           *)
EXTENDS Session, SequenceTheorems, TLAPS

\* The value v is right for the key k, if lg are the logins and ag the tokens
\* generated twice.
Fits(lg, ag, k, v) ==
  v # None =>
    /\ \A a \in Db \X User : k = UserKey(a) => v \in Token /\ (v \notin ag => a \in lg[v])
    /\ \A t \in Token :
         /\ k = TokenKey(t) => v \in User /\ (t \notin ag => \E a \in lg[t] : v = a[2])
         /\ k = DbKey(t) => v \in Db /\ (t \notin ag => \E a \in lg[t] : v = a[1])
         /\ k = RolesKey(t) => v \in Roles /\ (t \notin ag => \E a \in lg[t] : v = RolesOf[a])

\* What a handler at p knows of the user of token t.
Known(lg, ag, p, t, w) ==
  /\ p = "getAppDB" => w.user \in User /\ (t \notin ag => \E a \in lg[t] : w.user = a[2])
  /\ p = "getUserRoles" =>
       /\ w.user \in User /\ w.db \in Db
       /\ t \notin ag => \E a \in lg[t] : w.user = a[2] /\ w.db = a[1]
  /\ p \in {"getTTL", "refresh", "served", "find", "remove", "set"} =>
       /\ w.user \in User /\ w.db \in Db /\ w.roles \in Roles
       /\ t \notin ag => \E a \in lg[t] : w = IdentityOf(a)

\* A command that deletes is sent by RemoveUser, for the account of the token.
Removes(lg, ag, p, w, c) ==
  c.value = None =>
    /\ p = "remove"
    /\ \A t \in Token \ ag : c.key = TokenKey(t) => AccountOf(w) \in lg[t]

Commands(lg, ag, p, w, cs) ==
  \A i \in 1 .. Len(cs) :
    Fits(lg, ag, cs[i].key, cs[i].value) /\ Removes(lg, ag, p, w, cs[i])

OneLogin == \A t \in Token \ again : \A a, b \in logins[t] : a = b
RedisFits == \A k \in Key : Fits(logins, again, k, redis[k])
HandlersKnow == \A h \in Handler : Known(logins, again, pc[h], tok[h], who[h])
CommandsFit == \A h \in Handler : Commands(logins, again, pc[h], who[h], todo[h])

IInv == TypeOK /\ OneLogin /\ RedisFits /\ HandlersKnow /\ CommandsFit

-----------------------------------------------------------------------------
(* Lemmas about keys, commands and growing histories.                        *)

\* The four kinds of keys differ, and so do the keys of one kind.
LEMMA KeysDiffer ==
  ASSUME NEW a, NEW b, NEW t, NEW s
  PROVE  /\ UserKey(a) = UserKey(b) <=> a = b
         /\ TokenKey(t) = TokenKey(s) <=> t = s
         /\ DbKey(t) = DbKey(s) <=> t = s
         /\ RolesKey(t) = RolesKey(s) <=> t = s
         /\ UserKey(a) # TokenKey(t) /\ UserKey(a) # DbKey(t) /\ UserKey(a) # RolesKey(t)
         /\ TokenKey(t) # DbKey(s) /\ TokenKey(t) # RolesKey(s) /\ DbKey(t) # RolesKey(s)
BY DEF UserKey, TokenKey, DbKey, RolesKey

LEMMA KeysAreKeys ==
  /\ \A a \in Db \X User : UserKey(a) \in Key
  /\ \A t \in Token : TokenKey(t) \in Key /\ DbKey(t) \in Key /\ RolesKey(t) \in Key
BY DEF Key

LEMMA IdentityOfAccount ==
  ASSUME NEW a \in Account
  PROVE  /\ IdentityOf(a) \in Identity
         /\ IdentityOf(a).user = a[2] /\ IdentityOf(a).db = a[1] /\ IdentityOf(a).roles = RolesOf[a]
         /\ a[2] \in User /\ a[1] \in Db /\ RolesOf[a] \in Roles
         /\ AccountOf(IdentityOf(a)) = a
<1>1. a \in Db \X User /\ RolesOf[a] \in Roles
  BY AccountAssumption
<1>. QED  BY <1>1 DEF IdentityOf, Identity, AccountOf

\* Later logins take nothing back.
Grows(lg, ag, lg2, ag2) ==
  /\ ag \subseteq ag2
  /\ \A t \in Token : lg[t] \subseteq lg2[t]

LEMMA FitsGrows ==
  ASSUME NEW lg, NEW ag, NEW lg2, NEW ag2, Grows(lg, ag, lg2, ag2),
         NEW k, NEW v, Fits(lg, ag, k, v)
  PROVE  Fits(lg2, ag2, k, v)
<1>1. ASSUME v # None, NEW a \in Db \X User, k = UserKey(a)
      PROVE  v \in Token /\ (v \notin ag2 => a \in lg2[v])
  BY <1>1 DEF Fits, Grows
<1>2. ASSUME v # None, NEW t \in Token, k = TokenKey(t)
      PROVE  v \in User /\ (t \notin ag2 => \E a \in lg2[t] : v = a[2])
  BY <1>2 DEF Fits, Grows
<1>3. ASSUME v # None, NEW t \in Token, k = DbKey(t)
      PROVE  v \in Db /\ (t \notin ag2 => \E a \in lg2[t] : v = a[1])
  BY <1>3 DEF Fits, Grows
<1>4. ASSUME v # None, NEW t \in Token, k = RolesKey(t)
      PROVE  v \in Roles /\ (t \notin ag2 => \E a \in lg2[t] : v = RolesOf[a])
  BY <1>4 DEF Fits, Grows
<1>. QED  BY <1>1, <1>2, <1>3, <1>4 DEF Fits

LEMMA CommandsGrow ==
  ASSUME NEW lg, NEW ag, NEW lg2, NEW ag2, Grows(lg, ag, lg2, ag2),
         NEW p, NEW w, NEW cs, Commands(lg, ag, p, w, cs)
  PROVE  Commands(lg2, ag2, p, w, cs)
<1>1. ASSUME NEW i \in 1 .. Len(cs)
      PROVE  Fits(lg2, ag2, cs[i].key, cs[i].value) /\ Removes(lg2, ag2, p, w, cs[i])
  <2>1. Fits(lg2, ag2, cs[i].key, cs[i].value)
    BY FitsGrows DEF Commands
  <2>2. Removes(lg2, ag2, p, w, cs[i])
    BY DEF Commands, Removes, Grows
  <2>. QED  BY <2>1, <2>2
<1>. QED  BY <1>1 DEF Commands

LEMMA KnownGrows ==
  ASSUME NEW lg, NEW ag, NEW lg2, NEW ag2, Grows(lg, ag, lg2, ag2),
         NEW p, NEW t \in Token, NEW w, Known(lg, ag, p, t, w)
  PROVE  Known(lg2, ag2, p, t, w)
BY DEF Known, Grows

\* What SetCache writes fits, if the identity is the one of the token's login.
LEMMA SetCacheFits ==
  ASSUME NEW lg \in [Token -> SUBSET Account], NEW ag, NEW p, NEW t \in Token, NEW w \in Identity,
         w.user \in User, w.db \in Db, w.roles \in Roles,
         t \notin ag => \E a \in lg[t] : w = IdentityOf(a)
  PROVE  /\ SetCache(w, t) \in Seq(Command)
         /\ Commands(lg, ag, p, w, SetCache(w, t))
<1> DEFINE k1 == UserKey(AccountOf(w))
<1>1. AccountOf(w) \in Db \X User /\ k1 \in Key
  BY KeysAreKeys DEF AccountOf
<1>2. t # None /\ w.user # None /\ w.db # None /\ w.roles # None
  BY NoneAssumption DEF Token
<1>3. t \notin ag => AccountOf(w) \in lg[t]
  BY IdentityOfAccount
<1>4. Fits(lg, ag, k1, t)
  BY <1>3, KeysDiffer DEF Fits
<1>5. Fits(lg, ag, DbKey(t), w.db)
  BY IdentityOfAccount, KeysDiffer DEF Fits
<1>6. Fits(lg, ag, RolesKey(t), w.roles)
  BY IdentityOfAccount, KeysDiffer DEF Fits
<1>7. Fits(lg, ag, TokenKey(t), w.user)
  BY IdentityOfAccount, KeysDiffer DEF Fits
<1>8. /\ Set(k1, t) \in Command /\ Set(DbKey(t), w.db) \in Command
      /\ Set(RolesKey(t), w.roles) \in Command /\ Set(TokenKey(t), w.user) \in Command
  BY <1>1, KeysAreKeys DEF Set, Command, Value
<1> DEFINE cs == SetCache(w, t)
<1>9. cs = <<Set(k1, t), Set(DbKey(t), w.db), Set(RolesKey(t), w.roles), Set(TokenKey(t), w.user)>>
  BY DEF SetCache
<1>10. ASSUME NEW i \in 1 .. Len(cs)
       PROVE  Fits(lg, ag, cs[i].key, cs[i].value) /\ cs[i].value # None
  BY <1>2, <1>4, <1>5, <1>6, <1>7, <1>9 DEF Set
<1>11. Commands(lg, ag, p, w, cs)
  BY <1>10 DEF Commands, Removes
<1>. QED  BY <1>8, <1>9, <1>11

\* What RemoveCache deletes belongs to the account, if the token does.
LEMMA RemoveCacheFits ==
  ASSUME NEW lg, NEW ag, NEW t \in Token, NEW w, AccountOf(w) \in Db \X User,
         t \notin ag => AccountOf(w) \in lg[t]
  PROVE  /\ RemoveCache(w, t) \in Seq(Command)
         /\ Commands(lg, ag, "remove", w, RemoveCache(w, t))
<1> DEFINE k1 == UserKey(AccountOf(w))
<1> DEFINE cs == RemoveCache(w, t)
<1>1. cs = <<Del(k1), Del(RolesKey(t)), Del(TokenKey(t)), Del(DbKey(t))>>
  BY DEF RemoveCache
<1>2. Del(k1) \in Command /\ Del(RolesKey(t)) \in Command /\ Del(TokenKey(t)) \in Command
        /\ Del(DbKey(t)) \in Command
  BY KeysAreKeys DEF Del, Command, Value
<1>3. ASSUME NEW i \in 1 .. Len(cs)
      PROVE  Fits(lg, ag, cs[i].key, cs[i].value) /\ Removes(lg, ag, "remove", w, cs[i])
  <2>1. cs[i].value = None /\ cs[i].key \in {k1, RolesKey(t), TokenKey(t), DbKey(t)}
    BY <1>1 DEF Del
  <2>2. \A s \in Token : cs[i].key = TokenKey(s) => s = t
    BY <2>1, KeysDiffer
  <2>. QED  BY <2>1, <2>2 DEF Fits, Removes
<1>. QED  BY <1>1, <1>2, <1>3 DEF Commands

\* The rest of a list of commands is such a list.
LEMMA CommandsTail ==
  ASSUME NEW lg, NEW ag, NEW p, NEW w, NEW cs \in Seq(Command), cs # << >>,
         Commands(lg, ag, p, w, cs)
  PROVE  /\ Tail(cs) \in Seq(Command) /\ Tail(cs) # cs
         /\ Commands(lg, ag, p, w, Tail(cs))
         /\ Head(cs) \in Command
         /\ Fits(lg, ag, Head(cs).key, Head(cs).value) /\ Removes(lg, ag, p, w, Head(cs))
<1>1. /\ Tail(cs) \in Seq(Command) /\ Len(Tail(cs)) = Len(cs) - 1 /\ Len(cs) \in Nat \ {0}
      /\ \A i \in 1 .. Len(Tail(cs)) : Tail(cs)[i] = cs[i + 1]
      /\ Head(cs) = cs[1] /\ Head(cs) \in Command
  BY HeadTailProperties
<1>2. \A i \in 1 .. Len(Tail(cs)) : i + 1 \in 1 .. Len(cs)
  BY <1>1
<1>3. ASSUME NEW i \in 1 .. Len(cs)
      PROVE  Fits(lg, ag, cs[i].key, cs[i].value) /\ Removes(lg, ag, p, w, cs[i])
  BY <1>3 DEF Commands
<1>4. ASSUME NEW i \in 1 .. Len(Tail(cs))
      PROVE  Fits(lg, ag, Tail(cs)[i].key, Tail(cs)[i].value) /\ Removes(lg, ag, p, w, Tail(cs)[i])
  <2>1. Tail(cs)[i] = cs[i + 1] /\ i + 1 \in 1 .. Len(cs)
    BY <1>1, <1>2
  <2>. QED  BY <2>1, <1>3
<1>5. Commands(lg, ag, p, w, Tail(cs))
  BY <1>4 DEF Commands
<1>6. Fits(lg, ag, Head(cs).key, Head(cs).value) /\ Removes(lg, ag, p, w, Head(cs))
  <2>1. Head(cs) = cs[1] /\ 1 \in 1 .. Len(cs)
    BY <1>1
  <2>. QED  BY <2>1, <1>3
<1>7. Tail(cs) # cs
  <2> DEFINE m == Len(Tail(cs))
             n == Len(cs)
  <2>1. n \in Nat /\ m = n - 1
    BY <1>1
  <2> HIDE DEF m, n
  <2>2. m # n
    BY <2>1
  <2>3. Len(Tail(cs)) # Len(cs)
    BY <2>2, Zenon DEF m, n
  <2>. QED  BY <2>3, Zenon
<1>. QED  BY <1>1, <1>5, <1>6, <1>7

LEMMA NoCommands ==
  ASSUME NEW lg, NEW ag, NEW p, NEW w
  PROVE  << >> \in Seq(Command) /\ Commands(lg, ag, p, w, << >>)
BY DEF Commands

-----------------------------------------------------------------------------
(* The invariant holds initially, and each step preserves it.                *)

LEMMA InitIInv == Init => IInv
<1>. SUFFICES ASSUME Init
              PROVE  IInv
  OBVIOUS
<1>1. TypeOK
  <2>1. Nobody \in Identity /\ 0 \in Token
    BY FaultsAssumption DEF Nobody, Identity, Token
  <2>2. redis \in [Key -> Value]
    BY DEF Init, Value
  <2>3. pc \in [Handler -> PC] /\ op \in [Handler -> {"none", "login", "call", "badbody", "logout"}]
    BY DEF Init, PC
  <2>4. tok \in [Handler -> Token] /\ who \in [Handler -> Identity] /\ todo \in [Handler -> Seq(Command)]
    BY <2>1 DEF Init
  <2>. QED  BY <2>1, <2>2, <2>3, <2>4 DEF Init, TypeOK
<1>2. RedisFits
  BY DEF Init, RedisFits, Fits
<1>3. HandlersKnow /\ CommandsFit
  BY DEF Init, HandlersKnow, Known, CommandsFit, Commands
<1>. QED  BY <1>1, <1>2, <1>3 DEF IInv, OneLogin, Init

\* A step of handler h leaves what the others know and have still to do.
Others(h) ==
  \A g \in Handler \ {h} : pc'[g] = pc[g] /\ tok'[g] = tok[g] /\ who'[g] = who[g] /\ todo'[g] = todo[g]

LEMMA HandlerStep ==
  ASSUME IInv, TypeOK', NEW h \in Handler, Others(h),
         Grows(logins, again, logins', again'), OneLogin', RedisFits',
         Known(logins', again', pc'[h], tok'[h], who'[h]),
         Commands(logins', again', pc'[h], who'[h], todo'[h])
  PROVE  IInv'
<1>1. ASSUME NEW g \in Handler
      PROVE  Known(logins', again', pc'[g], tok'[g], who'[g])
  <2>1. CASE g = h
    BY <2>1
  <2>2. CASE g # h
    <3>1. Known(logins, again, pc[g], tok[g], who[g]) /\ tok[g] \in Token
      BY DEF IInv, HandlersKnow, TypeOK
    <3>2. Known(logins', again', pc[g], tok[g], who[g])
      BY <3>1, KnownGrows
    <3>. QED  BY <2>2, <3>2 DEF Others
  <2>. QED  BY <2>1, <2>2
<1>2. ASSUME NEW g \in Handler
      PROVE  Commands(logins', again', pc'[g], who'[g], todo'[g])
  <2>1. CASE g = h
    BY <2>1
  <2>2. CASE g # h
    <3>1. Commands(logins, again, pc[g], who[g], todo[g])
      BY DEF IInv, CommandsFit
    <3>2. Commands(logins', again', pc[g], who[g], todo[g])
      BY <3>1, CommandsGrow
    <3>. QED  BY <2>2, <3>2 DEF Others
  <2>. QED  BY <2>1, <2>2
<1>3. HandlersKnow'
  BY <1>1 DEF HandlersKnow
<1>4. CommandsFit'
  BY <1>2 DEF CommandsFit
<1>. QED  BY <1>3, <1>4 DEF IInv

\* The same, when Redis and the history stay as they are.
LEMMA QuietStep ==
  ASSUME IInv, TypeOK', NEW h \in Handler, Others(h),
         UNCHANGED <<redis, logins, again>>,
         Known(logins, again, pc'[h], tok'[h], who'[h]),
         Commands(logins, again, pc'[h], who'[h], todo'[h])
  PROVE  IInv'
<1>1. Grows(logins, again, logins', again')
  BY DEF Grows
<1>2. OneLogin' /\ RedisFits'
  BY DEF IInv, OneLogin, RedisFits
<1>. QED  BY <1>1, <1>2, HandlerStep

\* A request that ends knows nothing and leaves no types behind.
LEMMA FinishType ==
  ASSUME TypeOK, NEW h \in Handler, Finish(h)
  PROVE  /\ pc' \in [Handler -> PC] /\ tok' \in [Handler -> Token] /\ who' \in [Handler -> Identity]
         /\ op' \in [Handler -> {"none", "login", "call", "badbody", "logout"}]
         /\ pc'[h] = "idle"
         /\ \A g \in Handler \ {h} : pc'[g] = pc[g] /\ tok'[g] = tok[g] /\ who'[g] = who[g]
<1>1. Nobody \in Identity /\ 0 \in Token
  BY FaultsAssumption DEF Nobody, Identity, Token
<1>. QED  BY <1>1 DEF Finish, Goto, TypeOK, PC

LEMMA IdleKnows ==
  ASSUME NEW lg, NEW ag, NEW t, NEW w, NEW p \in {"idle", "getUserID"}
  PROVE  Known(lg, ag, p, t, w)
BY DEF Known

\* Only deletions depend on where a handler is.
LEMMA CommandsMove ==
  ASSUME NEW lg, NEW ag, NEW p, NEW w, NEW q, NEW x, NEW cs,
         Commands(lg, ag, p, w, cs), p # "remove"
  PROVE  Commands(lg, ag, q, x, cs)
<1>1. ASSUME NEW i \in 1 .. Len(cs)
      PROVE  Fits(lg, ag, cs[i].key, cs[i].value) /\ Removes(lg, ag, q, x, cs[i])
  BY DEF Commands, Removes
<1>. QED  BY <1>1 DEF Commands

LEMMA LoginStep ==
  ASSUME IInv, NEW h \in Handler, NEW a \in Account, Login(h, a)
  PROVE  IInv'
<1>. USE DEF IInv
<1>1. TypeOK'
  BY IdentityOfAccount DEF TypeOK, Login, Goto, PC
<1>2. Others(h)
  BY DEF Others, Login, Goto, TypeOK
<1>3. Grows(logins, again, logins', again')
  BY DEF Grows, Login, TypeOK
<1>4. now \in Token /\ logins \in [Token -> SUBSET Account]
  BY DEF TypeOK
<1>5. OneLogin'
  <2>1. ASSUME NEW t \in Token, t \notin again', NEW b \in logins'[t], NEW c \in logins'[t]
        PROVE  b = c
    <3>1. t \notin again
      BY <2>1, <1>3 DEF Grows
    <3>2. CASE t = now
      <4>1. logins[now] = {}
        BY <2>1, <3>2 DEF Login
      <4>2. logins'[t] = {a}
        BY <4>1, <3>2, <1>4 DEF Login
      <4>. QED  BY <4>2
    <3>3. CASE t # now
      <4>1. logins'[t] = logins[t]
        BY <3>3, <1>4 DEF Login
      <4>. QED  BY <4>1, <3>1 DEF OneLogin
    <3>. QED  BY <3>2, <3>3
  <2>. QED  BY <2>1 DEF OneLogin
<1>6. RedisFits'
  <2>1. ASSUME NEW k \in Key
        PROVE  Fits(logins', again', k, redis'[k])
    <3>1. Fits(logins, again, k, redis[k]) /\ redis' = redis
      BY DEF RedisFits, Login
    <3>. QED  BY <3>1, <1>3, FitsGrows
  <2>. QED  BY <2>1 DEF RedisFits
<1>7. Known(logins', again', pc'[h], tok'[h], who'[h])
  <2>1. pc'[h] = "find" /\ tok'[h] = now /\ who'[h] = IdentityOf(a)
    BY DEF Login, Goto, TypeOK
  <2>2. a \in logins'[now]
    BY <1>4 DEF Login
  <2>. QED  BY <2>1, <2>2, IdentityOfAccount DEF Known
<1>8. Commands(logins', again', pc'[h], who'[h], todo'[h])
  <2>1. Commands(logins, again, pc[h], who[h], todo[h]) /\ pc[h] # "remove" /\ todo' = todo
    BY DEF CommandsFit, Login
  <2>2. Commands(logins', again', pc[h], who[h], todo[h])
    BY <2>1, <1>3, CommandsGrow
  <2>. QED  BY <2>1, <2>2, CommandsMove
<1>. QED  BY <1>1, <1>2, <1>3, <1>5, <1>6, <1>7, <1>8, HandlerStep

LEMMA RequestStep ==
  ASSUME IInv, NEW h \in Handler, NEW t \in granted, NEW o \in Purpose, Request(h, t, o)
  PROVE  IInv'
<1>. USE DEF IInv
<1>1. TypeOK'
  <2>1. Nobody \in Identity /\ t \in Token /\ o \in {"call", "badbody", "logout"}
    BY FaultsAssumption DEF Nobody, Identity, TypeOK
  <2>. QED  BY <2>1 DEF TypeOK, Request, Goto, PC, history
<1>2. Others(h)
  BY DEF Others, Request, Goto, TypeOK
<1>3. pc'[h] = "getUserID" /\ todo' = todo /\ pc[h] # "remove" /\ UNCHANGED <<redis, logins, again>>
  BY DEF Request, Goto, TypeOK, history
<1>4. Known(logins, again, pc'[h], tok'[h], who'[h])
  BY <1>3, IdleKnows
<1>5. Commands(logins, again, pc'[h], who'[h], todo'[h])
  <2>1. Commands(logins, again, pc[h], who[h], todo[h])
    BY DEF CommandsFit
  <2>. QED  BY <2>1, <1>3, CommandsMove
<1>. QED  BY <1>1, <1>2, <1>3, <1>4, <1>5, QuietStep

\* One of the reads: what is stored under a key of the token fits it.
LEMMA AnswerFits ==
  ASSUME IInv, NEW k \in Key, NEW v \in Answers(k)
  PROVE  Fits(logins, again, k, v)
<1>1. v = None \/ v = redis[k]
  BY DEF Answers
<1>2. Fits(logins, again, k, redis[k])
  BY DEF IInv, RedisFits
<1>3. Fits(logins, again, k, None)
  BY DEF Fits
<1>. QED  BY <1>1, <1>2, <1>3

LEMMA ReadStep ==
  ASSUME IInv, NEW h \in Handler, NEW here, here \notin {"remove"}, NEW k, NEW field, NEW there \in PC,
         Read(h, here, k, field, there),
         \A v \in Answers(k) : v # None =>
           LET w == [who[h] EXCEPT ![field] = v]
           IN  w \in Identity /\ Known(logins, again, there, tok[h], w)
  PROVE  IInv'
<1>. USE DEF IInv
<1>1. UNCHANGED <<redis, old, now, todo, history>> /\ pc[h] # "remove"
  BY DEF Read
<1>2. Commands(logins, again, pc[h], who[h], todo[h])
  BY DEF CommandsFit
<1>3. Commands(logins, again, pc'[h], who'[h], todo'[h])
  BY <1>1, <1>2, CommandsMove
<1>4. CASE Finish(h)
  <2>1. Known(logins, again, pc'[h], tok'[h], who'[h])
    BY <1>4, FinishType, IdleKnows
  <2>2. TypeOK' /\ Others(h)
    BY <1>1, <1>4, FinishType DEF TypeOK, Others, history
  <2>. QED  BY <1>1, <1>3, <2>1, <2>2, QuietStep DEF history
<1>5. ASSUME NEW v \in Answers(k), v # None, Learn(h, field, v), Goto(h, there), UNCHANGED <<op, tok>>
      PROVE  IInv'
  <2> DEFINE w == [who[h] EXCEPT ![field] = v]
  <2>1. w \in Identity /\ Known(logins, again, there, tok[h], w)
    BY <1>5
  <2>2. who' = [who EXCEPT ![h] = w] /\ pc' = [pc EXCEPT ![h] = there]
    BY <1>5 DEF Learn, Goto
  <2> HIDE DEF w
  <2>3. TypeOK'
    BY <1>1, <1>5, <2>1, <2>2 DEF TypeOK, history
  <2>4. Others(h) /\ pc'[h] = there /\ who'[h] = w /\ tok'[h] = tok[h]
    BY <1>1, <1>5, <2>2 DEF TypeOK, Others
  <2>. QED  BY <1>1, <1>3, <2>1, <2>3, <2>4, QuietStep DEF history
<1>. QED  BY <1>4, <1>5 DEF Read

LEMMA GetUserIDStep ==
  ASSUME IInv, NEW h \in Handler, GetUserID(h)
  PROVE  IInv'
<1>1. who[h] \in Identity /\ tok[h] \in Token
  BY DEF IInv, TypeOK
<1>2. ASSUME NEW v \in Answers(TokenKey(tok[h])), v # None
      PROVE  LET w == [who[h] EXCEPT !["user"] = v]
             IN  w \in Identity /\ Known(logins, again, "getAppDB", tok[h], w)
  <2>1. Fits(logins, again, TokenKey(tok[h]), v)
    BY <1>1, AnswerFits, KeysAreKeys
  <2>2. v \in User /\ (tok[h] \notin again => \E a \in logins[tok[h]] : v = a[2])
    BY <1>1, <1>2, <2>1 DEF Fits
  <2>. QED  BY <1>1, <2>2 DEF Identity, Known
<1>. QED  BY <1>2, ReadStep DEF GetUserID, PC

LEMMA GetAppDBStep ==
  ASSUME IInv, NEW h \in Handler, GetAppDB(h)
  PROVE  IInv'
<1>1. who[h] \in Identity /\ tok[h] \in Token
  BY DEF IInv, TypeOK
<1>2. who[h].user \in User /\ (tok[h] \notin again => \E a \in logins[tok[h]] : who[h].user = a[2])
  BY DEF IInv, HandlersKnow, Known, GetAppDB, Read
<1>3. ASSUME NEW v \in Answers(DbKey(tok[h])), v # None
      PROVE  LET w == [who[h] EXCEPT !["db"] = v]
             IN  w \in Identity /\ Known(logins, again, "getUserRoles", tok[h], w)
  <2>1. Fits(logins, again, DbKey(tok[h]), v)
    BY <1>1, AnswerFits, KeysAreKeys
  <2>2. v \in Db /\ (tok[h] \notin again => \E a \in logins[tok[h]] : v = a[1])
    BY <1>1, <1>3, <2>1 DEF Fits
  <2>3. tok[h] \notin again => \A a, b \in logins[tok[h]] : a = b
    BY <1>1 DEF IInv, OneLogin
  <2> DEFINE w == [who[h] EXCEPT !["db"] = v]
  <2>4. w \in Identity /\ w.user = who[h].user /\ w.db = v
    BY <1>1, <2>2 DEF Identity
  <2> HIDE DEF w
  <2>5. Known(logins, again, "getUserRoles", tok[h], w)
    BY <1>2, <2>2, <2>3, <2>4 DEF Known
  <2>. QED  BY <2>4, <2>5 DEF w
<1>. QED  BY <1>3, ReadStep DEF GetAppDB, PC

LEMMA GetUserRolesStep ==
  ASSUME IInv, NEW h \in Handler, GetUserRoles(h)
  PROVE  IInv'
<1>1. who[h] \in Identity /\ tok[h] \in Token /\ logins \in [Token -> SUBSET Account]
  BY DEF IInv, TypeOK
<1>2. /\ who[h].user \in User /\ who[h].db \in Db
      /\ tok[h] \notin again => \E a \in logins[tok[h]] : who[h].user = a[2] /\ who[h].db = a[1]
  BY DEF IInv, HandlersKnow, Known, GetUserRoles, Read
<1>3. ASSUME NEW v \in Answers(RolesKey(tok[h])), v # None
      PROVE  LET w == [who[h] EXCEPT !["roles"] = v]
             IN  w \in Identity /\ Known(logins, again, "getTTL", tok[h], w)
  <2>1. Fits(logins, again, RolesKey(tok[h]), v)
    BY <1>1, AnswerFits, KeysAreKeys
  <2>2. v \in Roles /\ (tok[h] \notin again => \E a \in logins[tok[h]] : v = RolesOf[a])
    BY <1>1, <1>3, <2>1 DEF Fits
  <2>3. tok[h] \notin again => \A a, b \in logins[tok[h]] : a = b
    BY <1>1 DEF IInv, OneLogin
  <2> DEFINE w == [who[h] EXCEPT !["roles"] = v]
  <2>4. w \in Identity /\ w = [db |-> who[h].db, user |-> who[h].user, roles |-> v]
    BY <1>1, <2>2 DEF Identity
  <2> HIDE DEF w
  <2>5. tok[h] \notin again => \E a \in logins[tok[h]] : w = IdentityOf(a)
    BY <1>2, <2>2, <2>3, <2>4 DEF IdentityOf
  <2>6. w.user \in User /\ w.db \in Db /\ w.roles \in Roles
    BY <1>2, <2>2, <2>4
  <2>7. Known(logins, again, "getTTL", tok[h], w)
    BY <2>5, <2>6 DEF Known
  <2>. QED  BY <2>4, <2>7 DEF w
<1>. QED  BY <1>3, ReadStep DEF GetUserRoles, PC

\* Where a handler that has learnt everything goes, what it knows stays true.
Late == {"getTTL", "refresh", "served", "find", "remove", "set"}

LEMMA KnownLate ==
  ASSUME NEW lg, NEW ag, NEW p \in Late, NEW q \in Late, NEW t, NEW w, Known(lg, ag, p, t, w)
  PROVE  Known(lg, ag, q, t, w)
BY DEF Known, Late

\* A handler goes to another such place, with other commands.
LEMMA LateStep ==
  ASSUME IInv, NEW h \in Handler, pc[h] \in Late, NEW q \in Late, Goto(h, q),
         UNCHANGED <<redis, old, now, op, tok, who, history>>,
         NEW cs \in Seq(Command), todo' = [todo EXCEPT ![h] = cs],
         Commands(logins, again, q, who[h], cs)
  PROVE  IInv'
<1>. USE DEF IInv
<1>1. q \in PC /\ pc' = [pc EXCEPT ![h] = q]
  BY DEF Late, PC, Goto
<1>2. TypeOK'
  BY <1>1 DEF TypeOK, history
<1>3. Others(h) /\ pc'[h] = q /\ todo'[h] = cs
  BY <1>1 DEF TypeOK, Others
<1>4. Known(logins, again, pc'[h], tok'[h], who'[h])
  BY <1>3, KnownLate DEF HandlersKnow
<1>. QED  BY <1>2, <1>3, <1>4, QuietStep DEF history

\* What a late handler knows, spelled out.
LEMMA LateKnows ==
  ASSUME IInv, NEW h \in Handler, pc[h] \in Late
  PROVE  /\ tok[h] \in Token /\ who[h] \in Identity /\ logins \in [Token -> SUBSET Account]
         /\ who[h].user \in User /\ who[h].db \in Db /\ who[h].roles \in Roles
         /\ tok[h] \notin again => \E a \in logins[tok[h]] : who[h] = IdentityOf(a)
         /\ AccountOf(who[h]) \in Db \X User
<1>1. Known(logins, again, pc[h], tok[h], who[h])
  BY DEF IInv, HandlersKnow
<1>2. tok[h] \in Token /\ who[h] \in Identity /\ logins \in [Token -> SUBSET Account]
  BY DEF IInv, TypeOK
<1>3. /\ who[h].user \in User /\ who[h].db \in Db /\ who[h].roles \in Roles
      /\ tok[h] \notin again => \E a \in logins[tok[h]] : who[h] = IdentityOf(a)
  BY <1>1 DEF Known, Late
<1>. QED  BY <1>2, <1>3 DEF AccountOf

LEMMA FindTokenStep ==
  ASSUME IInv, NEW h \in Handler, FindToken(h)
  PROVE  IInv'
<1> DEFINE k == UserKey(AccountOf(who[h]))
<1>1. pc[h] \in Late /\ "remove" \in Late
  BY DEF FindToken, Late
<1>2. AccountOf(who[h]) \in Db \X User /\ k \in Key
  BY <1>1, LateKnows, KeysAreKeys
<1>3. PICK t \in Answers(k) :
        todo' = [todo EXCEPT ![h] = IF t = None THEN << >> ELSE RemoveCache(who[h], t)]
  BY DEF FindToken
<1> DEFINE cs == IF t = None THEN << >> ELSE RemoveCache(who[h], t)
<1>4. cs \in Seq(Command) /\ Commands(logins, again, "remove", who[h], cs)
  <2>1. CASE t = None
    BY <2>1, NoCommands
  <2>2. CASE t # None
    <3>1. Fits(logins, again, k, t)
      BY <1>2, <1>3, AnswerFits
    <3>2. t \in Token /\ (t \notin again => AccountOf(who[h]) \in logins[t])
      BY <1>2, <2>2, <3>1 DEF Fits
    <3>. QED  BY <1>2, <2>2, <3>2, RemoveCacheFits
  <2>. QED  BY <2>1, <2>2
<1>5. Goto(h, "remove") /\ UNCHANGED <<redis, old, now, op, tok, who, history>>
  BY DEF FindToken
<1>6. todo' = [todo EXCEPT ![h] = cs]
  BY <1>3
<1> HIDE DEF cs
<1>. QED  BY <1>1, <1>4, <1>5, <1>6, LateStep

LEMMA StartSetStep ==
  ASSUME IInv, NEW h \in Handler, StartSet(h)
  PROVE  IInv'
<1>1. pc[h] \in Late /\ "set" \in Late
  BY DEF StartSet, Late
<1> DEFINE cs == SetCache(who[h], tok[h])
<1>2. cs \in Seq(Command) /\ Commands(logins, again, "set", who[h], cs)
  BY <1>1, LateKnows, SetCacheFits
<1>3. Goto(h, "set") /\ UNCHANGED <<redis, old, now, op, tok, who, history>>
        /\ todo' = [todo EXCEPT ![h] = cs]
  BY DEF StartSet
<1> HIDE DEF cs
<1>. QED  BY <1>1, <1>2, <1>3, LateStep

LEMMA GetTokenTTLStep ==
  ASSUME IInv, NEW h \in Handler, GetTokenTTL(h)
  PROVE  IInv'
<1>1. pc[h] \in Late /\ "refresh" \in Late
  BY DEF GetTokenTTL, Late
<1>2. PICK v \in Answers(TokenKey(tok[h])) :
        todo' = [todo EXCEPT ![h] = IF v = None THEN << >> ELSE SetCache(who[h], tok[h])]
  BY DEF GetTokenTTL
<1> DEFINE cs == IF v = None THEN << >> ELSE SetCache(who[h], tok[h])
<1>3. /\ SetCache(who[h], tok[h]) \in Seq(Command)
      /\ Commands(logins, again, "refresh", who[h], SetCache(who[h], tok[h]))
  BY <1>1, LateKnows, SetCacheFits
<1>4. cs \in Seq(Command) /\ Commands(logins, again, "refresh", who[h], cs)
  BY <1>3, NoCommands
<1>5. Goto(h, "refresh") /\ UNCHANGED <<redis, old, now, op, tok, who, history>>
  BY DEF GetTokenTTL
<1>6. todo' = [todo EXCEPT ![h] = cs]
  BY <1>2
<1> HIDE DEF cs
<1>. QED  BY <1>1, <1>4, <1>5, <1>6, LateStep

\* A request that has nothing left to do ends.
LEMMA EndStep ==
  ASSUME IInv, NEW h \in Handler, todo[h] = << >>, Finish(h),
         UNCHANGED <<redis, old, now, todo, logins, again, lapsed>>,
         granted' \subseteq Token, loggedOut' \subseteq Token
  PROVE  IInv'
<1>. USE DEF IInv
<1>1. TypeOK' /\ Others(h)
  BY FinishType DEF TypeOK, Others
<1>2. Known(logins, again, pc'[h], tok'[h], who'[h])
  BY FinishType, IdleKnows
<1>3. Commands(logins, again, pc'[h], who'[h], todo'[h])
  BY NoCommands
<1>. QED  BY <1>1, <1>2, <1>3, QuietStep

LEMMA LoginDoneStep ==
  ASSUME IInv, NEW h \in Handler, LoginDone(h)
  PROVE  IInv'
<1>1. granted' \subseteq Token /\ loggedOut' \subseteq Token
  BY DEF IInv, TypeOK, LoginDone
<1>. QED  BY <1>1, EndStep DEF LoginDone

LEMMA LogoutDoneStep ==
  ASSUME IInv, NEW h \in Handler, LogoutDone(h)
  PROVE  IInv'
<1>1. granted' \subseteq Token /\ loggedOut' \subseteq Token
  BY DEF IInv, TypeOK, LogoutDone
<1>. QED  BY <1>1, EndStep DEF LogoutDone

LEMMA AuthenticatedStep ==
  ASSUME IInv, NEW h \in Handler, Authenticated(h)
  PROVE  IInv'
<1>1. todo[h] = << >> /\ UNCHANGED <<redis, old, now, todo, history>>
  BY DEF Authenticated
<1>2. CASE Finish(h)
  <2>1. granted' \subseteq Token /\ loggedOut' \subseteq Token
    BY <1>1 DEF IInv, TypeOK, history
  <2>. QED  BY <1>1, <1>2, <2>1, EndStep DEF history
<1>3. ASSUME NEW q \in {"served", "find"}, Goto(h, q), UNCHANGED <<op, tok, who>>
      PROVE  IInv'
  <2>1. pc[h] \in Late /\ q \in Late
    BY DEF Authenticated, Late
  <2>2. << >> \in Seq(Command) /\ Commands(logins, again, q, who[h], << >>)
    BY NoCommands
  <2>3. todo' = [todo EXCEPT ![h] = << >>]
    BY <1>1 DEF IInv, TypeOK
  <2>. QED  BY <1>1, <1>3, <2>1, <2>2, <2>3, LateStep
<1>. QED  BY <1>2, <1>3 DEF Authenticated

LEMMA ExecuteStep ==
  ASSUME IInv, NEW h \in Handler, Execute(h)
  PROVE  IInv'
<1>. USE DEF IInv
<1> DEFINE cs == todo[h]
           c == Head(cs)
<1>1. /\ cs # << >> /\ cs \in Seq(Command) /\ Commands(logins, again, pc[h], who[h], cs)
      /\ UNCHANGED <<now, history>>
  BY DEF Execute, TypeOK, CommandsFit
<1>2. /\ Tail(cs) \in Seq(Command) /\ Commands(logins, again, pc[h], who[h], Tail(cs))
      /\ c \in Command /\ Fits(logins, again, c.key, c.value)
      /\ Removes(logins, again, pc[h], who[h], c)
  BY <1>1, CommandsTail
<1>3. Known(logins, again, pc[h], tok[h], who[h])
  BY DEF HandlersKnow
<1>4. CASE /\ redis' = [redis EXCEPT ![c.key] = c.value]
           /\ old' = old \ {c.key}
           /\ todo' = [todo EXCEPT ![h] = Tail(@)]
           /\ UNCHANGED <<pc, op, tok, who>>
  <2>1. c.key \in Key /\ c.value \in Value
    BY <1>2 DEF Command
  <2>2. todo' = [todo EXCEPT ![h] = Tail(cs)] /\ todo'[h] = Tail(cs)
    BY <1>4 DEF TypeOK
  <2> HIDE DEF cs, c
  <2>3. redis' \in [Key -> Value] /\ old' \subseteq Key
    BY <1>4, <2>1 DEF TypeOK
  <2>4. todo' \in [Handler -> Seq(Command)]
    BY <1>2, <2>2 DEF TypeOK
  <2>5. TypeOK'
    BY <1>1, <1>4, <2>3, <2>4 DEF TypeOK, history
  <2>6. Others(h)
    BY <1>4, <2>2 DEF TypeOK, Others
  <2>7. Grows(logins, again, logins', again') /\ OneLogin'
    BY <1>1 DEF Grows, OneLogin, history
  <2>8. RedisFits'
    <3>1. ASSUME NEW k \in Key
          PROVE  Fits(logins, again, k, redis'[k])
      <4>1. redis'[k] = IF k = c.key THEN c.value ELSE redis[k]
        BY <1>4, <2>1 DEF TypeOK
      <4>2. Fits(logins, again, k, redis[k])
        BY DEF RedisFits
      <4>. QED  BY <1>2, <4>1, <4>2
    <3>. QED  BY <1>1, <3>1 DEF RedisFits, history
  <2>9. Known(logins', again', pc'[h], tok'[h], who'[h])
    BY <1>1, <1>3, <1>4 DEF history
  <2>10. Commands(logins', again', pc'[h], who'[h], todo'[h])
    BY <1>1, <1>2, <1>4, <2>2 DEF history
  <2>. QED  BY <2>5, <2>6, <2>7, <2>8, <2>9, <2>10, HandlerStep
<1>5. CASE /\ todo' = [todo EXCEPT ![h] = IF c.value = None THEN Tail(@) ELSE << >>]
           /\ IF pc[h] = "set" THEN Finish(h) ELSE UNCHANGED <<pc, op, tok, who>>
           /\ UNCHANGED <<redis, old>>
  <2> DEFINE rest == IF c.value = None THEN Tail(cs) ELSE << >>
  <2>1. todo' = [todo EXCEPT ![h] = rest]
    BY <1>5 DEF TypeOK
  <2>2. rest \in Seq(Command) /\ Commands(logins, again, pc[h], who[h], rest)
    BY <1>2, NoCommands
  <2>3. pc[h] = "set" => c.value # None
    BY <1>2 DEF Removes
  <2>4. pc[h] = "set" => rest = << >>
    BY <2>3
  <2> HIDE DEF rest, cs, c
  <2>5. todo'[h] = rest /\ todo' \in [Handler -> Seq(Command)]
          /\ \A g \in Handler \ {h} : todo'[g] = todo[g]
    BY <2>1, <2>2 DEF TypeOK
  <2>6. TypeOK'
    <3>1. CASE pc[h] = "set"
      BY <1>1, <1>5, <2>5, <3>1, FinishType DEF TypeOK, history
    <3>2. CASE pc[h] # "set"
      BY <1>1, <1>5, <2>5, <3>2 DEF TypeOK, history
    <3>. QED  BY <3>1, <3>2
  <2>7. Others(h)
    BY <1>5, <2>5, FinishType DEF Others
  <2>8. Known(logins, again, pc'[h], tok'[h], who'[h])
    BY <1>3, <1>5, FinishType, IdleKnows
  <2>9. Commands(logins, again, pc'[h], who'[h], todo'[h])
    <3>1. CASE pc[h] = "set"
      BY <2>4, <2>5, <3>1, NoCommands
    <3>2. CASE pc[h] # "set"
      BY <1>5, <2>2, <2>5, <3>2
    <3>. QED  BY <3>1, <3>2
  <2>10. UNCHANGED <<redis, logins, again>>
    BY <1>1, <1>5 DEF history
  <2>. QED  BY <2>6, <2>7, <2>8, <2>9, <2>10, QuietStep
<1>. QED  BY <1>4, <1>5 DEF Execute

\* Time leaves the handlers alone.
LEMMA TimeStep ==
  ASSUME IInv, UNCHANGED <<session_vars, logins, again>>, TypeOK',
         \A k \in Key : redis'[k] \in {redis[k], None}
  PROVE  IInv'
<1>1. OneLogin' /\ HandlersKnow' /\ CommandsFit'
  BY DEF IInv, OneLogin, HandlersKnow, CommandsFit, session_vars
<1>2. RedisFits'
  <2>1. ASSUME NEW k \in Key
        PROVE  Fits(logins, again, k, redis'[k])
    <3>1. Fits(logins, again, k, redis[k]) /\ Fits(logins, again, k, None)
      BY DEF IInv, RedisFits, Fits
    <3>. QED  BY <3>1
  <2>. QED  BY <2>1 DEF RedisFits
<1>. QED  BY <1>1, <1>2 DEF IInv

LEMMA TickStep == IInv /\ Tick => IInv'
<1>. SUFFICES ASSUME IInv, Tick
              PROVE  IInv'
  OBVIOUS
<1>1. now' \in Token
  BY FaultsAssumption DEF Tick, IInv, TypeOK, Token
<1>2. TypeOK'
  BY <1>1 DEF Tick, IInv, TypeOK, session_vars, history
<1>. QED  BY <1>2, TimeStep DEF Tick, history

LEMMA AgeStep == IInv /\ Age => IInv'
<1>. SUFFICES ASSUME IInv, Age
              PROVE  IInv'
  OBVIOUS
<1>1. TypeOK'
  BY DEF Age, IInv, TypeOK, session_vars, history
<1>. QED  BY <1>1, TimeStep DEF Age, history

LEMMA ExpireStep ==
  ASSUME IInv, NEW k \in Key, Expire(k)
  PROVE  IInv'
<1>1. TypeOK'
  BY DEF Expire, IInv, TypeOK, session_vars, Value
<1>2. \A x \in Key : redis'[x] \in {redis[x], None}
  BY DEF Expire, IInv, TypeOK
<1>. QED  BY <1>1, <1>2, TimeStep DEF Expire

LEMMA NextStep == IInv /\ [Next]_vars => IInv'
<1>. SUFFICES ASSUME IInv, [Next]_vars
              PROVE  IInv'
  OBVIOUS
<1>1. ASSUME NEW h \in Handler, Work(h)
      PROVE  IInv'
  BY <1>1, ExecuteStep, FindTokenStep, StartSetStep, LoginDoneStep, GetUserIDStep, GetAppDBStep,
     GetUserRolesStep, GetTokenTTLStep, AuthenticatedStep, LogoutDoneStep DEF Work
<1>2. CASE UNCHANGED vars
  BY <1>2 DEF vars, IInv, TypeOK, OneLogin, RedisFits, HandlersKnow, CommandsFit
<1>. QED  BY <1>1, <1>2, LoginStep, RequestStep, TickStep, AgeStep, ExpireStep DEF Next

-----------------------------------------------------------------------------
(* The theorems.                                                             *)

LEMMA SpecIInv == Spec => []IInv
BY InitIInv, NextStep, PTL DEF Spec

\* Every variable of the session model keeps its type, whatever requests
\* overlap and whatever commands fail.
THEOREM SpecTypeOK == Spec => []TypeOK
<1>1. IInv => TypeOK
  BY DEF IInv
<1>. QED  BY <1>1, SpecIInv, PTL

\* A request is served as the user its token comes from (AuthMiddleware).
THEOREM SpecServedAsOwner == Spec => []ServedAsOwner
<1>1. IInv => ServedAsOwner
  BY DEF IInv, HandlersKnow, Known, ServedAsOwner
<1>. QED  BY <1>1, SpecIInv, PTL

\* What is stored under a token comes from its login (SetCache).
THEOREM SpecKeysAgree == Spec => []KeysAgree
<1>1. IInv => KeysAgree
  <2>. SUFFICES ASSUME IInv, NEW t \in Token \ again
                PROVE  /\ redis[TokenKey(t)] # None => \E a \in logins[t] : redis[TokenKey(t)] = a[2]
                       /\ redis[DbKey(t)] # None => \E a \in logins[t] : redis[DbKey(t)] = a[1]
                       /\ redis[RolesKey(t)] # None => \E a \in logins[t] : redis[RolesKey(t)] = RolesOf[a]
    BY DEF KeysAgree
  <2>1. /\ Fits(logins, again, TokenKey(t), redis[TokenKey(t)])
        /\ Fits(logins, again, DbKey(t), redis[DbKey(t)])
        /\ Fits(logins, again, RolesKey(t), redis[RolesKey(t)])
    BY KeysAreKeys DEF IInv, RedisFits
  <2>. QED  BY <2>1 DEF Fits
<1>. QED  BY <1>1, SpecIInv, PTL

\* Only a command that deletes, and expiry, take the key of a token away.
LEMMA StepEndedByOwner ==
  ASSUME IInv, Next, NEW t \in Token \ again,
         redis[TokenKey(t)] # None, redis'[TokenKey(t)] = None
  PROVE  \/ TokenKey(t) \in old
         \/ \E h \in Handler :
              pc[h] = "remove" /\ todo'[h] # todo[h] /\ AccountOf(who[h]) \in logins[t]
<1>1. redis' # redis
  OBVIOUS
<1>2. ASSUME NEW k \in Key, Expire(k)
      PROVE  TokenKey(t) \in old
  BY <1>2, KeysAreKeys DEF Expire, IInv, TypeOK
<1>3. ASSUME NEW h \in Handler, Execute(h)
      PROVE  pc[h] = "remove" /\ todo'[h] # todo[h] /\ AccountOf(who[h]) \in logins[t]
  <2> DEFINE cs == todo[h]
             c == Head(cs)
  <2>1. /\ cs # << >> /\ cs \in Seq(Command) /\ Commands(logins, again, pc[h], who[h], cs)
        /\ redis' = [redis EXCEPT ![c.key] = c.value]
        /\ todo' = [todo EXCEPT ![h] = Tail(@)]
    BY <1>1, <1>3 DEF Execute, IInv, TypeOK, CommandsFit
  <2>2. Tail(cs) # cs /\ c \in Command /\ Removes(logins, again, pc[h], who[h], c)
    BY <2>1, CommandsTail
  <2>3. c.key \in Key
    BY <2>2 DEF Command
  <2>4. todo'[h] # todo[h]
    BY <2>1, <2>2 DEF IInv, TypeOK
  <2> HIDE DEF cs, c
  <2>5. c.key = TokenKey(t) /\ c.value = None
    BY <2>1, <2>3, KeysAreKeys DEF IInv, TypeOK
  <2>. QED  BY <2>2, <2>4, <2>5 DEF Removes
<1>4. \/ \E k \in Key : Expire(k)
      \/ \E h \in Handler : Execute(h)
  <2>1. ASSUME NEW h \in Handler, Work(h), ~Execute(h)
        PROVE  UNCHANGED redis
    BY <2>1 DEF Work, FindToken, StartSet, LoginDone, GetUserID, GetAppDB, GetUserRoles, Read,
       GetTokenTTL, Authenticated, LogoutDone
  <2>2. ASSUME NEW h \in Handler, NEW a \in Account, Login(h, a)
        PROVE  UNCHANGED redis
    BY <2>2 DEF Login
  <2>3. ASSUME NEW h \in Handler, NEW s \in granted, NEW o \in Purpose, Request(h, s, o)
        PROVE  UNCHANGED redis
    BY <2>3 DEF Request
  <2>4. Tick \/ Age => UNCHANGED redis
    BY DEF Tick, Age
  <2>. QED  BY <1>1, <2>1, <2>2, <2>3, <2>4 DEF Next
<1>. QED  BY <1>2, <1>3, <1>4

\* A session is ended by its own account only (RemoveUser).
THEOREM SpecEndedByOwner == Spec => EndedByOwner
<1>1. IInv /\ [Next]_vars =>
        [\A t \in Token \ again :
           redis[TokenKey(t)] # None /\ redis'[TokenKey(t)] = None =>
             \/ TokenKey(t) \in old
             \/ \E h \in Handler :
                  pc[h] = "remove" /\ todo'[h] # todo[h]
                    /\ AccountOf(who[h]) \in logins[t]]_vars
  BY StepEndedByOwner
<1>. QED  BY <1>1, SpecIInv, PTL DEF Spec, EndedByOwner
-----------------------------------------------------------------------------
(* One request at a time, and Redis answers: what the commands of a login    *)
(* and a logout amount to when nothing comes between them. Keys may expire.  *)
(*                                                                           *)
(* The invariant follows the one request at work: of the commands it sends,  *)
(* those that are not pending have been carried out, and their keys are      *)
(* fresh; of every other token that is live it says that the account it      *)
(* belongs to is registered with it.                                         *)

OneAtATime == "redis" \notin Faults /\ \E h : Handler = {h}

\* A token that a request may be served for.
Live(t) == redis[TokenKey(t)] # None
Holder(t) == <<redis[DbKey(t)], redis[TokenKey(t)]>>

SetOf(w, t) ==
  {Set(UserKey(AccountOf(w)), t), Set(DbKey(t), w.db), Set(RolesKey(t), w.roles),
   Set(TokenKey(t), w.user)}
RemoveOf(w, t) ==
  {Del(UserKey(AccountOf(w))), Del(RolesKey(t)), Del(TokenKey(t)), Del(DbKey(t))}

\* Of the commands cmds, those that are not in cs any more have been sent: r
\* has their values, and they are not among the old keys o.
Underway(r, o, cs, cmds) ==
  /\ \A i \in 1 .. Len(cs) : cs[i] \in cmds
  /\ \A c \in cmds : (\E i \in 1 .. Len(cs) : cs[i] = c) \/ (r[c.key] = c.value /\ c.key \notin o)

Setting(h) == Underway(redis, old, todo[h], SetOf(who[h], tok[h]))
Removing(h, t) == Underway(redis, old, todo[h], RemoveOf(who[h], t))
\* The token of h is gone though nobody has removed it.
Gone(h) == ~Live(tok[h]) /\ lapsed

AtWork == {"getAppDB", "getUserRoles", "getTTL", "refresh", "find", "remove", "set"}

Places(h) ==
  /\ pc[h] \notin {"refresh", "remove", "set"} => todo[h] = << >>
  /\ pc[h] = "set" => Setting(h) /\ op[h] = "login"
  /\ pc[h] = "refresh" => Setting(h) \/ (todo[h] = << >> /\ Gone(h))
  /\ pc[h] = "find" /\ op[h] = "logout" =>
       \/ Gone(h)
       \/ /\ redis[UserKey(AccountOf(who[h]))] = tok[h]
          /\ UserKey(AccountOf(who[h])) \notin old
  /\ pc[h] = "remove" =>
       \/ /\ todo[h] = << >> /\ redis[UserKey(AccountOf(who[h]))] = None
          /\ op[h] = "logout" => Gone(h)
       \/ \E s \in Token : Removing(h, s) /\ (op[h] = "logout" => s = tok[h] \/ Gone(h))

\* What a request has read is what is stored.
Reads(h) ==
  /\ pc[h] \in {"getAppDB", "getUserRoles", "getTTL", "refresh"} =>
       Live(tok[h]) /\ who[h].user = redis[TokenKey(tok[h])]
  /\ pc[h] \in {"getUserRoles", "getTTL", "refresh"} => who[h].db = redis[DbKey(tok[h])]
  /\ pc[h] \in {"getTTL", "refresh"} => who[h].roles = redis[RolesKey(tok[h])]

\* A live token has all its keys, and is the one its holder is registered with.
Held(t) ==
  Live(t) =>
    redis[DbKey(t)] # None /\ redis[RolesKey(t)] # None /\ redis[UserKey(Holder(t))] = t
\* No live token but t is held by a.
Alone(a, t) == \A x \in Token \ {t} : Live(x) => Holder(x) # a

Sessions(h) ==
  /\ pc[h] \notin {"set", "remove"} => \A x \in Token : Held(x)
  /\ pc[h] = "set" => (\A x \in Token \ {tok[h]} : Held(x)) /\ Alone(AccountOf(who[h]), tok[h])
  /\ pc[h] = "remove" =>
       \/ /\ todo[h] = << >> /\ op[h] = "login" /\ \A x \in Token : Held(x)
          /\ \A x \in Token : Live(x) => Holder(x) # AccountOf(who[h])
       \/ \E s \in Token : /\ Removing(h, s) /\ \A x \in Token \ {s} : Held(x)
                           /\ Alone(AccountOf(who[h]), s)
                           /\ op[h] = "logout" => s = tok[h]

\* Tokens come from logins of the past, and the one of a login at
\* work is the newest.
Past(h) ==
  /\ \A x \in granted \cup loggedOut : x <= now /\ logins[x] # {}
  /\ pc[h] # "idle" => tok[h] <= now /\ logins[tok[h]] # {}
  /\ op[h] = "login" => /\ pc[h] \in {"find", "remove", "set"}
                        /\ AccountOf(who[h]) \in logins[tok[h]]
                        /\ \A x \in granted \ again : x < tok[h]
  /\ pc[h] \in {"find", "remove"} => op[h] \in {"login", "logout"}

Final(h) == \A x \in loggedOut \ again : ~Live(x) /\ (pc[h] \in AtWork => tok[h] # x)

\* A granted token is live unless its account has logged in or out since.
Lasts(h) ==
  \A x \in granted \ (again \cup loggedOut) : \A a \in logins[x] :
    \/ \E y \in Token : y > x /\ a \in logins[y]
    \/ Live(x)
    \/ pc[h] = "remove" /\ op[h] = "logout" /\ tok[h] = x

Alright(h) ==
  /\ Places(h) /\ Past(h) /\ Final(h)
  /\ ~lapsed => Reads(h) /\ Sessions(h) /\ Lasts(h)

SInv == \A h \in Handler : Alright(h)

-----------------------------------------------------------------------------
(* Lemmas about lists of commands that are under way.                        *)

Distinct(cmds) == \A c, d \in cmds : c.key = d.key => c = d

LEMMA SetOfCommands ==
  ASSUME NEW w \in Identity, w.user \in User, w.db \in Db, w.roles \in Roles, NEW t \in Token
  PROVE  /\ SetOf(w, t) \subseteq Command /\ Distinct(SetOf(w, t))
         /\ \A c \in SetOf(w, t) : c.value # None
<1>1. AccountOf(w) \in Db \X User
  BY DEF AccountOf
<1>2. t # None /\ w.user # None /\ w.db # None /\ w.roles # None
  BY NoneAssumption DEF Token
<1>3. SetOf(w, t) \subseteq Command
  BY <1>1, KeysAreKeys DEF SetOf, Set, Command, Value
<1>4. Distinct(SetOf(w, t))
  BY KeysDiffer DEF SetOf, Distinct, Set
<1>5. \A c \in SetOf(w, t) : c.value # None
  BY <1>2 DEF SetOf, Set
<1>. QED  BY <1>3, <1>4, <1>5

LEMMA RemoveOfCommands ==
  ASSUME NEW w, AccountOf(w) \in Db \X User, NEW t \in Token
  PROVE  /\ RemoveOf(w, t) \subseteq Command /\ Distinct(RemoveOf(w, t))
         /\ \A c \in RemoveOf(w, t) : c.value = None
<1>1. RemoveOf(w, t) \subseteq Command
  BY KeysAreKeys DEF RemoveOf, Del, Command, Value
<1>2. Distinct(RemoveOf(w, t)) /\ \A c \in RemoveOf(w, t) : c.value = None
  BY KeysDiffer DEF RemoveOf, Distinct, Del
<1>. QED  BY <1>1, <1>2

\* A list that has just been made is under way.
LEMMA SetUnderway ==
  ASSUME NEW r, NEW o, NEW w, NEW t
  PROVE  Underway(r, o, SetCache(w, t), SetOf(w, t))
<1> DEFINE cs == SetCache(w, t)
<1>1. /\ Len(cs) = 4
      /\ cs[1] = Set(UserKey(AccountOf(w)), t) /\ cs[2] = Set(DbKey(t), w.db)
      /\ cs[3] = Set(RolesKey(t), w.roles) /\ cs[4] = Set(TokenKey(t), w.user)
  BY DEF SetCache
<1> HIDE DEF cs
<1>2. \A i \in 1 .. Len(cs) : cs[i] \in SetOf(w, t)
  BY <1>1 DEF SetOf
<1>3. ASSUME NEW c \in SetOf(w, t)
      PROVE  \E i \in 1 .. Len(cs) : cs[i] = c
  <2>1. c = cs[1] \/ c = cs[2] \/ c = cs[3] \/ c = cs[4]
    BY <1>1 DEF SetOf
  <2>. QED  BY <1>1, <2>1
<1>4. Underway(r, o, cs, SetOf(w, t))
  BY <1>2, <1>3 DEF Underway
<1>. QED  BY <1>4 DEF cs

LEMMA RemoveUnderway ==
  ASSUME NEW r, NEW o, NEW w, NEW t
  PROVE  Underway(r, o, RemoveCache(w, t), RemoveOf(w, t))
<1> DEFINE cs == RemoveCache(w, t)
<1>1. /\ Len(cs) = 4
      /\ cs[1] = Del(UserKey(AccountOf(w))) /\ cs[2] = Del(RolesKey(t))
      /\ cs[3] = Del(TokenKey(t)) /\ cs[4] = Del(DbKey(t))
  BY DEF RemoveCache
<1> HIDE DEF cs
<1>2. \A i \in 1 .. Len(cs) : cs[i] \in RemoveOf(w, t)
  BY <1>1 DEF RemoveOf
<1>3. ASSUME NEW c \in RemoveOf(w, t)
      PROVE  \E i \in 1 .. Len(cs) : cs[i] = c
  <2>1. c = cs[1] \/ c = cs[2] \/ c = cs[3] \/ c = cs[4]
    BY <1>1 DEF RemoveOf
  <2>. QED  BY <1>1, <2>1
<1>4. Underway(r, o, cs, RemoveOf(w, t))
  BY <1>2, <1>3 DEF Underway
<1>. QED  BY <1>4 DEF cs

\* Sending the first command leaves the others under way.
LEMMA UnderwayStep ==
  ASSUME NEW r \in [Key -> Value], NEW o, NEW cs \in Seq(Command), cs # << >>,
         NEW cmds, cmds \subseteq Command, Distinct(cmds), Underway(r, o, cs, cmds),
         NEW c, c = Head(cs), NEW ds, ds = Tail(cs),
         NEW r2, r2 = [r EXCEPT ![c.key] = c.value], NEW o2, o2 = o \ {c.key}
  PROVE  c \in cmds /\ Underway(r2, o2, ds, cmds)
<1>1. /\ ds \in Seq(Command) /\ Len(ds) = Len(cs) - 1 /\ Len(cs) \in Nat \ {0}
      /\ \A i \in 1 .. Len(ds) : ds[i] = cs[i + 1]
      /\ c = cs[1]
  BY HeadTailProperties
<1>2. c \in cmds /\ c \in Command
  BY <1>1 DEF Underway
<1>3. c.key \in Key
  BY <1>2 DEF Command
<1>4. \A k \in Key : r2[k] = IF k = c.key THEN c.value ELSE r[k]
  BY <1>3
<1>5. \A i \in 1 .. Len(ds) : i + 1 \in 1 .. Len(cs)
  BY <1>1
<1>6. \A i \in 1 .. Len(ds) : ds[i] \in cmds
  BY <1>1, <1>5 DEF Underway
<1>7. ASSUME NEW d \in cmds
      PROVE  (\E i \in 1 .. Len(ds) : ds[i] = d) \/ (r2[d.key] = d.value /\ d.key \notin o2)
  <2>1. d.key \in Key
    BY DEF Command
  <2>2. CASE d = c
    BY <1>4, <2>1, <2>2
  <2>3. CASE d # c
    <3>1. d.key # c.key
      BY <1>2, <2>3 DEF Distinct
    <3>2. CASE r[d.key] = d.value /\ d.key \notin o
      BY <1>4, <2>1, <3>1, <3>2
    <3>3. ASSUME NEW i \in 1 .. Len(cs), cs[i] = d
          PROVE  \E j \in 1 .. Len(ds) : ds[j] = d
      <4>1. i # 1
        BY <1>1, <2>3, <3>3
      <4>2. i - 1 \in 1 .. Len(ds) /\ (i - 1) + 1 = i
        BY <1>1, <4>1
      <4>3. ds[i - 1] = d
        BY <1>1, <3>3, <4>2
      <4>. QED  BY <4>2, <4>3
    <3>. QED  BY <3>2, <3>3 DEF Underway
  <2>. QED  BY <2>2, <2>3
<1>8. Underway(r2, o2, ds, cmds)
  BY <1>6, <1>7 DEF Underway
<1>. QED  BY <1>2, <1>8

\* The commands that have been sent are fresh: no key of theirs expires.
LEMMA UnderwayExpires ==
  ASSUME NEW r \in [Key -> Value], NEW o, NEW cs, NEW cmds, Underway(r, o, cs, cmds),
         cmds \subseteq Command, NEW k \in o
  PROVE  Underway([r EXCEPT ![k] = None], o \ {k}, cs, cmds)
<1> DEFINE r2 == [r EXCEPT ![k] = None]
<1>1. \A x \in Key : x # k => r2[x] = r[x]
  OBVIOUS
<1> HIDE DEF r2
<1>2. \A c \in cmds : c.key \in Key
  BY DEF Command
<1>3. Underway(r2, o \ {k}, cs, cmds)
  BY <1>1, <1>2 DEF Underway
<1>. QED  BY <1>3 DEF r2

\* When none is left, all have been sent.
LEMMA UnderwayDone ==
  ASSUME NEW r, NEW o, NEW cmds, Underway(r, o, << >>, cmds)
  PROVE  \A c \in cmds : r[c.key] = c.value /\ c.key \notin o
<1>1. ~\E i \in 1 .. Len(<< >>) : TRUE
  OBVIOUS
<1>. QED  BY <1>1 DEF Underway

LEMMA SetDone ==
  ASSUME NEW r, NEW o, NEW w, NEW t, Underway(r, o, << >>, SetOf(w, t))
  PROVE  /\ r[UserKey(AccountOf(w))] = t /\ r[DbKey(t)] = w.db
         /\ r[RolesKey(t)] = w.roles /\ r[TokenKey(t)] = w.user
         /\ UserKey(AccountOf(w)) \notin o
<1> DEFINE k1 == UserKey(AccountOf(w))
<1>1. /\ Set(k1, t) \in SetOf(w, t) /\ Set(DbKey(t), w.db) \in SetOf(w, t)
      /\ Set(RolesKey(t), w.roles) \in SetOf(w, t) /\ Set(TokenKey(t), w.user) \in SetOf(w, t)
  BY DEF SetOf
<1> HIDE DEF k1
<1>2. \A k, v : Set(k, v).key = k /\ Set(k, v).value = v
  BY DEF Set
<1>3. \A c \in SetOf(w, t) : r[c.key] = c.value /\ c.key \notin o
  BY UnderwayDone
<1>4. \A k, v : Set(k, v) \in SetOf(w, t) => r[k] = v /\ k \notin o
  BY <1>2, <1>3
<1>. QED  BY <1>1, <1>4 DEF k1

LEMMA RemoveDone ==
  ASSUME NEW r, NEW o, NEW w, NEW t, Underway(r, o, << >>, RemoveOf(w, t))
  PROVE  r[TokenKey(t)] = None
<1>1. Del(TokenKey(t)) \in RemoveOf(w, t)
  BY DEF RemoveOf
<1>2. Del(TokenKey(t)).key = TokenKey(t) /\ Del(TokenKey(t)).value = None
  BY DEF Del
<1>3. \A c \in RemoveOf(w, t) : r[c.key] = c.value /\ c.key \notin o
  BY UnderwayDone
<1>. QED  BY <1>1, <1>2, <1>3

-----------------------------------------------------------------------------
(* The invariant of requests that come one at a time.                        *)

LEMMA OnlyOne ==
  ASSUME OneAtATime, NEW h \in Handler, Alright(h)'
  PROVE  SInv'
<1>1. \A g \in Handler : g = h
  BY DEF OneAtATime
<1>2. ASSUME NEW g \in Handler
      PROVE  Alright(g)'
  <2>1. g = h
    BY <1>1
  <2>. QED  BY <2>1
<1>. QED  BY <1>2 DEF SInv

LEMMA InitSInv == Init => SInv
<1>. SUFFICES ASSUME Init, NEW h \in Handler
              PROVE  Alright(h)
  BY DEF SInv
<1>1. pc[h] = "idle" /\ op[h] = "none" /\ todo[h] = << >> /\ granted = {} /\ loggedOut = {}
  BY DEF Init
<1>2. \A x \in Token : ~Live(x)
  BY KeysAreKeys DEF Init, Live
<1>3. Places(h) /\ Past(h) /\ Final(h)
  BY <1>1 DEF Places, Past, Final
<1>4. Reads(h) /\ Sessions(h) /\ Lasts(h)
  BY <1>1, <1>2 DEF Reads, Sessions, Held, Lasts
<1>. QED  BY <1>3, <1>4 DEF Alright

\* What is known of the types of a handler that has learnt everything.
LEMMA LateTypes ==
  ASSUME IInv, NEW h \in Handler
  PROVE  /\ tok[h] \in Token /\ tok[h] # None
         /\ pc[h] \in Late =>
              /\ who[h] \in Identity /\ AccountOf(who[h]) \in Db \X User
              /\ who[h].user \in User /\ who[h].db \in Db /\ who[h].roles \in Roles
              /\ who[h].user # None /\ who[h].db # None /\ who[h].roles # None
<1>1. tok[h] \in Token /\ who[h] \in Identity /\ Known(logins, again, pc[h], tok[h], who[h])
  BY DEF IInv, TypeOK, HandlersKnow
<1>2. tok[h] # None
  BY <1>1, NoneAssumption DEF Token
<1>3. ASSUME pc[h] \in Late
      PROVE  who[h].user \in User /\ who[h].db \in Db /\ who[h].roles \in Roles
  BY <1>1, <1>3 DEF Known, Late
<1>. QED  BY <1>1, <1>2, <1>3, NoneAssumption DEF AccountOf

LEMMA LoginAlright ==
  ASSUME OneAtATime, IInv, SInv, NEW h \in Handler, NEW a \in Account, Login(h, a)
  PROVE  SInv'
<1>1. Alright(h)
  BY DEF SInv
<1>2. /\ pc[h] \in {"idle", "served"} /\ todo[h] = << >>
      /\ pc'[h] = "find" /\ op'[h] = "login" /\ tok'[h] = now /\ who'[h] = IdentityOf(a)
      /\ UNCHANGED <<redis, old, now, todo, granted, loggedOut, lapsed>>
      /\ now \in Token
  BY <1>1 DEF Login, Goto, IInv, TypeOK, Alright, Places
<1>3. /\ logins'[now] = logins[now] \cup {a} /\ \A x \in Token : x # now => logins'[x] = logins[x]
      /\ \A x \in Token : logins[x] \subseteq logins'[x]
      /\ again \subseteq again' /\ (logins[now] # {} => now \in again')
      /\ granted \subseteq Token /\ loggedOut \subseteq Token
  BY DEF Login, IInv, TypeOK
<1>4. Places(h)'
  BY <1>2 DEF Places
<1>5. \A x \in granted \cup loggedOut : x <= now /\ logins[x] # {}
  BY <1>1 DEF Alright, Past
<1>6. Past(h)'
  <2>1. \A x \in granted \cup loggedOut : x <= now /\ logins'[x] # {}
    BY <1>3, <1>5
  <2>2. now <= now /\ logins'[now] # {}
    BY <1>2, <1>3 DEF Token
  <2>3. AccountOf(who'[h]) \in logins'[now]
    BY <1>2, <1>3, IdentityOfAccount
  <2>4. ASSUME NEW x \in granted \ again'
        PROVE  x < now
    <3>1. x <= now /\ x # now
      BY <1>3, <1>5
    <3>2. x \in Token /\ now \in Token
      BY DEF IInv, TypeOK
    <3>3. Token \subseteq Int
      BY DEF Token
    <3>4. \A i, j \in Int : i <= j /\ i # j => i < j
      OBVIOUS
    <3>. QED  BY <3>1, <3>2, <3>3, <3>4, Zenon
  <2>. QED  BY <1>2, <2>1, <2>2, <2>3, <2>4 DEF Past
<1>7. Final(h)'
  <2>1. \A x \in loggedOut \ again : ~Live(x)
    BY <1>1 DEF Alright, Final
  <2>2. \A x \in loggedOut \ again' : now # x
    BY <1>3, <1>5
  <2>. QED  BY <1>2, <1>3, <2>1, <2>2 DEF Final, Live
<1>8. ASSUME ~lapsed
      PROVE  Reads(h)' /\ Sessions(h)' /\ Lasts(h)'
  <2>1. Sessions(h) /\ Lasts(h)
    BY <1>1, <1>8 DEF Alright
  <2>2. Reads(h)'
    BY <1>2 DEF Reads
  <2>3. Sessions(h)'
    BY <1>2, <2>1 DEF Sessions, Held, Live, Holder
  <2>4. ASSUME NEW x \in granted \ (again' \cup loggedOut), NEW b \in logins'[x]
        PROVE  (\E y \in Token : y > x /\ b \in logins'[y]) \/ Live(x)
    <3>1. x # now /\ b \in logins[x] /\ x \notin again
      BY <1>3, <1>5
    <3>2. (\E y \in Token : y > x /\ b \in logins[y]) \/ Live(x)
      BY <1>2, <2>1, <3>1 DEF Lasts
    <3>. QED  BY <1>3, <3>2
  <2>5. Lasts(h)'
    BY <1>2, <2>4 DEF Lasts, Live
  <2>. QED  BY <2>2, <2>3, <2>5
<1>9. Alright(h)'
  BY <1>2, <1>4, <1>6, <1>7, <1>8 DEF Alright
<1>. QED  BY <1>9, OnlyOne

LEMMA RequestAlright ==
  ASSUME OneAtATime, IInv, SInv, NEW h \in Handler, NEW t \in granted, NEW o \in Purpose, Request(h, t, o)
  PROVE  SInv'
<1>1. Alright(h)
  BY DEF SInv
<1>2. /\ pc[h] \in {"idle", "served"} /\ todo[h] = << >>
      /\ pc'[h] = "getUserID" /\ op'[h] = o /\ tok'[h] = t
      /\ UNCHANGED <<redis, old, now, todo, history>> /\ o # "login"
  BY <1>1, FaultsAssumption DEF Request, Goto, IInv, TypeOK, Alright, Places
<1>3. Places(h)'
  BY <1>2 DEF Places
<1>4. Past(h)' /\ Final(h)'
  BY <1>1, <1>2 DEF Alright, Past, Final, AtWork, Live, history
<1>5. ASSUME ~lapsed
      PROVE  Reads(h)' /\ Sessions(h)' /\ Lasts(h)'
  BY <1>1, <1>2, <1>5 DEF Alright, Reads, Sessions, Held, Live, Holder, Lasts, history
<1>6. Alright(h)'
  BY <1>2, <1>3, <1>4, <1>5 DEF Alright, history
<1>. QED  BY <1>6, OnlyOne

\* A request that ends leaves nothing behind.
LEMMA FinishAlright ==
  ASSUME OneAtATime, IInv, NEW h \in Handler, Finish(h), todo[h] = << >>,
         UNCHANGED <<redis, old, now, todo, logins, again, lapsed>>,
         \A x \in granted' \cup loggedOut' : x <= now /\ logins[x] # {},
         \A x \in loggedOut' \ again : ~Live(x),
         ~lapsed =>
           /\ \A x \in Token : Held(x)
           /\ \A x \in granted' \ (again \cup loggedOut') : \A a \in logins[x] :
                Live(x) \/ \E y \in Token : y > x /\ a \in logins[y]
  PROVE  SInv'
<1>1. pc'[h] = "idle" /\ op'[h] = "none" /\ todo'[h] = << >>
  BY DEF Finish, Goto, IInv, TypeOK
<1>2. Places(h)'
  BY <1>1 DEF Places
<1>3. Past(h)'
  BY <1>1 DEF Past
<1>4. Final(h)'
  BY <1>1 DEF Final, Live, AtWork
<1>5. ASSUME ~lapsed
      PROVE  Reads(h)' /\ Sessions(h)' /\ Lasts(h)'
  <2>1. Reads(h)'
    BY <1>1 DEF Reads
  <2>2. Sessions(h)'
    BY <1>1, <1>5 DEF Sessions, Held, Live, Holder
  <2>3. Lasts(h)'
    BY <1>5 DEF Lasts, Live
  <2>. QED  BY <2>1, <2>2, <2>3
<1>6. Alright(h)'
  BY <1>2, <1>3, <1>4, <1>5 DEF Alright
<1>. QED  BY <1>6, OnlyOne

\* A request that goes nowhere.
LEMMA GiveUpAlright ==
  ASSUME OneAtATime, IInv, SInv, NEW h \in Handler, Finish(h), todo[h] = << >>,
         UNCHANGED <<redis, old, now, todo, history>>, pc[h] \notin {"set", "remove"}
  PROVE  SInv'
<1>1. Alright(h)
  BY DEF SInv
<1>2. \A x \in granted' \cup loggedOut' : x <= now /\ logins[x] # {}
  BY <1>1 DEF Alright, Past, history
<1>3. \A x \in loggedOut' \ again : ~Live(x)
  BY <1>1 DEF Alright, Final, history
<1>4. ASSUME ~lapsed
      PROVE  /\ \A x \in Token : Held(x)
             /\ \A x \in granted' \ (again \cup loggedOut') : \A a \in logins[x] :
                  Live(x) \/ \E y \in Token : y > x /\ a \in logins[y]
  BY <1>1, <1>4 DEF Alright, Sessions, Lasts, history
<1>. QED  BY <1>2, <1>3, <1>4, FinishAlright DEF history

\* A request that goes on, while Redis and the history stay as they are.
Goes(h, q) ==
  /\ pc' = [pc EXCEPT ![h] = q] /\ q \in PC
  /\ UNCHANGED <<redis, old, now, op, tok, history>>

\* What does not depend on where the handler is.
LEMMA GoesPast ==
  ASSUME IInv, NEW h \in Handler, NEW q, Goes(h, q), Past(h), Final(h), pc[h] # "idle",
         who' = who \/ op[h] # "login",
         q \in {"find", "remove"} => op[h] \in {"login", "logout"},
         op[h] = "login" => q \in {"find", "remove", "set"},
         tok[h] \notin loggedOut \ again
  PROVE  Past(h)' /\ Final(h)'
<1>1. /\ pc'[h] = q /\ op'[h] = op[h] /\ tok'[h] = tok[h]
      /\ UNCHANGED <<redis, old, now, history>>
  BY DEF Goes, IInv, TypeOK
<1>2. op[h] = "login" => who'[h] = who[h]
  OBVIOUS
<1>3. Past(h)'
  BY <1>1, <1>2 DEF Past, history
<1>4. Final(h)'
  BY <1>1 DEF Final, Live, history
<1>. QED  BY <1>3, <1>4

\* The three reads.
LEMMA ReadAlright ==
  ASSUME OneAtATime, IInv, SInv, NEW h \in Handler,
         GetUserID(h) \/ GetAppDB(h) \/ GetUserRoles(h)
  PROVE  SInv'
<1>1. Alright(h) /\ tok[h] \in Token
  BY DEF SInv, IInv, TypeOK
<1>2. /\ pc[h] \in {"getUserID", "getAppDB", "getUserRoles"} /\ todo[h] = << >>
      /\ UNCHANGED <<redis, old, now, todo, history>>
  BY <1>1 DEF GetUserID, GetAppDB, GetUserRoles, Read, Alright, Places
<1>3. CASE Finish(h)
  BY <1>2, <1>3, GiveUpAlright
<1>4. CASE ~Finish(h)
  <2>1. PICK key, field, q, v :
          /\ Learn(h, field, v) /\ v = redis[key] /\ v # None
          /\ pc' = [pc EXCEPT ![h] = q] /\ UNCHANGED <<op, tok>>
          /\ \/ pc[h] = "getUserID" /\ key = TokenKey(tok[h]) /\ field = "user" /\ q = "getAppDB"
             \/ pc[h] = "getAppDB" /\ key = DbKey(tok[h]) /\ field = "db" /\ q = "getUserRoles"
             \/ pc[h] = "getUserRoles" /\ key = RolesKey(tok[h]) /\ field = "roles" /\ q = "getTTL"
    BY <1>4 DEF GetUserID, GetAppDB, GetUserRoles, Read, Answers, OneAtATime, Goto
  <2>2. Goes(h, q) /\ pc'[h] = q /\ todo'[h] = << >> /\ op'[h] = op[h] /\ tok'[h] = tok[h]
    BY <1>2, <2>1 DEF Goes, PC, IInv, TypeOK, history
  <2>3. who' = [who EXCEPT ![h] = [who[h] EXCEPT ![field] = v]]
    BY <2>1 DEF Learn
  <2>4. who[h] \in Identity
    BY DEF IInv, TypeOK
  <2>5. /\ field = "user" => who'[h].user = v
        /\ field = "db" => who'[h].db = v /\ who'[h].user = who[h].user
        /\ field = "roles" =>
             who'[h].roles = v /\ who'[h].user = who[h].user /\ who'[h].db = who[h].db
    BY <2>1, <2>3, <2>4 DEF IInv, TypeOK, Identity
  <2>6. Places(h)'
    BY <2>1, <2>2 DEF Places
  <2>7. Past(h)' /\ Final(h)'
    <3>1. tok[h] \notin loggedOut \ again
      BY <1>1, <1>2, <2>1 DEF Alright, Final, AtWork, Live
    <3>2. op[h] # "login"
      BY <1>1, <1>2 DEF Alright, Past
    <3>. QED  BY <1>1, <1>2, <2>1, <2>2, <3>1, <3>2, GoesPast DEF Alright
  <2>8. ASSUME ~lapsed
        PROVE  Reads(h)' /\ Sessions(h)' /\ Lasts(h)'
    <3>1. Reads(h)'
      BY <1>1, <1>2, <2>1, <2>2, <2>5, <2>8 DEF Alright, Reads, Live
    <3>2. Sessions(h)' /\ Lasts(h)'
      BY <1>1, <1>2, <2>1, <2>2, <2>8 DEF Alright, Sessions, Lasts, Held, Live, Holder, history
    <3>. QED  BY <3>1, <3>2
  <2>9. Alright(h)'
    BY <1>2, <2>6, <2>7, <2>8 DEF Alright, history
  <2>. QED  BY <2>9, OnlyOne
<1>. QED  BY <1>3, <1>4

LEMMA GetTokenTTLAlright ==
  ASSUME OneAtATime, IInv, SInv, NEW h \in Handler, GetTokenTTL(h)
  PROVE  SInv'
<1>1. Alright(h) /\ tok[h] \in Token
  BY DEF SInv, IInv, TypeOK
<1>2. /\ pc[h] = "getTTL" /\ todo[h] = << >> /\ Goes(h, "refresh")
      /\ pc'[h] = "refresh" /\ tok'[h] = tok[h] /\ who'[h] = who[h] /\ op'[h] = op[h]
      /\ UNCHANGED <<redis, old, now, op, tok, who, history>>
  BY <1>1 DEF GetTokenTTL, Goto, Goes, PC, IInv, TypeOK, Alright, Places, history
<1>3. \/ redis[TokenKey(tok[h])] = None /\ todo'[h] = << >>
      \/ todo'[h] = SetCache(who[h], tok[h])
  BY <1>1 DEF GetTokenTTL, Answers, OneAtATime, IInv, TypeOK
<1>4. Places(h)'
  <2>1. CASE redis[TokenKey(tok[h])] = None /\ todo'[h] = << >>
    <3>1. ~Live(tok[h]) /\ lapsed
      BY <1>1, <1>2, <2>1 DEF Alright, Reads, Live
    <3>2. Gone(h)'
      BY <1>2, <3>1 DEF Gone, Live, history
    <3>. QED  BY <1>2, <2>1, <3>2 DEF Places
  <2>2. CASE todo'[h] = SetCache(who[h], tok[h])
    <3>1. Underway(redis', old', SetCache(who[h], tok[h]), SetOf(who[h], tok[h]))
      BY SetUnderway
    <3>2. Setting(h)'
      BY <1>2, <2>2, <3>1 DEF Setting
    <3>. QED  BY <1>2, <3>2 DEF Places
  <2>. QED  BY <1>3, <2>1, <2>2
<1>5. Past(h)' /\ Final(h)'
  <2>1. tok[h] \notin loggedOut \ again /\ op[h] # "login"
    BY <1>1, <1>2 DEF Alright, Final, Past, AtWork
  <2>. QED  BY <1>1, <1>2, <2>1, GoesPast DEF Alright
<1>6. ASSUME ~lapsed
      PROVE  Reads(h)' /\ Sessions(h)' /\ Lasts(h)'
  BY <1>1, <1>2, <1>6 DEF Alright, Reads, Sessions, Lasts, Held, Live, Holder, history
<1>7. Alright(h)'
  BY <1>2, <1>4, <1>5, <1>6 DEF Alright, history
<1>. QED  BY <1>7, OnlyOne

LEMMA AuthenticatedAlright ==
  ASSUME OneAtATime, IInv, SInv, NEW h \in Handler, Authenticated(h)
  PROVE  SInv'
<1>1. Alright(h) /\ tok[h] \in Token
  BY DEF SInv, IInv, TypeOK
<1>2. pc[h] = "refresh" /\ todo[h] = << >> /\ UNCHANGED <<redis, old, now, todo, history>>
  BY DEF Authenticated
<1>3. CASE Finish(h)
  BY <1>2, <1>3, GiveUpAlright
<1>4. CASE ~Finish(h)
  <2>1. PICK q \in {"served", "find"} :
          /\ pc' = [pc EXCEPT ![h] = q] /\ UNCHANGED <<op, tok, who>>
          /\ op[h] = IF q = "find" THEN "logout" ELSE "call"
    BY <1>4 DEF Authenticated, Goto
  <2>2. /\ Goes(h, q) /\ pc'[h] = q /\ todo'[h] = << >> /\ op'[h] = op[h] /\ tok'[h] = tok[h]
        /\ who'[h] = who[h]
    BY <1>2, <2>1 DEF Goes, PC, IInv, TypeOK, history
  <2>3. Places(h)'
    <3>1. ASSUME q = "find"
          PROVE  \/ Gone(h)'
                 \/ /\ redis'[UserKey(AccountOf(who'[h]))] = tok'[h]
                    /\ UserKey(AccountOf(who'[h])) \notin old'
      <4>1. CASE Gone(h)
        BY <1>2, <2>2, <4>1 DEF Gone, Live, history
      <4>2. CASE Setting(h)
        <5>1. Underway(redis, old, << >>, SetOf(who[h], tok[h]))
          BY <1>2, <4>2 DEF Setting
        <5>2. redis[UserKey(AccountOf(who[h]))] = tok[h] /\ UserKey(AccountOf(who[h])) \notin old
          BY <5>1, SetDone
        <5>. QED  BY <1>2, <2>2, <5>2
      <4>. QED  BY <1>1, <1>2, <4>1, <4>2 DEF Alright, Places
    <3>. QED  BY <2>1, <2>2, <3>1 DEF Places
  <2>4. Past(h)' /\ Final(h)'
    <3>1. tok[h] \notin loggedOut \ again
      BY <1>1, <1>2 DEF Alright, Final, AtWork
    <3>. QED  BY <1>1, <1>2, <2>1, <2>2, <3>1, GoesPast DEF Alright
  <2>5. ASSUME ~lapsed
        PROVE  Reads(h)' /\ Sessions(h)' /\ Lasts(h)'
    BY <1>1, <1>2, <2>1, <2>2, <2>5 DEF Alright, Reads, Sessions, Lasts, Held, Live, Holder, history
  <2>6. Alright(h)'
    BY <1>2, <2>3, <2>4, <2>5 DEF Alright, history
  <2>. QED  BY <2>6, OnlyOne
<1>. QED  BY <1>3, <1>4

\* The account of a handler is registered with every live token it holds, so
\* the token that is registered is the only one.
LEMMA FindTokenAlright ==
  ASSUME OneAtATime, IInv, SInv, NEW h \in Handler, FindToken(h)
  PROVE  SInv'
<1>. PICK a, s : a = AccountOf(who[h]) /\ s = redis[UserKey(a)]
  OBVIOUS
<1>1. Alright(h) /\ tok[h] \in Token /\ tok[h] # None
  BY LateTypes DEF SInv
<1>2. /\ pc[h] = "find" /\ Goes(h, "remove")
      /\ pc'[h] = "remove" /\ tok'[h] = tok[h] /\ who'[h] = who[h] /\ op'[h] = op[h]
      /\ UNCHANGED <<redis, old, now, op, tok, who, history>>
      /\ todo'[h] = IF s = None THEN << >> ELSE RemoveCache(who[h], s)
      /\ op[h] \in {"login", "logout"}
  BY <1>1 DEF FindToken, Answers, OneAtATime, Goto, Goes, PC, IInv, TypeOK, history, Alright, Past
<1>3. s # None => s \in Token
  <2>1. a \in Db \X User
    BY <1>2, LateTypes DEF Late
  <2>2. Fits(logins, again, UserKey(a), s)
    BY <2>1, KeysAreKeys DEF IInv, RedisFits
  <2>. QED  BY <2>1, <2>2 DEF Fits
<1>4. s # None => Removing(h, s)'
  BY <1>2, RemoveUnderway DEF Removing
<1>5. op[h] = "logout" => Gone(h) \/ s = tok[h]
  BY <1>1, <1>2 DEF Alright, Places
<1>6. Gone(h)' <=> Gone(h)
  BY <1>2 DEF Gone, Live, history
<1>7. redis'[UserKey(AccountOf(who'[h]))] = s
  BY <1>2
<1>8. Places(h)'
  <2>1. CASE s = None
    BY <1>1, <1>2, <1>5, <1>6, <1>7, <2>1 DEF Places
  <2>2. CASE s # None
    BY <1>2, <1>3, <1>4, <1>5, <1>6, <2>2 DEF Places
  <2>. QED  BY <2>1, <2>2
<1>9. Past(h)' /\ Final(h)'
  <2>1. tok[h] \notin loggedOut \ again
    BY <1>1, <1>2 DEF Alright, Final, AtWork
  <2>. QED  BY <1>1, <1>2, <2>1, GoesPast DEF Alright
<1>10. ASSUME ~lapsed
       PROVE  Reads(h)' /\ Sessions(h)' /\ Lasts(h)'
  <2>1. Reads(h)' /\ Lasts(h)'
    BY <1>1, <1>2, <1>10 DEF Alright, Reads, Lasts, Live, history
  <2>2. \A x \in Token : Held(x)
    BY <1>1, <1>2, <1>10 DEF Alright, Sessions
  <2>3. \A x \in Token : Live(x) /\ Holder(x) = a => x = s
    BY <2>2 DEF Held
  <2>4. \A x \in Token : x # None
    BY NoneAssumption DEF Token
  <2>5. op[h] = "logout" => s = tok[h]
    BY <1>5, <1>10 DEF Gone
  <2>6. \A x \in Token : (Live(x)' <=> Live(x)) /\ Holder(x)' = Holder(x) /\ (Held(x)' <=> Held(x))
    BY <1>2 DEF Live, Holder, Held
  <2>7. AccountOf(who[h])' = a
    BY <1>2 DEF AccountOf
  <2>8. /\ \A x \in Token : Held(x)'
        /\ \A x \in Token : Live(x)' /\ Holder(x)' = a => x = s
    BY <2>2, <2>3, <2>6
  <2>9. CASE s = None
    <3>1. \A x \in Token : Live(x)' => Holder(x)' # a
      BY <2>4, <2>8, <2>9
    <3>2. todo'[h] = << >>
      BY <1>2, <2>9
    <3>3. op[h] # "logout"
      BY <1>1, <2>5, <2>9
    <3>4. op'[h] = "login"
      BY <1>2, <3>3
    <3>. QED  BY <1>2, <2>1, <2>7, <2>8, <3>1, <3>2, <3>4 DEF Sessions
  <2>10. CASE s # None
    <3>1. Alone(AccountOf(who[h]), s)'
      BY <2>7, <2>8 DEF Alone
    <3>2. s \in Token /\ Removing(h, s)' /\ \A x \in Token \ {s} : Held(x)'
      BY <1>3, <1>4, <2>8, <2>10
    <3>3. op'[h] = "logout" => s = tok'[h]
      BY <1>2, <2>5
    <3>. QED  BY <1>2, <2>1, <3>1, <3>2, <3>3 DEF Sessions
  <2>. QED  BY <2>1, <2>9, <2>10
<1>11. Alright(h)'
  BY <1>2, <1>8, <1>9, <1>10 DEF Alright, history
<1>. QED  BY <1>11, OnlyOne

LEMMA StartSetAlright ==
  ASSUME OneAtATime, IInv, SInv, NEW h \in Handler, StartSet(h)
  PROVE  SInv'
<1>1. Alright(h) /\ tok[h] \in Token
  BY LateTypes DEF SInv
<1>2. /\ pc[h] = "remove" /\ op[h] = "login" /\ todo[h] = << >> /\ Goes(h, "set")
      /\ pc'[h] = "set" /\ tok'[h] = tok[h] /\ who'[h] = who[h] /\ op'[h] = op[h]
      /\ UNCHANGED <<redis, old, now, op, tok, who, history>>
      /\ todo'[h] = SetCache(who[h], tok[h])
  BY DEF StartSet, Goto, Goes, PC, IInv, TypeOK, history
<1>3. Underway(redis', old', SetCache(who[h], tok[h]), SetOf(who[h], tok[h]))
  BY SetUnderway
<1>4. Setting(h)'
  BY <1>2, <1>3 DEF Setting
<1>5. Places(h)'
  BY <1>2, <1>4 DEF Places
<1>6. Past(h)' /\ Final(h)'
  <2>1. tok[h] \notin loggedOut \ again
    BY <1>1, <1>2 DEF Alright, Final, AtWork
  <2>. QED  BY <1>1, <1>2, <2>1, GoesPast DEF Alright
<1>7. ASSUME ~lapsed
      PROVE  Reads(h)' /\ Sessions(h)' /\ Lasts(h)'
  <2>1. Reads(h)' /\ Lasts(h)'
    BY <1>1, <1>2, <1>7 DEF Alright, Reads, Lasts, Live, history
  <2>2. (\A x \in Token : Held(x)) /\ \A x \in Token : Live(x) => Holder(x) # AccountOf(who[h])
    <3>1. ASSUME NEW s \in Token, Removing(h, s), \A x \in Token \ {s} : Held(x),
                 Alone(AccountOf(who[h]), s)
          PROVE  (\A x \in Token : Held(x)) /\ \A x \in Token : Live(x) => Holder(x) # AccountOf(who[h])
      <4>1. ~Live(s)
        BY <1>2, <3>1, RemoveDone DEF Removing, Live
      <4>2. Held(s)
        BY <4>1 DEF Held
      <4>. QED  BY <3>1, <4>1, <4>2 DEF Alone
    <3>. QED  BY <1>1, <1>2, <1>7, <3>1 DEF Alright, Sessions
  <2>3. \A x \in Token : (Live(x)' <=> Live(x)) /\ Holder(x)' = Holder(x) /\ (Held(x)' <=> Held(x))
    BY <1>2 DEF Live, Holder, Held
  <2>4. AccountOf(who[h])' = AccountOf(who[h])
    BY <1>2 DEF AccountOf
  <2>5. (\A x \in Token : Held(x)') /\ \A x \in Token : Live(x)' => Holder(x)' # AccountOf(who[h])'
    BY <2>2, <2>3, <2>4
  <2>6. Sessions(h)'
    BY <1>2, <2>5 DEF Sessions, Alone
  <2>. QED  BY <2>1, <2>6
<1>8. Alright(h)'
  BY <1>2, <1>5, <1>6, <1>7 DEF Alright, history
<1>. QED  BY <1>8, OnlyOne

LEMMA LoginDoneAlright ==
  ASSUME OneAtATime, IInv, SInv, NEW h \in Handler, LoginDone(h)
  PROVE  SInv'
<1>1. Alright(h) /\ tok[h] \in Token
  BY LateTypes DEF SInv
<1>2. /\ pc[h] = "set" /\ todo[h] = << >> /\ Finish(h) /\ granted' = granted \cup {tok[h]}
      /\ UNCHANGED <<redis, old, now, todo, logins, again, loggedOut, lapsed>>
  BY DEF LoginDone
<1>3. /\ redis[UserKey(AccountOf(who[h]))] = tok[h] /\ redis[DbKey(tok[h])] = who[h].db
      /\ redis[RolesKey(tok[h])] = who[h].roles /\ redis[TokenKey(tok[h])] = who[h].user
  <2>1. Underway(redis, old, << >>, SetOf(who[h], tok[h]))
    BY <1>1, <1>2 DEF Alright, Places, Setting
  <2>. QED  BY <2>1, SetDone
<1>4. Live(tok[h]) /\ Held(tok[h])
  <2>1. who[h].user # None /\ who[h].db # None /\ who[h].roles # None
    BY <1>2, LateTypes DEF Late
  <2>. QED  BY <1>3, <2>1 DEF Live, Held, Holder, AccountOf
<1>5. \A x \in granted' \cup loggedOut' : x <= now /\ logins[x] # {}
  BY <1>1, <1>2 DEF Alright, Past
<1>6. \A x \in loggedOut' \ again : ~Live(x)
  BY <1>1, <1>2 DEF Alright, Final
<1>7. ASSUME ~lapsed
      PROVE  /\ \A x \in Token : Held(x)
             /\ \A x \in granted' \ (again \cup loggedOut') : \A a \in logins[x] :
                  Live(x) \/ \E y \in Token : y > x /\ a \in logins[y]
  <2>1. \A x \in Token : Held(x)
    BY <1>1, <1>2, <1>4, <1>7 DEF Alright, Sessions
  <2>2. ASSUME NEW x \in granted' \ (again \cup loggedOut'), NEW a \in logins[x]
        PROVE  Live(x) \/ \E y \in Token : y > x /\ a \in logins[y]
    BY <1>1, <1>2, <1>4, <1>7 DEF Alright, Lasts
  <2>. QED  BY <2>1, <2>2
<1>. QED  BY <1>2, <1>5, <1>6, <1>7, FinishAlright

LEMMA LogoutDoneAlright ==
  ASSUME OneAtATime, IInv, SInv, NEW h \in Handler, LogoutDone(h)
  PROVE  SInv'
<1>1. Alright(h) /\ tok[h] \in Token
  BY LateTypes DEF SInv
<1>2. /\ pc[h] = "remove" /\ op[h] = "logout" /\ todo[h] = << >> /\ Finish(h)
      /\ loggedOut' = loggedOut \cup {tok[h]}
      /\ UNCHANGED <<redis, old, now, todo, logins, again, granted, lapsed>>
  BY DEF LogoutDone
<1>3. \A s \in Token : Removing(h, s) => ~Live(s)
  BY <1>2, RemoveDone DEF Removing, Live
<1>4. ~Live(tok[h])
  BY <1>1, <1>2, <1>3 DEF Alright, Places, Gone
<1>5. \A x \in granted' \cup loggedOut' : x <= now /\ logins[x] # {}
  BY <1>1, <1>2 DEF Alright, Past
<1>6. \A x \in loggedOut' \ again : ~Live(x)
  BY <1>1, <1>2, <1>4 DEF Alright, Final
<1>7. ASSUME ~lapsed
      PROVE  /\ \A x \in Token : Held(x)
             /\ \A x \in granted' \ (again \cup loggedOut') : \A a \in logins[x] :
                  Live(x) \/ \E y \in Token : y > x /\ a \in logins[y]
  <2>1. \A x \in Token \ {tok[h]} : Held(x)
    BY <1>1, <1>2, <1>7 DEF Alright, Sessions
  <2>2. \A x \in Token : Held(x)
    BY <1>4, <2>1 DEF Held
  <2>3. ASSUME NEW x \in granted' \ (again \cup loggedOut'), NEW a \in logins[x]
        PROVE  Live(x) \/ \E y \in Token : y > x /\ a \in logins[y]
    BY <1>1, <1>2, <1>7 DEF Alright, Lasts
  <2>. QED  BY <2>2, <2>3
<1>. QED  BY <1>2, <1>5, <1>6, <1>7, FinishAlright

\* A command of SetCache touches the keys of the account and of the token.
LEMMA SendSet ==
  ASSUME NEW r \in [Key -> Value], NEW w, AccountOf(w) \in Db \X User, NEW t \in Token,
         NEW c \in SetOf(w, t), NEW r2, r2 = [r EXCEPT ![c.key] = c.value]
  PROVE  /\ \A x \in Token \ {t} : /\ r2[TokenKey(x)] = r[TokenKey(x)]
                                   /\ r2[DbKey(x)] = r[DbKey(x)] /\ r2[RolesKey(x)] = r[RolesKey(x)]
         /\ \A a \in (Db \X User) \ {AccountOf(w)} : r2[UserKey(a)] = r[UserKey(a)]
         /\ r2[TokenKey(t)] \in {r[TokenKey(t)], w.user}
<1> DEFINE k1 == UserKey(AccountOf(w))
<1>1. /\ c.key \in {k1, DbKey(t), RolesKey(t), TokenKey(t)}
      /\ c.key = TokenKey(t) => c.value = w.user
  BY KeysDiffer DEF SetOf, Set
<1>2. \A k \in Key : r2[k] = IF k = c.key THEN c.value ELSE r[k]
  OBVIOUS
<1>3. ASSUME NEW x \in Token \ {t}
      PROVE  TokenKey(x) # c.key /\ DbKey(x) # c.key /\ RolesKey(x) # c.key
  BY <1>1, KeysDiffer
<1>4. ASSUME NEW a \in (Db \X User) \ {AccountOf(w)}
      PROVE  UserKey(a) # c.key
  BY <1>1, KeysDiffer
<1>. QED  BY <1>1, <1>2, <1>3, <1>4, KeysAreKeys

\* So does a command of RemoveCache, and it deletes.
LEMMA SendRemove ==
  ASSUME NEW r \in [Key -> Value], NEW w, AccountOf(w) \in Db \X User, NEW t \in Token,
         NEW c \in RemoveOf(w, t), NEW r2, r2 = [r EXCEPT ![c.key] = c.value]
  PROVE  /\ \A x \in Token \ {t} : /\ r2[TokenKey(x)] = r[TokenKey(x)]
                                   /\ r2[DbKey(x)] = r[DbKey(x)] /\ r2[RolesKey(x)] = r[RolesKey(x)]
         /\ \A a \in (Db \X User) \ {AccountOf(w)} : r2[UserKey(a)] = r[UserKey(a)]
         /\ \A k \in Key : r2[k] \in {r[k], None}
         /\ r2[TokenKey(t)] # r[TokenKey(t)] => c.key = TokenKey(t)
<1> DEFINE k1 == UserKey(AccountOf(w))
<1>1. c.key \in {k1, DbKey(t), RolesKey(t), TokenKey(t)} /\ c.value = None
  BY DEF RemoveOf, Del
<1>2. \A k \in Key : r2[k] = IF k = c.key THEN c.value ELSE r[k]
  OBVIOUS
<1>3. ASSUME NEW x \in Token \ {t}
      PROVE  TokenKey(x) # c.key /\ DbKey(x) # c.key /\ RolesKey(x) # c.key
  BY <1>1, KeysDiffer
<1>4. ASSUME NEW a \in (Db \X User) \ {AccountOf(w)}
      PROVE  UserKey(a) # c.key
  BY <1>1, KeysDiffer
<1>. QED  BY <1>1, <1>2, <1>3, <1>4, KeysAreKeys

LEMMA HolderType ==
  ASSUME IInv, NEW x \in Token, Live(x), Held(x)
  PROVE  Holder(x) \in Db \X User
<1>1. redis[TokenKey(x)] # None /\ redis[DbKey(x)] # None
  BY DEF Live, Held
<1>2. Fits(logins, again, TokenKey(x), redis[TokenKey(x)]) /\ Fits(logins, again, DbKey(x), redis[DbKey(x)])
  BY KeysAreKeys DEF IInv, RedisFits
<1>3. redis[TokenKey(x)] \in User /\ redis[DbKey(x)] \in Db
  BY <1>1, <1>2 DEF Fits
<1>. QED  BY <1>3 DEF Holder

\* What a token holds is untouched when only keys of another token and of an
\* account that does not hold it are.
LEMMA HeldStays ==
  ASSUME IInv, NEW x \in Token, Held(x), NEW a, Live(x) => Holder(x) # a,
         redis'[TokenKey(x)] = redis[TokenKey(x)], redis'[DbKey(x)] = redis[DbKey(x)],
         redis'[RolesKey(x)] = redis[RolesKey(x)],
         \A b \in (Db \X User) \ {a} : redis'[UserKey(b)] = redis[UserKey(b)]
  PROVE  Held(x)' /\ (Live(x)' => Holder(x)' # a) /\ (Live(x)' <=> Live(x))
<1>1. (Live(x)' <=> Live(x)) /\ Holder(x)' = Holder(x)
  BY DEF Live, Holder
<1>2. CASE Live(x)
  <2>1. Holder(x) \in (Db \X User) \ {a}
    BY <1>2, HolderType
  <2>2. redis'[UserKey(Holder(x))] = redis[UserKey(Holder(x))]
    BY <2>1
  <2>3. redis'[UserKey(Holder(x)')] = x /\ redis'[DbKey(x)] # None /\ redis'[RolesKey(x)] # None
    BY <1>1, <1>2, <2>2 DEF Held
  <2>4. Held(x)'
    BY <2>3, Zenon DEF Held
  <2>. QED  BY <1>1, <2>1, <2>4
<1>3. CASE ~Live(x)
  BY <1>1, <1>3 DEF Held
<1>. QED  BY <1>2, <1>3

\* A handler sends a command, what it works on stays.
LEMMA SendFacts ==
  ASSUME OneAtATime, IInv, NEW h \in Handler, Alright(h), Execute(h)
  PROVE  /\ todo[h] # << >> /\ todo[h] \in Seq(Command) /\ todo'[h] = Tail(todo[h])
         /\ redis' = [redis EXCEPT ![Head(todo[h]).key] = Head(todo[h]).value]
         /\ old' = old \ {Head(todo[h]).key} /\ redis \in [Key -> Value]
         /\ UNCHANGED <<pc, op, tok, who, now, history>>
         /\ pc[h] \in {"refresh", "remove", "set"} /\ pc[h] \in Late /\ Past(h)'
<1>1. /\ todo[h] # << >>
      /\ redis' = [redis EXCEPT ![Head(todo[h]).key] = Head(todo[h]).value]
      /\ old' = old \ {Head(todo[h]).key}
      /\ todo' = [todo EXCEPT ![h] = Tail(@)]
      /\ UNCHANGED <<pc, op, tok, who, now, history>>
  BY DEF Execute, OneAtATime
<1>2. pc[h] \in {"refresh", "remove", "set"} /\ Past(h)
  BY <1>1 DEF Alright, Places
<1>3. Past(h)'
  BY <1>1, <1>2 DEF Past, history
<1>. QED  BY <1>1, <1>2, <1>3 DEF IInv, TypeOK, Late

\* A renewal writes what is there already.
LEMMA RefreshAlright ==
  ASSUME OneAtATime, IInv, SInv, NEW h \in Handler, Execute(h), pc[h] = "refresh"
  PROVE  SInv'
<1>. PICK w, t, c : w = who[h] /\ t = tok[h] /\ c = Head(todo[h])
  OBVIOUS
<1>1. Alright(h) /\ t \in Token
  BY LateTypes DEF SInv
<1>2. /\ todo[h] # << >> /\ todo[h] \in Seq(Command) /\ todo'[h] = Tail(todo[h])
      /\ redis' = [redis EXCEPT ![c.key] = c.value]
      /\ old' = old \ {c.key} /\ redis \in [Key -> Value]
      /\ UNCHANGED <<pc, op, tok, who, now, history>> /\ pc[h] \in Late /\ Past(h)'
  BY <1>1, SendFacts
<1>3. /\ w \in Identity /\ AccountOf(w) \in Db \X User
      /\ w.user \in User /\ w.db \in Db /\ w.roles \in Roles
  BY <1>2, LateTypes
<1>4. SetOf(w, t) \subseteq Command /\ Distinct(SetOf(w, t))
  BY <1>1, <1>3, SetOfCommands
<1>5. Underway(redis, old, todo[h], SetOf(w, t))
  BY <1>1, <1>2 DEF Alright, Places, Setting
<1>6. c \in SetOf(w, t) /\ Underway(redis', old', todo'[h], SetOf(w, t))
  <2>1. /\ todo[h] # << >> /\ todo[h] \in Seq(Command) /\ redis \in [Key -> Value]
        /\ c = Head(todo[h]) /\ todo'[h] = Tail(todo[h])
        /\ redis' = [redis EXCEPT ![c.key] = c.value] /\ old' = old \ {c.key}
    BY <1>2
  <2>. PICK cs, ds, r2, o2, cmds :
         cs = todo[h] /\ ds = todo'[h] /\ r2 = redis' /\ o2 = old' /\ cmds = SetOf(w, t)
    OBVIOUS
  <2>2. /\ cs # << >> /\ cs \in Seq(Command) /\ c = Head(cs) /\ ds = Tail(cs)
        /\ r2 = [redis EXCEPT ![c.key] = c.value] /\ o2 = old \ {c.key}
        /\ redis \in [Key -> Value]
    BY <2>1
  <2>3. cmds \subseteq Command /\ Distinct(cmds) /\ Underway(redis, old, cs, cmds)
    BY <1>4, <1>5
  <2>4. c \in cmds /\ Underway(r2, o2, ds, cmds)
    BY <2>2, <2>3, UnderwayStep
  <2>. QED  BY <2>4
<1>7. Setting(h)'
  BY <1>2, <1>6 DEF Setting
<1>8. Places(h)'
  BY <1>2, <1>7 DEF Places
<1>9. /\ \A x \in Token \ {t} : redis'[TokenKey(x)] = redis[TokenKey(x)]
      /\ redis'[TokenKey(t)] \in {redis[TokenKey(t)], w.user}
  BY <1>1, <1>2, <1>3, <1>6, SendSet
<1>10. Final(h)'
  <2>1. t \notin loggedOut \ again /\ loggedOut \subseteq Token
    BY <1>1 DEF Alright, Final, AtWork, IInv, TypeOK
  <2>. QED  BY <1>1, <1>2, <1>9, <2>1 DEF Alright, Final, AtWork, Live, history
<1>11. ASSUME ~lapsed
       PROVE  Reads(h)' /\ Sessions(h)' /\ Lasts(h)'
  <2>1. /\ Live(t) /\ w.user = redis[TokenKey(t)] /\ w.db = redis[DbKey(t)]
        /\ w.roles = redis[RolesKey(t)]
    BY <1>1, <1>11 DEF Alright, Reads
  <2>2. redis[UserKey(AccountOf(w))] = t
    <3>1. Held(t) /\ Holder(t) = AccountOf(w)
      BY <1>1, <1>11, <2>1 DEF Alright, Sessions, Holder, AccountOf
    <3>. QED  BY <2>1, <3>1 DEF Held
  <2>3. c.value = redis[c.key]
    BY <1>6, <2>1, <2>2 DEF SetOf, Set
  <2>4. redis' = redis
    BY <1>2, <2>3
  <2>5. Reads(h)'
    BY <1>1, <1>2, <1>11, <2>4 DEF Alright, Reads, Live
  <2>6. Sessions(h)'
    BY <1>1, <1>2, <1>11, <2>4 DEF Alright, Sessions, Held, Live, Holder
  <2>7. Lasts(h)'
    BY <1>1, <1>2, <1>11, <2>4 DEF Alright, Lasts, Live, history
  <2>. QED  BY <2>5, <2>6, <2>7
<1>12. Alright(h)'
  BY <1>2, <1>8, <1>10, <1>11 DEF Alright, history
<1>. QED  BY <1>12, OnlyOne

\* A login writes the keys of its own token, while no live token is held by
\* its account.
LEMMA SetAlright ==
  ASSUME OneAtATime, IInv, SInv, NEW h \in Handler, Execute(h), pc[h] = "set"
  PROVE  SInv'
<1>. PICK w, t, c : w = who[h] /\ t = tok[h] /\ c = Head(todo[h])
  OBVIOUS
<1>1. Alright(h) /\ t \in Token
  BY LateTypes DEF SInv
<1>2. /\ todo[h] # << >> /\ todo[h] \in Seq(Command) /\ todo'[h] = Tail(todo[h])
      /\ redis' = [redis EXCEPT ![c.key] = c.value]
      /\ old' = old \ {c.key} /\ redis \in [Key -> Value]
      /\ UNCHANGED <<pc, op, tok, who, now, history>> /\ pc[h] \in Late /\ Past(h)'
  BY <1>1, SendFacts
<1>3. /\ w \in Identity /\ AccountOf(w) \in Db \X User
      /\ w.user \in User /\ w.db \in Db /\ w.roles \in Roles /\ w.user # None
  BY <1>2, LateTypes
<1>4. SetOf(w, t) \subseteq Command /\ Distinct(SetOf(w, t))
  BY <1>1, <1>3, SetOfCommands
<1>5. Underway(redis, old, todo[h], SetOf(w, t)) /\ op[h] = "login"
  BY <1>1 DEF Alright, Places, Setting
<1>6. c \in SetOf(w, t) /\ Underway(redis', old', todo'[h], SetOf(w, t))
  <2>1. /\ todo[h] # << >> /\ todo[h] \in Seq(Command) /\ redis \in [Key -> Value]
        /\ c = Head(todo[h]) /\ todo'[h] = Tail(todo[h])
        /\ redis' = [redis EXCEPT ![c.key] = c.value] /\ old' = old \ {c.key}
    BY <1>2
  <2>. PICK cs, ds, r2, o2, cmds :
         cs = todo[h] /\ ds = todo'[h] /\ r2 = redis' /\ o2 = old' /\ cmds = SetOf(w, t)
    OBVIOUS
  <2>2. /\ cs # << >> /\ cs \in Seq(Command) /\ c = Head(cs) /\ ds = Tail(cs)
        /\ r2 = [redis EXCEPT ![c.key] = c.value] /\ o2 = old \ {c.key}
        /\ redis \in [Key -> Value]
    BY <2>1
  <2>3. cmds \subseteq Command /\ Distinct(cmds) /\ Underway(redis, old, cs, cmds)
    BY <1>4, <1>5
  <2>4. c \in cmds /\ Underway(r2, o2, ds, cmds)
    BY <2>2, <2>3, UnderwayStep
  <2>. QED  BY <2>4
<1>7. Setting(h)'
  BY <1>2, <1>6 DEF Setting
<1>8. Places(h)'
  BY <1>2, <1>5, <1>7 DEF Places
<1>9. /\ \A x \in Token \ {t} : /\ redis'[TokenKey(x)] = redis[TokenKey(x)]
                                /\ redis'[DbKey(x)] = redis[DbKey(x)]
                                /\ redis'[RolesKey(x)] = redis[RolesKey(x)]
      /\ \A a \in (Db \X User) \ {AccountOf(w)} : redis'[UserKey(a)] = redis[UserKey(a)]
      /\ redis'[TokenKey(t)] \in {redis[TokenKey(t)], w.user}
  BY <1>1, <1>2, <1>3, <1>6, SendSet
<1>10. Final(h)'
  <2>1. t \notin loggedOut \ again /\ loggedOut \subseteq Token
    BY <1>1 DEF Alright, Final, AtWork, IInv, TypeOK
  <2>. QED  BY <1>1, <1>2, <1>9, <2>1 DEF Alright, Final, AtWork, Live, history
<1>11. ASSUME ~lapsed
       PROVE  Reads(h)' /\ Sessions(h)' /\ Lasts(h)'
  <2>1. Reads(h)'
    BY <1>2 DEF Reads
  <2>2. (\A x \in Token \ {t} : Held(x)) /\ Alone(AccountOf(w), t)
    BY <1>1, <1>11 DEF Alright, Sessions
  <2>3. ASSUME NEW x \in Token \ {t}
        PROVE  Held(x)' /\ (Live(x)' => Holder(x)' # AccountOf(w)) /\ (Live(x)' <=> Live(x))
    <3>1. Held(x) /\ (Live(x) => Holder(x) # AccountOf(w))
      BY <2>2 DEF Alone
    <3>. QED  BY <1>9, <3>1, HeldStays
  <2>4. AccountOf(who[h])' = AccountOf(w) /\ tok'[h] = t /\ pc'[h] = "set"
    BY <1>2 DEF AccountOf
  <2>5. Alone(AccountOf(who[h]), tok[h])'
    BY <2>3, <2>4 DEF Alone
  <2>6. Sessions(h)'
    BY <2>3, <2>4, <2>5 DEF Sessions
  <2>7. \A x \in Token : Live(x) => Live(x)'
    BY <1>3, <1>9 DEF Live
  <2>8. granted \subseteq Token
    BY DEF IInv, TypeOK
  <2>9. Lasts(h)'
    BY <1>1, <1>2, <1>11, <2>7, <2>8 DEF Alright, Lasts, history
  <2>. QED  BY <2>1, <2>6, <2>9
<1>12. Alright(h)'
  BY <1>2, <1>8, <1>10, <1>11 DEF Alright, history
<1>. QED  BY <1>12, OnlyOne

\* A removal deletes keys of the one live token that the account holds.
LEMMA RemoveAlright ==
  ASSUME OneAtATime, IInv, SInv, NEW h \in Handler, Execute(h), pc[h] = "remove"
  PROVE  SInv'
<1>. PICK w, t, c : w = who[h] /\ t = tok[h] /\ c = Head(todo[h])
  OBVIOUS
<1>1. Alright(h) /\ t \in Token
  BY LateTypes DEF SInv
<1>2. /\ todo[h] # << >> /\ todo[h] \in Seq(Command) /\ todo'[h] = Tail(todo[h])
      /\ redis' = [redis EXCEPT ![c.key] = c.value]
      /\ old' = old \ {c.key} /\ redis \in [Key -> Value]
      /\ UNCHANGED <<pc, op, tok, who, now, history>> /\ pc[h] \in Late /\ Past(h)'
  BY <1>1, SendFacts
<1>3. AccountOf(w) \in Db \X User
  BY <1>2, LateTypes
<1>4. ASSUME NEW s \in Token, Removing(h, s)
      PROVE  c \in RemoveOf(w, s) /\ Removing(h, s)'
  <2>1. /\ todo[h] # << >> /\ todo[h] \in Seq(Command) /\ redis \in [Key -> Value]
        /\ c = Head(todo[h]) /\ todo'[h] = Tail(todo[h]) /\ who'[h] = w
        /\ redis' = [redis EXCEPT ![c.key] = c.value] /\ old' = old \ {c.key}
    BY <1>2
  <2>. PICK cs, ds, r2, o2, cmds :
         cs = todo[h] /\ ds = todo'[h] /\ r2 = redis' /\ o2 = old' /\ cmds = RemoveOf(w, s)
    OBVIOUS
  <2>2. /\ cs # << >> /\ cs \in Seq(Command) /\ c = Head(cs) /\ ds = Tail(cs)
        /\ r2 = [redis EXCEPT ![c.key] = c.value] /\ o2 = old \ {c.key}
        /\ redis \in [Key -> Value]
    BY <2>1
  <2>3. cmds \subseteq Command /\ Distinct(cmds) /\ Underway(redis, old, cs, cmds)
    BY <1>3, <1>4, RemoveOfCommands DEF Removing
  <2>4. c \in cmds /\ Underway(r2, o2, ds, cmds)
    BY <2>2, <2>3, UnderwayStep
  <2>. QED  BY <2>1, <2>4 DEF Removing
<1>5. ASSUME NEW s \in Token, Removing(h, s)
      PROVE  /\ \A x \in Token \ {s} : /\ redis'[TokenKey(x)] = redis[TokenKey(x)]
                                       /\ redis'[DbKey(x)] = redis[DbKey(x)]
                                       /\ redis'[RolesKey(x)] = redis[RolesKey(x)]
             /\ \A a \in (Db \X User) \ {AccountOf(w)} : redis'[UserKey(a)] = redis[UserKey(a)]
             /\ \A k \in Key : redis'[k] \in {redis[k], None}
             /\ redis'[TokenKey(s)] # redis[TokenKey(s)] => c.key = TokenKey(s) /\ c.value = None
  <2>1. c \in RemoveOf(w, s)
    BY <1>4, <1>5
  <2>2. c.value = None
    BY <1>3, <2>1, RemoveOfCommands
  <2>. QED  BY <1>2, <1>3, <2>1, <2>2, SendRemove
<1>6. PICK s \in Token : Removing(h, s) /\ (op[h] = "logout" => s = t \/ Gone(h))
  BY <1>1, <1>2 DEF Alright, Places
<1>7. \A x \in Token : Live(x)' => Live(x)
  BY <1>5, <1>6, KeysAreKeys DEF Live
<1>8. Places(h)'
  <2>1. Gone(h) => Gone(h)'
    BY <1>1, <1>2, <1>7 DEF Gone, history
  <2>2. Removing(h, s)' /\ (op'[h] = "logout" => s = tok'[h] \/ Gone(h)')
    BY <1>2, <1>4, <1>6, <2>1
  <2>. QED  BY <1>2, <2>2 DEF Places
<1>9. Final(h)'
  <2>1. loggedOut \subseteq Token
    BY DEF IInv, TypeOK
  <2>. QED  BY <1>1, <1>2, <1>7, <2>1 DEF Alright, Final, history
<1>10. ASSUME ~lapsed
       PROVE  Reads(h)' /\ Sessions(h)' /\ Lasts(h)'
  <2>1. Reads(h)'
    BY <1>2 DEF Reads
  <2>2. PICK z \in Token : /\ Removing(h, z) /\ \A x \in Token \ {z} : Held(x)
                           /\ Alone(AccountOf(w), z) /\ (op[h] = "logout" => z = t)
    BY <1>1, <1>2, <1>10 DEF Alright, Sessions
  <2>3. ASSUME NEW x \in Token \ {z}
        PROVE  Held(x)' /\ (Live(x)' => Holder(x)' # AccountOf(w)) /\ (Live(x)' <=> Live(x))
    <3>1. Held(x) /\ (Live(x) => Holder(x) # AccountOf(w))
      BY <2>2 DEF Alone
    <3>. QED  BY <1>5, <2>2, <3>1, HeldStays
  <2>4. AccountOf(who[h])' = AccountOf(w) /\ tok'[h] = t /\ pc'[h] = "remove" /\ op'[h] = op[h]
    BY <1>2 DEF AccountOf
  <2>5. Sessions(h)'
    <3>1. Alone(AccountOf(who[h]), z)'
      BY <2>3, <2>4 DEF Alone
    <3>2. Removing(h, z)' /\ (op'[h] = "logout" => z = tok'[h])
      BY <1>4, <2>2, <2>4
    <3>3. \A x \in Token \ {z} : Held(x)'
      BY <2>3
    <3>. QED  BY <2>4, <3>1, <3>2, <3>3 DEF Sessions
  <2>6. ASSUME NEW x \in granted \ (again \cup loggedOut), NEW a \in logins[x]
        PROVE  \/ \E y \in Token : y > x /\ a \in logins[y]
               \/ Live(x)' \/ (op[h] = "logout" /\ t = x)
    <3>1. x \in Token \ again
      BY DEF IInv, TypeOK
    <3>2. \/ \E y \in Token : y > x /\ a \in logins[y]
          \/ Live(x) \/ (op[h] = "logout" /\ t = x)
      BY <1>1, <1>10 DEF Alright, Lasts
    <3>3. CASE Live(x) /\ ~Live(x)'
      <4>1. x = z
        BY <2>3, <3>1, <3>3
      <4>2. c.key = TokenKey(x) /\ c.value = None
        BY <1>5, <2>2, <3>3, <4>1 DEF Live
      <4>3. AccountOf(w) \in logins[x]
        <5>1. Commands(logins, again, pc[h], w, todo[h])
          BY DEF IInv, CommandsFit
        <5>2. Removes(logins, again, pc[h], w, c)
          BY <1>2, <5>1, CommandsTail
        <5>. QED  BY <3>1, <4>2, <5>2 DEF Removes
      <4>4. a = AccountOf(w)
        BY <3>1, <4>3 DEF IInv, OneLogin
      <4>5. CASE op[h] = "logout"
        BY <2>2, <4>1, <4>5
      <4>6. CASE op[h] = "login"
        <5>1. AccountOf(w) \in logins[t] /\ x < t
          BY <1>1, <4>6 DEF Alright, Past
        <5>2. t > x
          BY <1>1, <3>1, <5>1 DEF Token
        <5>. QED  BY <1>1, <4>4, <5>1, <5>2
      <4>. QED  BY <1>1, <4>5, <4>6 DEF Alright, Past
    <3>. QED  BY <3>2, <3>3
  <2>7. Lasts(h)'
    BY <1>2, <2>4, <2>6 DEF Lasts, history
  <2>. QED  BY <2>1, <2>5, <2>7
<1>11. Alright(h)'
  BY <1>2, <1>8, <1>9, <1>10 DEF Alright, history
<1>. QED  BY <1>11, OnlyOne

LEMMA ExecuteAlright ==
  ASSUME OneAtATime, IInv, SInv, NEW h \in Handler, Execute(h)
  PROVE  SInv'
<1>1. pc[h] \in {"refresh", "remove", "set"}
  BY SendFacts DEF SInv
<1>. QED  BY <1>1, RefreshAlright, RemoveAlright, SetAlright

\* Time leaves what has been sent alone: it is fresh.
LEMMA TickAlright ==
  ASSUME OneAtATime, IInv, SInv, NEW h \in Handler, Tick
  PROVE  SInv'
<1>1. /\ Alright(h) /\ UNCHANGED <<redis, old, session_vars, history>>
      /\ now' = now + 1 /\ now \in Int
      /\ granted \cup loggedOut \subseteq Int /\ tok[h] \in Int
  BY DEF SInv, Tick, IInv, TypeOK, Token
<1>2. Places(h)' /\ Final(h)'
  BY <1>1 DEF Alright, Places, Final, Setting, Removing, Gone, Live, AccountOf, session_vars, history
<1>3. Past(h)'
  BY <1>1 DEF Alright, Past, AccountOf, session_vars, history
<1>4. ASSUME ~lapsed
      PROVE  Reads(h)' /\ Sessions(h)' /\ Lasts(h)'
  BY <1>1, <1>4 DEF Alright, Reads, Sessions, Lasts, Held, Alone, Removing, Live, Holder,
     AccountOf, session_vars, history
<1>5. Alright(h)'
  BY <1>1, <1>2, <1>3, <1>4 DEF Alright, history
<1>. QED  BY <1>5, OnlyOne

LEMMA AgeAlright ==
  ASSUME OneAtATime, IInv, SInv, NEW h \in Handler, Age
  PROVE  SInv'
<1>1. /\ Alright(h) /\ UNCHANGED <<redis, now, session_vars, history>> /\ pc[h] \in {"idle", "served"}
      /\ pc'[h] = pc[h]
  BY DEF SInv, Age, session_vars
<1>2. Places(h)' /\ Final(h)'
  BY <1>1 DEF Alright, Places, Final, AtWork, Live, session_vars, history
<1>3. Past(h)'
  BY <1>1 DEF Alright, Past, AccountOf, session_vars, history
<1>4. ASSUME ~lapsed
      PROVE  Reads(h)' /\ Sessions(h)' /\ Lasts(h)'
  BY <1>1, <1>4 DEF Alright, Reads, Sessions, Lasts, Held, Live, Holder, session_vars, history
<1>5. Alright(h)'
  BY <1>1, <1>2, <1>3, <1>4 DEF Alright, history
<1>. QED  BY <1>5, OnlyOne

LEMMA ExpireAlright ==
  ASSUME OneAtATime, IInv, SInv, NEW h \in Handler, NEW k \in Key, Expire(k)
  PROVE  SInv'
<1>1. /\ Alright(h) /\ k \in old /\ redis' = [redis EXCEPT ![k] = None] /\ old' = old \ {k}
      /\ redis \in [Key -> Value] /\ lapsed' = TRUE
      /\ UNCHANGED <<now, session_vars, granted, logins, again, loggedOut>>
      /\ UNCHANGED <<pc, op, tok, who, todo>> /\ tok[h] \in Token
  BY DEF SInv, Expire, IInv, TypeOK, session_vars
<1>2. \A x \in Key : redis'[x] = IF x = k THEN None ELSE redis[x]
  BY <1>1
<1>3. \A x \in Token : Live(x)' => Live(x)
  BY <1>2, KeysAreKeys DEF Live
<1>4. Gone(h) => Gone(h)'
  BY <1>1, <1>3 DEF Gone
<1>5. pc[h] = "set" \/ (pc[h] = "refresh" /\ Setting(h)) => Setting(h)'
  <2>1. ASSUME Setting(h), pc[h] \in Late
        PROVE  Setting(h)'
    <3>. PICK cmds, r2, o2 : cmds = SetOf(who[h], tok[h]) /\ r2 = redis' /\ o2 = old'
      OBVIOUS
    <3>1. cmds \subseteq Command /\ Underway(redis, old, todo[h], cmds)
      BY <2>1, LateTypes, SetOfCommands DEF Setting
    <3>2. Underway(r2, o2, todo[h], cmds)
      BY <1>1, <3>1, UnderwayExpires
    <3>. QED  BY <1>1, <3>2 DEF Setting
  <2>. QED  BY <1>1, <2>1 DEF Alright, Places, Late
<1>6. ASSUME NEW s \in Token, Removing(h, s), pc[h] = "remove"
      PROVE  Removing(h, s)'
  <2>. PICK cmds, r2, o2 : cmds = RemoveOf(who[h], s) /\ r2 = redis' /\ o2 = old'
    OBVIOUS
  <2>1. cmds \subseteq Command /\ Underway(redis, old, todo[h], cmds)
    BY <1>6, LateTypes, RemoveOfCommands DEF Removing, Late
  <2>2. Underway(r2, o2, todo[h], cmds)
    BY <1>1, <2>1, UnderwayExpires
  <2>. QED  BY <1>1, <2>2 DEF Removing
<1>7. ASSUME pc[h] \in {"find", "remove"}
      PROVE  LET k1 == UserKey(AccountOf(who[h]))
             IN  /\ k1 \notin old => redis'[k1] = redis[k1] /\ k1 \notin old'
                 /\ redis[k1] = None => redis'[k1] = None
  BY <1>1, <1>2, <1>7, LateTypes, KeysAreKeys DEF Late
<1>8. AccountOf(who[h])' = AccountOf(who[h])
  BY <1>1
<1>9. Places(h)'
  BY <1>1, <1>4, <1>5, <1>6, <1>7, <1>8 DEF Alright, Places
<1>10. Past(h)'
  BY <1>1, <1>8 DEF Alright, Past
<1>11. Final(h)'
  <2>1. loggedOut \subseteq Token
    BY DEF IInv, TypeOK
  <2>. QED  BY <1>1, <1>3, <2>1 DEF Alright, Final
<1>12. Alright(h)'
  BY <1>1, <1>9, <1>10, <1>11 DEF Alright
<1>. QED  BY <1>12, OnlyOne

LEMMA NextAlright == OneAtATime /\ IInv /\ SInv /\ [Next]_vars => SInv'
<1>. SUFFICES ASSUME OneAtATime, IInv, SInv, [Next]_vars
              PROVE  SInv'
  OBVIOUS
<1>1. ASSUME NEW h \in Handler, Work(h)
      PROVE  SInv'
  BY <1>1, ExecuteAlright, FindTokenAlright, StartSetAlright, LoginDoneAlright, ReadAlright,
     GetTokenTTLAlright, AuthenticatedAlright, LogoutDoneAlright DEF Work
<1>2. CASE UNCHANGED vars
  BY <1>2 DEF vars, SInv, Alright, Places, Past, Final, Reads, Sessions, Lasts, Held, Alone,
     Setting, Removing, Gone, Live, Holder, AccountOf
<1>3. CASE Tick \/ Age \/ \E k \in Key : Expire(k)
  <2>1. CASE Handler = {}
    BY <2>1 DEF SInv
  <2>2. CASE Handler # {}
    BY <1>3, <2>2, TickAlright, AgeAlright, ExpireAlright
  <2>. QED  BY <2>1, <2>2
<1>. QED  BY <1>1, <1>2, <1>3, LoginAlright, RequestAlright DEF Next

LEMMA SpecSInv ==
  ASSUME OneAtATime
  PROVE  Spec => []SInv
<1>1. IInv /\ SInv /\ [Next]_vars => SInv'
  BY NextAlright
<1>. QED  BY <1>1, InitSInv, SpecIInv, PTL DEF Spec

\* With one request at a time, a token that was logged out is never accepted
\* again (logout, RemoveUser, SetCache), whatever keys expire.
THEOREM SpecLogoutIsFinal ==
  ASSUME OneAtATime
  PROVE  Spec => []LogoutIsFinal
<1>1. SInv => LogoutIsFinal
  <2>. SUFFICES ASSUME SInv, NEW t \in loggedOut \ again
                PROVE  ~Accepted(t)
    BY DEF LogoutIsFinal
  <2>1. PICK h \in Handler : Final(h)
    BY DEF OneAtATime, SInv, Alright
  <2>. QED  BY <2>1 DEF Final, Live, Accepted
<1>. QED  BY <1>1, SpecSInv, PTL

\* With one request at a time and nothing expired, an account has at most one
\* accepted token, the registered one (cacheLoginToken, RemoveUser, SetCache).
THEOREM SpecOneSession ==
  ASSUME OneAtATime
  PROVE  Spec => []OneSession
<1>1. IInv /\ SInv => OneSession
  <2>. SUFFICES ASSUME IInv, SInv, Quiet, ~lapsed, NEW t \in Token \ again, Accepted(t),
                       NEW a \in logins[t]
                PROVE  redis[UserKey(a)] = t
    BY DEF OneSession
  <2>1. PICK h \in Handler : Alright(h)
    BY DEF OneAtATime, SInv
  <2>2. Held(t) /\ Live(t)
    BY <2>1 DEF Alright, Sessions, Quiet, Accepted, Live
  <2>3. Holder(t) = a
    <3>1. /\ Fits(logins, again, TokenKey(t), redis[TokenKey(t)])
          /\ Fits(logins, again, DbKey(t), redis[DbKey(t)])
      BY KeysAreKeys DEF IInv, RedisFits
    <3>2. redis[TokenKey(t)] = a[2] /\ redis[DbKey(t)] = a[1]
      BY <3>1 DEF Fits, Accepted, IInv, OneLogin
    <3>3. a \in Db \X User
      BY AccountAssumption DEF IInv, TypeOK
    <3>. QED  BY <3>2, <3>3 DEF Holder
  <2>. QED  BY <2>2, <2>3 DEF Held
<1>. QED  BY <1>1, SpecSInv, SpecIInv, PTL

\* With one request at a time and nothing expired, the token that a login
\* returned is accepted until its account logs in or out again
\* (cacheLoginToken, AuthMiddleware, RemoveUser).
THEOREM SpecSessionLasts ==
  ASSUME OneAtATime
  PROVE  Spec => []SessionLasts
<1>1. IInv /\ SInv => SessionLasts
  <2>. SUFFICES ASSUME IInv, SInv, Quiet, ~lapsed,
                       NEW t \in granted \ (again \cup loggedOut), NEW a \in logins[t]
                PROVE  Accepted(t) \/ \E s \in Token : s > t /\ a \in logins[s]
    BY DEF SessionLasts
  <2>1. PICK h \in Handler : Alright(h)
    BY DEF OneAtATime, SInv
  <2>2. t \in Token /\ Held(t)
    BY <2>1 DEF Alright, Sessions, Quiet, IInv, TypeOK
  <2>3. Live(t) \/ \E s \in Token : s > t /\ a \in logins[s]
    BY <2>1 DEF Alright, Lasts, Quiet
  <2>. QED  BY <2>2, <2>3 DEF Held, Live, Accepted
<1>. QED  BY <1>1, SpecSInv, SpecIInv, PTL
=============================================================================
